------------------------- MODULE BlobDownloadProofs -------------------------
(***************************************************************************)
(* Theorems about the download of a blob, for any number of clients, parts *)
(* and units, any number of failures and crashes, and any retry limit:     *)
(* who works on it and who waits for it, and then its files: what the part *)
(* files say is in the partial file, and a partial file that is renamed is *)
(* whole.                                                                  *)
(***************************************************************************)
EXTENDS BlobDownload, FiniteSetTheorems, TLAPS

USE DEF files

-----------------------------------------------------------------------------
(* The core invariant: types, bounds, and who is where *)

Setup    == {"prepare", "parts", "prepared"}
Progress == Setup \cup {"start", "url", "chunks", "clean", "return"}
Early    == Setup \cup {"none", "start", "failed"}

\* Part files say no more than their part holds.
FilesBounded == \A n \in Parts : partFile[n] \in {None, Torn} \cup (0 .. Size(n))

\* A download: goroutines only while the parts are fetched, CancelFunc set once
\* run has begun, the channel closed at the very end; while Prepare makes the
\* part files, it has made those of an initial segment.
RecordOK(x) ==
    /\ x.closed <=> x.phase = "end"
    /\ x.phase # "chunks" => x.worker = NoDownload.worker
    /\ x.cancel = "nil" <=> x.phase \in Early
    /\ x.phase \in {"prepare", "parts"} => \E k \in Parts : x.parts = 0 .. k - 1
    /\ \A n \in Parts : x.completed[n] + x.worker[n].copied <= Size(n)
    /\ x.removed <= NumParts

\* The entry of the map is the one download in progress.
Entry(d) == down[d].phase \in Progress <=> current = d

\* The partial file is there from its opening to its renaming.
Writing   == {"url", "chunks", "clean"}
Opened(d) == down[d].phase \in Writing => data # None

\* Where a client is, which download it belongs to, and how far that one is.
Place(c) ==
    /\ pc[c] \in {"idle", "lookup"} => mine[c] = None /\ down[c].phase = "none"
    /\ pc[c] = "prepare" <=> down[c].phase \in Setup
    /\ pc[c] = "prepare" => mine[c] = c
    /\ pc[c] \in {"join", "wait", "verify", "err", "gone", "stuck", "bad"} => mine[c] \in Clients
    /\ mine[c] \in Clients => down[mine[c]].phase # "none"

Core ==
    /\ FileTypeOK /\ FilesBounded /\ DownTypeOK
    /\ \A d \in Clients : RecordOK(down[d]) /\ Entry(d) /\ Opened(d) /\ Place(d)

\* The worker that has nothing to do, and the download nobody has started.
LEMMA InitialTypes ==
    /\ Idle \in WorkerType /\ NoDownload \in DownloadType
    /\ RecordOK(NoDownload) /\ NoDownload.phase = "none"
<1>1. Idle \in WorkerType /\ NoDownload \in DownloadType
  BY DEF Idle, NoDownload, WorkerType, DownloadType
<1>2. RecordOK(NoDownload)
  BY DownloadConstants DEF RecordOK, NoDownload, Idle, Early, Setup, Parts
<1> QED BY <1>1, <1>2 DEF NoDownload

\* A goroutine that tries again, or has failed for good.
LEMMA RetryTypes ==
    ASSUME NEW w \in WorkerType
    PROVE  Retry(w) \in WorkerType /\ Retry(w).copied <= w.copied
<1>1. w.tries + 1 \in Nat /\ w.copied \in Nat
  BY DEF WorkerType
<1>2. Retry(w) \in WorkerType
  BY <1>1 DEF Retry, WorkerType
<1>3. Retry(w).copied <= w.copied
  BY <1>1 DEF Retry, WorkerType
<1> QED BY <1>2, <1>3

\* What remains of a download that has ended.
LEMMA EndedTypes ==
    ASSUME DownTypeOK, NEW d \in Clients, NEW phase \in {"failed", "deleted"}
    PROVE  /\ Ended(d, phase) \in DownloadType
           /\ Ended(d, phase).phase = phase /\ Ended(d, phase).cancel = down[d].cancel
           /\ Ended(d, phase).references = down[d].references
           /\ Ended(d, phase).err = down[d].err
           /\ (down[d].cancel = "nil" <=> phase \in Early) => RecordOK(Ended(d, phase))
<1> DEFINE x == Ended(d, phase)
<1>1. x \in DownloadType
  BY InitialTypes DEF Ended, DownTypeOK, DownloadType
<1>2. /\ x.phase = phase /\ x.cancel = down[d].cancel /\ x.references = down[d].references
      /\ x.err = down[d].err
      /\ x.completed = NoDownload.completed /\ x.worker = NoDownload.worker
      /\ x.removed = NoDownload.removed /\ x.closed = NoDownload.closed
  BY DEF Ended, NoDownload
<1> HIDE DEF x
<1>3. (down[d].cancel = "nil" <=> phase \in Early) => RecordOK(x)
  BY <1>2, InitialTypes DEF RecordOK
<1> QED BY <1>1, <1>2, <1>3 DEF x

\* A failure counts within its bound.
LEMMA FaultTypes ==
    ASSUME DownTypeOK, Fault \/ UNCHANGED faults
    PROVE  faults' \in 0 .. MaxFaults
BY DownloadConstants DEF Fault, DownTypeOK

\* The part that Prepare makes next is the one its count names.
LEMMA NextPart ==
    ASSUME NEW k \in Nat
    PROVE  Cardinality(0 .. k - 1) = k
BY FS_Interval

\* There are at most NumParts of them.
LEMMA PartCount ==
    ASSUME NEW S \in SUBSET Parts
    PROVE  IsFiniteSet(S) /\ Cardinality(S) \in 0 .. NumParts
<1>0. NumParts \in Nat \ {0} /\ 0 \in Int /\ NumParts - 1 \in Int
  BY DownloadConstants
<1>1. IsFiniteSet(Parts) /\ Cardinality(Parts) = NumParts
  BY <1>0, FS_Interval DEF Parts
<1> QED BY <1>1, FS_Subset, FS_CardinalityType, DownloadConstants

\* One download changes, the others stay as they are.
LEMMA Becomes ==
    ASSUME DownTypeOK, NEW d \in Clients, NEW x \in DownloadType, down' = [down EXCEPT ![d] = x]
    PROVE  /\ down' \in [Clients -> DownloadType]
           /\ down'[d] = x /\ \A e \in Clients \ {d} : down'[e] = down[e]
BY DEF DownTypeOK

\* What has to be shown of a step that changes one download.
LEMMA Replaces ==
    ASSUME Core, NEW d \in Clients, NEW x \in DownloadType, down' = [down EXCEPT ![d] = x],
           RecordOK(x), FileTypeOK', FilesBounded',
           UNCHANGED data \/ current = d, x.phase \in Writing => data' # None,
           Fault \/ UNCHANGED faults, UNCHANGED crashes, panic' \in BOOLEAN,
           current' \in Clients \cup {None}, pc' \in [Clients -> Places],
           mine' \in [Clients -> Clients \cup {None}]
    PROVE  /\ down'[d] = x /\ \A e \in Clients \ {d} : down'[e] = down[e]
           /\ (\A e \in Clients : Entry(e)' /\ Place(e)') => Core'
<1>1. /\ down' \in [Clients -> DownloadType]
      /\ down'[d] = x /\ \A e \in Clients \ {d} : down'[e] = down[e]
  BY Becomes DEF Core
<1>2. DownTypeOK'
  BY <1>1, FaultTypes DEF Core, DownTypeOK
<1>3. \A e \in Clients : RecordOK(down[e])'
  BY <1>1 DEF Core, RecordOK
<1>4. \A e \in Clients : Opened(e)'
  BY <1>1 DEF Core, Opened, Entry, Writing, Progress
<1> QED BY <1>1, <1>2, <1>3, <1>4 DEF Core

\* A step of a download that leaves the clients and the map alone.
LEMMA Proceeds ==
    ASSUME Core, NEW d \in Clients, NEW x \in DownloadType, down' = [down EXCEPT ![d] = x],
           RecordOK(x), FileTypeOK', FilesBounded',
           UNCHANGED data \/ current = d, x.phase \in Writing => data' # None,
           Fault \/ UNCHANGED faults, UNCHANGED <<current, pc, mine, crashes, panic>>,
           x.phase = "none" <=> down[d].phase = "none",
           x.phase \in Setup <=> down[d].phase \in Setup,
           x.phase \in Progress <=> down[d].phase \in Progress
    PROVE  Core'
<1>1. /\ down'[d] = x /\ \A e \in Clients \ {d} : down'[e] = down[e]
      /\ (\A e \in Clients : Entry(e)' /\ Place(e)') => Core'
  BY Replaces DEF Core, DownTypeOK
<1>2. \A e \in Clients : /\ down'[e].phase = "none" <=> down[e].phase = "none"
                         /\ down'[e].phase \in Setup <=> down[e].phase \in Setup
                         /\ down'[e].phase \in Progress <=> down[e].phase \in Progress
  BY <1>1
<1>3. \A e \in Clients : Entry(e)' /\ Place(e)'
  BY <1>2 DEF Core, Entry, Place
<1> QED BY <1>1, <1>3

\* The steps of a client keep the core invariant.
LEMMA ClientCore ==
    ASSUME Core, NEW c \in Clients, Client(c) \/ WaitLeave(c) \/ WaitReport(c)
    PROVE  Core'
<1>a. /\ DownTypeOK /\ FileTypeOK /\ FilesBounded
      /\ \A d \in Clients : RecordOK(down[d]) /\ Entry(d) /\ Opened(d) /\ Place(d)
  BY DEF Core
<1>b. UNCHANGED files => FileTypeOK' /\ FilesBounded'
  BY <1>a DEF FileTypeOK, FilesBounded
<1>c. UNCHANGED <<down, data>> => \A d \in Clients : RecordOK(down[d])' /\ Opened(d)'
  BY <1>a DEF RecordOK, Opened
<1>d. down[c] \in DownloadType /\ pc \in [Clients -> Places] /\ mine \in [Clients -> Clients \cup {None}]
  BY <1>a DEF DownTypeOK
<1>1. CASE Stat(c) \/ WaitReport(c)
  <2>1. DownTypeOK'
    BY <1>1, <1>a DEF Stat, WaitReport, DownTypeOK, Places
  <2>2. \A d \in Clients : Entry(d)' /\ Place(d)'
    BY <1>1, <1>a DEF Stat, WaitReport, Entry, Place, DownTypeOK
  <2> QED BY <1>1, <1>b, <1>c, <2>1, <2>2 DEF Core, Stat, WaitReport
<1>2. CASE Verify(c)
  <2>1. DownTypeOK' /\ FileTypeOK' /\ FilesBounded'
    BY <1>2, <1>a DEF Verify, DownTypeOK, FileTypeOK, FilesBounded, Places
  <2>2. \A d \in Clients : Entry(d)' /\ Place(d)'
    BY <1>2, <1>a DEF Verify, Entry, Place, DownTypeOK
  <2> QED BY <1>2, <1>c, <2>1, <2>2 DEF Core, Verify
<1>3. CASE Spawn(c)
  <2> DEFINE x == [down[c] EXCEPT !.phase = "start"]
  <2>1. x \in DownloadType /\ x.phase = "start"
    BY <1>d DEF DownloadType
  <2>2. down' = [down EXCEPT ![c] = x] /\ down[c].phase = "prepared"
    BY <1>3 DEF Spawn
  <2>3. RecordOK(x)
    BY <1>a, <1>d, <2>2 DEF RecordOK, DownloadType, Early, Setup
  <2> HIDE DEF x
  <2>4. /\ down'[c] = x /\ \A e \in Clients \ {c} : down'[e] = down[e]
        /\ (\A e \in Clients : Entry(e)' /\ Place(e)') => Core'
    BY <1>3, <1>b, <2>1, <2>2, <2>3, Replaces DEF Spawn, Writing, Core, DownTypeOK, Places
  <2>5. \A e \in Clients : Entry(e)' /\ Place(e)'
    BY <1>3, <1>a, <2>1, <2>2, <2>4 DEF Spawn, Entry, Place, Setup, Progress, DownTypeOK
  <2> QED BY <2>4, <2>5
<1>4. CASE acquire(c)
  <2>0. PICK d \in Clients : d = mine[c] /\ down[d].phase # "none" /\ RecordOK(down[d])
    BY <1>4, <1>a DEF acquire, Place
  <2> DEFINE x == [down[d] EXCEPT !.references = @ + 1]
  <2>1. down[d].references + 1 \in Int /\ down[d] \in DownloadType
    BY <1>a DEF DownTypeOK, DownloadType
  <2>2. x \in DownloadType /\ x.phase = down[d].phase
    BY <2>1 DEF DownloadType
  <2>3. down' = [down EXCEPT ![d] = x]
    BY <1>4, <2>0 DEF acquire
  <2>4. RecordOK(x)
    BY <2>0, <2>1 DEF RecordOK, DownloadType
  <2> HIDE DEF x
  <2>5. /\ down'[d] = x /\ \A e \in Clients \ {d} : down'[e] = down[e]
        /\ (\A e \in Clients : Entry(e)' /\ Place(e)') => Core'
    BY <1>4, <1>a, <1>b, <2>2, <2>3, <2>4, Replaces DEF acquire, Opened, Core, DownTypeOK, Places
  <2>6. \A e \in Clients : Entry(e)' /\ Place(e)'
    BY <1>4, <1>a, <2>2, <2>5 DEF acquire, Entry, Place, DownTypeOK
  <2> QED BY <2>5, <2>6
<1>5. CASE WaitDone(c) \/ WaitLeave(c)
  <2>0. PICK d \in Clients : d = mine[c] /\ down[d].phase # "none" /\ RecordOK(down[d])
    BY <1>5, <1>a DEF WaitDone, WaitLeave, Place
  <2> DEFINE can == IF down[d].references = 1 /\ down[d].cancel = "set" THEN "called"
                    ELSE down[d].cancel
             x == [down[d] EXCEPT !.references = @ - 1, !.cancel = can]
  <2>1. down[d].references - 1 \in Int /\ down[d] \in DownloadType
    BY <1>a DEF DownTypeOK, DownloadType
  <2>2. can \in {"nil", "set", "called"} /\ (can = "nil" <=> down[d].cancel = "nil")
    BY <2>1 DEF DownloadType
  <2>3. down' = [down EXCEPT ![d] = x]
    BY <1>5, <2>0 DEF WaitDone, WaitLeave, release
  <2> HIDE DEF can
  <2>4. x \in DownloadType /\ x.phase = down[d].phase
    BY <2>1, <2>2 DEF DownloadType
  <2>5. RecordOK(x)
    BY <2>0, <2>1, <2>2 DEF RecordOK, DownloadType
  <2>6. /\ \E p \in Places \ {"idle", "lookup", "prepare"} : pc' = [pc EXCEPT ![c] = p]
        /\ UNCHANGED <<files, current, mine, faults, crashes>> /\ panic' \in BOOLEAN
    BY <1>5 DEF WaitDone, WaitLeave, release, Places
  <2> HIDE DEF x
  <2>7. /\ down'[d] = x /\ \A e \in Clients \ {d} : down'[e] = down[e]
        /\ (\A e \in Clients : Entry(e)' /\ Place(e)') => Core'
    BY <1>a, <1>b, <2>3, <2>4, <2>5, <2>6, Replaces DEF Core, Opened, DownTypeOK
  <2>8. pc[c] = "wait"
    BY <1>5 DEF WaitDone, WaitLeave
  <2>9. \A e \in Clients : Entry(e)' /\ Place(e)'
    BY <1>a, <2>0, <2>4, <2>6, <2>7, <2>8 DEF Entry, Place, DownTypeOK
  <2> QED BY <2>7, <2>9
<1>6. CASE Lookup(c)
  <2>1. CASE current # None
    <3>1. DownTypeOK'
      BY <1>6, <1>a, <2>1 DEF Lookup, DownTypeOK, Places
    <3>2. down[current].phase # "none"
      BY <1>a, <2>1 DEF Entry, DownTypeOK, Progress, Setup
    <3>3. \A d \in Clients : Entry(d)' /\ Place(d)'
      BY <1>6, <1>a, <2>1, <3>2 DEF Lookup, Entry, Place, DownTypeOK
    <3> QED BY <1>6, <1>b, <1>c, <2>1, <3>1, <3>3 DEF Core, Lookup
  <2>2. CASE current = None
    <3> DEFINE x == [NoDownload EXCEPT !.phase = "prepare"]
    <3>1. x \in DownloadType /\ x.phase = "prepare"
      BY InitialTypes DEF DownloadType
    <3>2. down' = [down EXCEPT ![c] = x] /\ down[c].phase = "none"
      BY <1>6, <1>a, <2>2 DEF Lookup, Place
    <3>3. 0 \in Parts /\ NoDownload.parts = 0 .. 0 - 1
      BY DownloadConstants DEF Parts, NoDownload
    <3>4. RecordOK(x)
      BY <3>3, InitialTypes DEF RecordOK, DownloadType, Early, Setup
    <3> HIDE DEF x
    <3>a. /\ UNCHANGED <<files, faults, crashes, panic>> /\ panic' \in BOOLEAN
          /\ pc' \in [Clients -> Places] /\ mine' \in [Clients -> Clients \cup {None}]
          /\ current' \in Clients \cup {None}
      BY <1>6, <1>a, <2>2 DEF Lookup, DownTypeOK, Places
    <3>5. /\ down'[c] = x /\ \A e \in Clients \ {c} : down'[e] = down[e]
          /\ (\A e \in Clients : Entry(e)' /\ Place(e)') => Core'
      BY <1>b, <3>a, <3>1, <3>2, <3>4, Replaces DEF Writing
    <3>6. \A e \in Clients : Entry(e)' /\ Place(e)'
      BY <1>6, <1>a, <2>2, <3>1, <3>2, <3>5, DownloadMarks
         DEF Lookup, Entry, Place, Setup, Progress, DownTypeOK
    <3> QED BY <3>5, <3>6
  <2> QED BY <2>1, <2>2
<1>7. CASE PrepareResume(c)
  <2> DEFINE completed == [n \in Parts |-> IF n \in Known THEN partFile[n] ELSE 0]
             x == [down[c] EXCEPT !.phase = "prepared", !.parts = Known, !.completed = completed]
  <2>1. \A n \in Parts : completed[n] \in 0 .. Size(n)
    <3>1. ASSUME NEW n \in Known PROVE partFile[n] \in 0 .. Size(n)
      BY <1>7, <1>a, <3>1 DEF PrepareResume, Known, FilesBounded
    <3>2. \A n \in Parts : 0 \in 0 .. Size(n)
      BY DownloadConstants DEF Parts
    <3> QED BY <3>1, <3>2
  <2>2. completed \in [Parts -> Nat] /\ Known \in SUBSET Parts
    BY <2>1, DownloadConstants DEF Known, Parts
  <2>3. down' = [down EXCEPT ![c] = x] /\ down[c].phase = "prepare"
    BY <1>7 DEF PrepareResume
  <2> HIDE DEF completed
  <2>4. x \in DownloadType /\ x.phase = "prepared"
    BY <1>d, <2>2 DEF DownloadType
  <2>5. down[c].worker = NoDownload.worker /\ \A n \in Parts : NoDownload.worker[n].copied = 0
    BY <1>a, <2>3 DEF RecordOK, NoDownload, Idle
  <2>6. RecordOK(x)
    <3>1. \A n \in Parts : x.completed[n] + x.worker[n].copied <= Size(n)
      BY <1>d, <2>1, <2>5, DownloadConstants DEF DownloadType, Parts
    <3> QED BY <1>a, <1>d, <2>3, <2>5, <3>1 DEF RecordOK, DownloadType, Early, Setup
  <2> HIDE DEF x
  <2> QED BY <1>7, <1>b, <2>3, <2>4, <2>6, Proceeds DEF PrepareResume, Setup, Progress, Writing
<1>8. CASE PrepareNew(c)
  <2>1. PICK k \in Parts : down[c].parts = 0 .. k - 1
    BY <1>8, <1>a DEF WritesParts, PrepareNew, RecordOK
  <2>2. Cardinality(down[c].parts) = k /\ k \in Nat
    BY <2>1, NextPart DEF Parts
  <2> DEFINE phase == IF k + 1 = NumParts THEN "prepared" ELSE "parts"
             x == [down[c] EXCEPT !.parts = @ \cup {k}, !.phase = phase]
  <2>3. /\ partFile' = [partFile EXCEPT ![k] = 0]
        /\ down' = [down EXCEPT ![c] = x] /\ down[c].phase \in {"prepare", "parts"}
        /\ UNCHANGED <<blob, data, current, pc, mine, faults, crashes, panic>>
    BY <1>8, <2>2 DEF WritesParts, PrepareNew
  <2>4. k + 1 # NumParts => k + 1 \in Parts /\ (0 .. k - 1) \cup {k} = 0 .. (k + 1) - 1
    BY <2>1, <2>2, DownloadConstants DEF Parts
  <2>5. phase \in {"prepared", "parts"} /\ (phase = "parts" => k + 1 # NumParts)
    OBVIOUS
  <2> HIDE DEF phase
  <2>6. x \in DownloadType /\ x.phase = phase
    BY <1>d, <2>1, <2>5 DEF DownloadType
  <2>7. RecordOK(x)
    BY <1>a, <1>d, <2>1, <2>3, <2>4, <2>5 DEF RecordOK, DownloadType, Early, Setup
  <2>8. FileTypeOK' /\ FilesBounded'
    BY <1>a, <2>3, DownloadConstants DEF FileTypeOK, FilesBounded, Parts
  <2> HIDE DEF x
  <2> QED BY <2>3, <2>5, <2>6, <2>7, <2>8, Proceeds DEF Setup, Progress, Writing
<1>9. CASE PrepareFail(c)
  <2> DEFINE x == Ended(c, "failed")
  <2>1. /\ x \in DownloadType /\ x.phase = "failed"
        /\ x.cancel = down[c].cancel /\ down[c].cancel = "nil"
        /\ down' = [down EXCEPT ![c] = x] /\ down[c].phase \in {"prepare", "parts"}
    BY <1>9, <1>a, EndedTypes DEF WritesParts, PrepareFail, RecordOK, Early, Setup
  <2>2. RecordOK(x)
    BY <1>a, <2>1, EndedTypes DEF Early
  <2>3. FileTypeOK' /\ FilesBounded'
    BY <1>9, <1>a DEF WritesParts, PrepareFail, FileTypeOK, FilesBounded
  <2> HIDE DEF x
  <2>4. /\ down'[c] = x /\ \A e \in Clients \ {c} : down'[e] = down[e]
        /\ (\A e \in Clients : Entry(e)' /\ Place(e)') => Core'
    BY <1>9, <1>a, <2>1, <2>2, <2>3, Replaces DEF PrepareFail, Writing, Core, DownTypeOK, Places
  <2>5. current = c /\ current' = None /\ c # None
    BY <1>9, <1>a, <2>1, DownloadMarks DEF PrepareFail, Entry, Progress, Setup
  <2>6. \A e \in Clients : Entry(e)' /\ Place(e)'
    BY <1>9, <1>a, <2>1, <2>4, <2>5, DownloadMarks
       DEF PrepareFail, Entry, Place, Setup, Progress, DownTypeOK
  <2> QED BY <2>4, <2>6
<1> QED BY <1>1, <1>2, <1>3, <1>4, <1>5, <1>6, <1>7, <1>8, <1>9 DEF Client

\* The steps of run keep it.
LEMMA RunCore ==
    ASSUME Core, NEW d \in Clients, Run(d)
    PROVE  Core'
<1>a. /\ DownTypeOK /\ FileTypeOK /\ FilesBounded /\ RecordOK(down[d]) /\ down[d] \in DownloadType
      /\ down[d].phase \in Writing => data # None
      /\ down[d].phase \in Progress => current = d
      /\ \A e \in Clients : RecordOK(down[e]) /\ Entry(e) /\ Opened(e) /\ Place(e)
  BY DEF Core, DownTypeOK, Opened, Entry
<1>b. UNCHANGED files => FileTypeOK' /\ FilesBounded'
  BY <1>a DEF FileTypeOK, FilesBounded
<1>c. \A n \in Parts : NoDownload.worker[n].copied = 0
  BY DEF NoDownload, Idle
<1>d. \A n \in Parts : down[d].completed[n] \in Nat /\ Size(n) \in Nat
  BY <1>a, DownloadConstants DEF DownloadType, Parts
<1>e. \A n \in Parts : down[d].completed[n] <= Size(n)
  BY <1>a, <1>d DEF RecordOK, DownloadType, WorkerType
\* The download gives up.
<1>f. ASSUME NEW can \in {"set", "called"}, down[d].phase \in {"start", "url", "clean"},
             down' = [Fail(d) EXCEPT ![d].cancel = can],
             UNCHANGED <<files, current, pc, mine, crashes, panic>>, Fault \/ UNCHANGED faults
      PROVE  Core'
  <2> DEFINE x == [down[d] EXCEPT !.phase = "return", !.err = TRUE, !.cancel = can]
  <2>1. down' = [down EXCEPT ![d] = x]
    BY <1>a, <1>f DEF Fail, DownTypeOK
  <2>2. x \in DownloadType /\ x.phase = "return"
    BY <1>a, <1>f DEF DownloadType
  <2>3. RecordOK(x)
    BY <1>a, <1>f DEF RecordOK, DownloadType, Early, Setup
  <2> HIDE DEF x
  <2> QED BY <1>b, <1>f, <2>1, <2>2, <2>3, Proceeds DEF Setup, Progress, Writing
<1>1. CASE RunOpen(d)
  <2> DEFINE x == [down[d] EXCEPT !.cancel = "set", !.phase = "url"]
  <2>1. down' = [down EXCEPT ![d] = x] /\ down[d].phase = "start"
    BY <1>1 DEF RunOpen
  <2>2. x \in DownloadType /\ x.phase = "url"
    BY <1>a DEF DownloadType
  <2>3. RecordOK(x)
    BY <1>a, <2>1 DEF RecordOK, DownloadType, Early, Setup
  <2>4. \A n \in Parts : data'[n] \in [Units(n) -> {"no", "ok", "bad"}]
    BY <1>1, <1>a DEF RunOpen, FileTypeOK
  <2>5. data' \in Contents
    BY <1>1, <2>4 DEF RunOpen, Contents
  <2>6. FileTypeOK' /\ FilesBounded'
    BY <1>1, <1>a, <2>4, <2>5 DEF RunOpen, FileTypeOK, FilesBounded
  <2> HIDE DEF x
  <2> QED BY <1>1, <1>a, <2>1, <2>2, <2>3, <2>5, <2>6, DownloadMarks, Proceeds DEF RunOpen, Setup, Progress, Writing
<1>2. CASE RunURL(d)
  <2> DEFINE worker == [n \in Parts |->
                IF n \in down[d].parts /\ down[d].completed[n] < Size(n)
                THEN [Idle EXCEPT !.st = "copy"] ELSE Idle]
             x == [down[d] EXCEPT !.phase = "chunks", !.worker = worker]
  <2>1. down' = [down EXCEPT ![d] = x] /\ down[d].phase = "url"
    BY <1>2 DEF RunURL
  <2>2. worker \in [Parts -> WorkerType] /\ \A n \in Parts : worker[n].copied = 0
    BY DEF Idle, WorkerType
  <2> HIDE DEF worker
  <2>3. x \in DownloadType /\ x.phase = "chunks"
    BY <1>a, <2>2 DEF DownloadType
  <2>4. \A n \in Parts : x.completed[n] + x.worker[n].copied <= Size(n)
    BY <1>a, <1>d, <1>e, <2>2 DEF DownloadType
  <2>5. RecordOK(x)
    BY <1>a, <2>1, <2>4 DEF RecordOK, DownloadType, Early, Setup
  <2> HIDE DEF x
  <2> QED BY <1>2, <1>a, <1>b, <2>1, <2>3, <2>5, Proceeds DEF RunURL, Setup, Progress, Writing
<1>3. CASE RunURLFail(d)
  <2>1. down[d].cancel \in {"set", "called"}
    BY <1>3, <1>a DEF RunURLFail, RecordOK, DownloadType, Early, Setup
  <2>2. down' = [Fail(d) EXCEPT ![d].cancel = down[d].cancel]
    BY <1>3, <1>a DEF RunURLFail, Fail, DownTypeOK, DownloadType
  <2> QED BY <1>3, <1>f, <2>1, <2>2 DEF RunURLFail
<1>4. CASE RunChunksDone(d)
  <2> DEFINE phase == IF Unfinished(d) THEN "return" ELSE "clean"
             err == Unfinished(d)
             x == [down[d] EXCEPT !.worker = NoDownload.worker, !.phase = phase, !.err = err]
  <2>1. down' = [down EXCEPT ![d] = x] /\ down[d].phase = "chunks"
    BY <1>4 DEF RunChunksDone
  <2>2. phase \in {"return", "clean"} /\ err \in BOOLEAN
    BY DEF Unfinished
  <2> HIDE DEF phase, err
  <2>3. x \in DownloadType /\ x.phase = phase
    BY <1>a, <2>2, InitialTypes DEF DownloadType
  <2>4. \A n \in Parts : x.completed[n] + x.worker[n].copied <= Size(n)
    BY <1>a, <1>c, <1>d, <1>e DEF DownloadType
  <2>5. RecordOK(x)
    BY <1>a, <2>1, <2>2, <2>4 DEF RecordOK, DownloadType, Early, Setup
  <2> HIDE DEF x
  <2> QED BY <1>4, <1>a, <1>b, <2>1, <2>2, <2>3, <2>5, Proceeds DEF RunChunksDone, Setup, Progress, Writing
<1>5. CASE RunRemovePart(d)
  <2> DEFINE i == down[d].removed
  <2>1. i \in Nat /\ Cardinality(down[d].parts) \in 0 .. NumParts /\ down[d].phase = "clean"
    BY <1>5, <1>a, PartCount DEF RunRemovePart, DownloadType
  <2>2. CASE down' = Fail(d) /\ UNCHANGED partFile
    <3>1. down[d].cancel \in {"set", "called"}
      BY <1>a, <2>1 DEF RecordOK, DownloadType, Early, Setup
    <3>2. down' = [Fail(d) EXCEPT ![d].cancel = down[d].cancel]
      BY <1>a, <2>2 DEF Fail, DownTypeOK, DownloadType
    <3> QED BY <1>5, <1>f, <2>1, <2>2, <3>1, <3>2 DEF RunRemovePart
  <2>3. CASE partFile' = [partFile EXCEPT ![i] = None] /\ down' = [down EXCEPT ![d].removed = i + 1]
    <3> DEFINE x == [down[d] EXCEPT !.removed = i + 1]
    <3>1. down' = [down EXCEPT ![d] = x] /\ i + 1 \in Nat /\ i + 1 <= NumParts
      BY <1>5, <2>1, <2>3, DownloadConstants DEF RunRemovePart
    <3>2. x \in DownloadType /\ x.phase = "clean"
      BY <1>a, <2>1, <3>1 DEF DownloadType
    <3>3. RecordOK(x)
      BY <1>a, <2>1, <3>1 DEF RecordOK, DownloadType
    <3>4. FileTypeOK' /\ FilesBounded'
      BY <1>5, <1>a, <2>3 DEF RunRemovePart, FileTypeOK, FilesBounded
    <3> HIDE DEF x
    <3> QED BY <1>5, <1>a, <2>1, <3>1, <3>2, <3>3, <3>4, Proceeds DEF RunRemovePart, Setup, Progress, Writing
  <2> QED BY <1>5, <2>2, <2>3 DEF RunRemovePart
<1>6. CASE RunRename(d)
  <2> DEFINE x == [down[d] EXCEPT !.phase = "return"]
  <2>1. down' = [down EXCEPT ![d] = x] /\ down[d].phase = "clean"
    BY <1>6 DEF RunRename
  <2>2. x \in DownloadType /\ x.phase = "return"
    BY <1>a DEF DownloadType
  <2>3. RecordOK(x)
    BY <1>a, <2>1 DEF RecordOK, DownloadType, Early, Setup
  <2>4. FileTypeOK' /\ FilesBounded'
    BY <1>6, <1>a DEF RunRename, FileTypeOK, FilesBounded
  <2> HIDE DEF x
  <2> QED BY <1>6, <1>a, <2>1, <2>2, <2>3, <2>4, Proceeds DEF RunRename, Setup, Progress, Writing
<1>7. CASE RunFileFail(d)
  <2>1. PICK can \in {"set", "called"} : can = IF down[d].cancel = "nil" THEN "set" ELSE down[d].cancel
    BY <1>a DEF DownloadType
  <2>2. down' = [Fail(d) EXCEPT ![d].cancel = can]
    BY <1>7, <1>a, <2>1 DEF RunFileFail, Fail, DownTypeOK, DownloadType
  <2> QED BY <1>7, <1>f, <2>1, <2>2 DEF RunFileFail
<1>8. CASE RunDelete(d)
  <2> DEFINE x == Ended(d, "deleted")
  <2>1. /\ x \in DownloadType /\ x.phase = "deleted" /\ RecordOK(x)
        /\ down' = [down EXCEPT ![d] = x] /\ down[d].phase = "return"
    BY <1>8, <1>a, EndedTypes DEF RunDelete, RecordOK, Early, Setup
  <2> HIDE DEF x
  <2>2. /\ down'[d] = x /\ \A e \in Clients \ {d} : down'[e] = down[e]
        /\ (\A e \in Clients : Entry(e)' /\ Place(e)') => Core'
    BY <1>8, <1>a, <1>b, <2>1, Replaces DEF RunDelete, Writing, Core, DownTypeOK
  <2>3. current = d /\ current' = None /\ d # None
    BY <1>8, <1>a, <2>1, DownloadMarks DEF RunDelete, Entry, Progress
  <2>4. \A e \in Clients : Entry(e)' /\ Place(e)'
    BY <1>8, <1>a, <2>1, <2>2, <2>3, DownloadMarks
       DEF RunDelete, Entry, Place, Setup, Progress
  <2> QED BY <2>2, <2>4
<1>9. CASE RunClose(d)
  <2> DEFINE x == [down[d] EXCEPT !.phase = "end", !.closed = TRUE]
  <2>1. down' = [down EXCEPT ![d] = x] /\ down[d].phase = "deleted"
    BY <1>9 DEF RunClose
  <2>2. x \in DownloadType /\ x.phase = "end"
    BY <1>a DEF DownloadType
  <2>3. RecordOK(x)
    BY <1>a, <2>1 DEF RecordOK, DownloadType, Early, Setup
  <2> HIDE DEF x
  <2> QED BY <1>9, <1>b, <2>1, <2>2, <2>3, Proceeds DEF RunClose, Setup, Progress, Writing
<1> QED BY <1>1, <1>2, <1>3, <1>4, <1>5, <1>6, <1>7, <1>8, <1>9 DEF Run

\* A step of the goroutine of a part: what becomes of the units it has copied.
LEMMA ChunkProceeds ==
    ASSUME Core, NEW d \in Clients, NEW n \in Parts, NEW m \in Nat, NEW w \in WorkerType,
           m + w.copied <= Size(n), down[d].phase = "chunks", FileTypeOK', FilesBounded',
           data' # None,
           Fault \/ UNCHANGED faults, UNCHANGED <<current, pc, mine, crashes, panic>>,
           down' = [down EXCEPT ![d] = [down[d] EXCEPT
                        !.completed = [down[d].completed EXCEPT ![n] = m],
                        !.worker = [down[d].worker EXCEPT ![n] = w]]]
    PROVE  Core'
<1> DEFINE completed == [down[d].completed EXCEPT ![n] = m]
           worker == [down[d].worker EXCEPT ![n] = w]
           x == [down[d] EXCEPT !.completed = completed, !.worker = worker]
<1>a. down[d] \in DownloadType /\ RecordOK(down[d]) /\ current = d
  BY DEF Core, DownTypeOK, Entry, Progress
<1>1. /\ completed \in [Parts -> Nat] /\ worker \in [Parts -> WorkerType]
      /\ \A k \in Parts : completed[k] + worker[k].copied <= Size(k)
  BY <1>a DEF DownloadType, RecordOK
<1> HIDE DEF completed, worker
<1>2. x \in DownloadType /\ x.phase = "chunks"
  BY <1>a, <1>1 DEF DownloadType
<1>3. RecordOK(x)
  BY <1>a, <1>1 DEF RecordOK, DownloadType
<1>4. down' = [down EXCEPT ![d] = x]
  BY DEF completed, worker
<1> HIDE DEF x
<1> QED BY <1>a, <1>2, <1>3, <1>4, Proceeds

\* Its steps keep the core invariant.
LEMMA ChunkCore ==
    ASSUME Core, NEW d \in Clients, NEW n \in Parts, Chunk(d, n)
    PROVE  Core'
<1> DEFINE w == down[d].worker[n]
           m == down[d].completed[n]
<1>a. /\ DownTypeOK /\ FileTypeOK /\ FilesBounded /\ RecordOK(down[d]) /\ down[d] \in DownloadType
      /\ w \in WorkerType /\ m \in Nat /\ w.copied \in Nat
  BY DEF Core, DownTypeOK, DownloadType, WorkerType
<1>b. UNCHANGED files => FileTypeOK' /\ FilesBounded'
  BY <1>a DEF FileTypeOK, FilesBounded
<1>c. Size(n) \in Nat /\ m + w.copied <= Size(n) /\ m <= Size(n)
  <2>1. Size(n) \in Nat
    BY DownloadConstants DEF Parts
  <2>2. m + w.copied <= Size(n)
    BY <1>a DEF RecordOK
  <2> HIDE DEF m, w
  <2> QED BY <1>a, <2>1, <2>2
<1>d. w.st # "idle" => down[d].phase = "chunks"
  BY <1>a DEF RecordOK, NoDownload, Idle
<1>e. down[d].phase = "chunks" => data # None /\ data \in Contents
                                  /\ \A k \in Parts : data[k] \in [Units(k) -> {"no", "ok", "bad"}]
  BY DEF Core, Opened, Writing, FileTypeOK
\* The goroutine goes on as v, and nothing counts as complete.
<1>f. ASSUME NEW v \in WorkerType, v.copied <= w.copied, w.st # "idle",
             down' = [down EXCEPT ![d].worker[n] = v], FileTypeOK', FilesBounded', UNCHANGED data,
             Fault \/ UNCHANGED faults, UNCHANGED <<current, pc, mine, crashes, panic>>
      PROVE  Core'
  <2>1. down' = [down EXCEPT ![d] = [down[d] EXCEPT
                    !.completed = [down[d].completed EXCEPT ![n] = m],
                    !.worker = [down[d].worker EXCEPT ![n] = v]]]
    BY <1>a, <1>f DEF DownTypeOK, DownloadType
  <2>2. m + v.copied <= Size(n)
    BY <1>a, <1>c, <1>f DEF WorkerType
  <2> QED BY <1>a, <1>d, <1>e, <1>f, <2>1, <2>2, ChunkProceeds
<1>1. CASE Receive(d, n)
  <2> DEFINE u == m + w.copied
             v == [w EXCEPT !.copied = @ + 1]
  <2>1. /\ w.st = "copy" /\ u < Size(n) /\ u \in Units(n) /\ w.copied + 1 \in Nat
        /\ \/ data' = [data EXCEPT ![n][u] = "ok"] /\ UNCHANGED faults
           \/ data' = [data EXCEPT ![n][u] = "bad"] /\ Fault
        /\ down' = [down EXCEPT ![d].worker[n] = v]
        /\ UNCHANGED <<blob, partFile, current, pc, mine, crashes, panic>>
    BY <1>1, <1>a, <1>c DEF Receive, Units
  <2>2. v \in WorkerType /\ v.copied = w.copied + 1
    BY <1>a, <2>1 DEF WorkerType
  <2>3. m + v.copied <= Size(n)
    BY <1>a, <1>c, <2>1, <2>2
  <2>4. down' = [down EXCEPT ![d] = [down[d] EXCEPT
                    !.completed = [down[d].completed EXCEPT ![n] = m],
                    !.worker = [down[d].worker EXCEPT ![n] = v]]]
    BY <1>a, <2>1 DEF DownTypeOK, DownloadType
  <2>5. \A k \in Parts : data'[k] \in [Units(k) -> {"no", "ok", "bad"}]
    BY <1>d, <1>e, <2>1 DEF Contents
  <2>6. data' \in Contents
    BY <1>d, <1>e, <2>1, <2>5 DEF Contents
  <2>7. FileTypeOK' /\ FilesBounded' /\ data' # None
    BY <1>a, <2>1, <2>5, <2>6, DownloadMarks DEF FileTypeOK, FilesBounded
  <2> HIDE DEF v, u
  <2> QED BY <1>a, <1>d, <2>1, <2>2, <2>3, <2>4, <2>7, ChunkProceeds
<1>2. ASSUME NEW then \in {"done", "stopped", "copy", "retry"}, EndKept(d, n, then) PROVE Core'
  <2> DEFINE v == [w EXCEPT !.st = "save", !.copied = 0, !.then = then]
  <2>1. /\ w.st = "copy" /\ (Fault \/ UNCHANGED faults)
        /\ down' = [down EXCEPT ![d].completed[n] = @ + w.copied, ![d].worker[n] = v]
        /\ UNCHANGED <<files, current, pc, mine, crashes, panic>>
    BY <1>2 DEF EndKept
  <2>2. v \in WorkerType /\ v.copied = 0
    BY <1>a DEF WorkerType
  <2>3. m + w.copied \in Nat /\ (m + w.copied) + v.copied <= Size(n)
    BY <1>a, <1>c, <2>2
  <2>4. down' = [down EXCEPT ![d] = [down[d] EXCEPT
                    !.completed = [down[d].completed EXCEPT ![n] = m + w.copied],
                    !.worker = [down[d].worker EXCEPT ![n] = v]]]
    BY <1>a, <2>1 DEF DownTypeOK, DownloadType
  <2>5. FileTypeOK' /\ FilesBounded' /\ data' # None /\ down[d].phase = "chunks"
    BY <1>b, <1>d, <1>e, <2>1
  <2> HIDE DEF v
  <2> QED BY <2>1, <2>2, <2>3, <2>4, <2>5, ChunkProceeds
<1>3. CASE SavePart(d, n)
  <2>1. PICK f \in {m, partFile[n], Torn} : partFile' = [partFile EXCEPT ![n] = f]
    BY <1>3 DEF SavePart
  <2>2. /\ w.st = "save" /\ (Fault \/ UNCHANGED faults)
        /\ UNCHANGED <<blob, data, current, pc, mine, crashes, panic>>
    BY <1>3 DEF SavePart
  <2>3. FileTypeOK'
    BY <1>a, <2>1, <2>2 DEF FileTypeOK
  <2>4. FilesBounded'
    BY <1>a, <1>c, <2>1 DEF FilesBounded, FileTypeOK
  <2>5. \/ down' = [down EXCEPT ![d].worker[n] = Retry(w)]
        \/ \E st \in {w.then, "stopped", "copy", "failed"} \ {"retry"} :
                down' = [down EXCEPT ![d].worker[n] = [w EXCEPT !.st = st]]
    BY <1>3 DEF SavePart
  <2>6. \A st \in {w.then, "stopped", "copy", "failed"} \ {"retry"} :
            [w EXCEPT !.st = st] \in WorkerType /\ [w EXCEPT !.st = st].copied <= w.copied
    BY <1>a DEF WorkerType
  <2>7. Retry(w) \in WorkerType /\ Retry(w).copied <= w.copied
    BY <1>a, RetryTypes
  <2>8. PICK v \in WorkerType : v.copied <= w.copied /\ down' = [down EXCEPT ![d].worker[n] = v]
    <3> HIDE DEF w
    <3> QED BY <2>5, <2>6, <2>7
  <2> QED BY <1>f, <2>2, <2>3, <2>4, <2>8
<1>4. CASE EndLost(d, n)
  <2>1. /\ w.st = "copy" /\ Fault /\ UNCHANGED <<files, current, pc, mine, crashes, panic>>
        /\ \/ down' = [down EXCEPT ![d].worker[n] = Retry(w)]
           \/ down' = [down EXCEPT ![d].worker[n] = [w EXCEPT !.st = "failed"]]
    BY <1>4 DEF EndLost
  <2>2. [w EXCEPT !.st = "failed"] \in WorkerType /\ [w EXCEPT !.st = "failed"].copied <= w.copied
    BY <1>a DEF WorkerType
  <2>3. Retry(w) \in WorkerType /\ Retry(w).copied <= w.copied
    BY <1>a, RetryTypes
  <2>4. PICK v \in WorkerType : v.copied <= w.copied /\ down' = [down EXCEPT ![d].worker[n] = v]
    <3> HIDE DEF w
    <3> QED BY <2>1, <2>2, <2>3
  <2> QED BY <1>b, <1>f, <2>1, <2>4
<1> QED BY <1>1, <1>2, <1>3, <1>4 DEF Chunk

\* So does a crash, whatever is left of the files.
LEMMA CrashCore ==
    ASSUME Core, Crash
    PROVE  Core'
<1>a. FileTypeOK /\ FilesBounded /\ DownTypeOK
  BY DEF Core
<1>1. PICK keep \in NoPrune, torn \in SUBSET Saving :
        /\ partFile' = [n \in Parts |-> IF ~keep THEN None
                                        ELSE IF n \in torn THEN Torn ELSE partFile[n]]
        /\ data' = IF keep THEN data ELSE None
        /\ blob' = IF keep THEN blob ELSE None
  BY DEF Crash
<1>2. FileTypeOK' /\ FilesBounded'
  BY <1>a, <1>1 DEF FileTypeOK, FilesBounded
<1>3. /\ current' = None /\ down' = [d \in Clients |-> NoDownload]
      /\ pc' = [c \in Clients |-> "idle"] /\ mine' = [c \in Clients |-> None]
      /\ faults' = faults /\ crashes' \in 0 .. MaxCrashes /\ panic' = FALSE
  BY <1>a, DownloadConstants DEF Crash, DownTypeOK
<1>4. DownTypeOK'
  BY <1>a, <1>3, InitialTypes DEF DownTypeOK, Places
<1>5. \A d \in Clients : down'[d] = NoDownload /\ pc'[d] = "idle" /\ mine'[d] = None /\ d # None
  BY <1>3, DownloadMarks
<1>6. \A d \in Clients : RecordOK(down[d])'
  BY <1>5, InitialTypes DEF RecordOK
<1>7. \A d \in Clients : Entry(d)' /\ Opened(d)' /\ Place(d)'
  BY <1>3, <1>5, InitialTypes, DownloadMarks DEF Entry, Opened, Place, Writing, Progress, Setup
<1> QED BY <1>2, <1>4, <1>6, <1>7 DEF Core

\* Initially nobody downloads anything.
LEMMA InitCore == Init => Core
<1> SUFFICES ASSUME Init PROVE Core
  OBVIOUS
<1>1. FileTypeOK /\ FilesBounded
  BY DEF Init, FileTypeOK, FilesBounded
<1>2. DownTypeOK
  <2>1. faults \in 0 .. MaxFaults /\ crashes \in 0 .. MaxCrashes
    BY DownloadConstants DEF Init
  <2>2. panic \in BOOLEAN
    BY DEF Init
  <2> QED BY <2>1, <2>2, InitialTypes DEF Init, DownTypeOK, Places
<1>3. \A d \in Clients : down[d] = NoDownload /\ pc[d] = "idle" /\ mine[d] = None /\ d # None
  BY DownloadMarks DEF Init
<1>4. \A d \in Clients : RecordOK(down[d]) /\ Entry(d) /\ Opened(d) /\ Place(d)
  BY <1>3, InitialTypes, DownloadMarks DEF Init, Entry, Opened, Place, Writing, Progress, Setup
<1> QED BY <1>1, <1>2, <1>4 DEF Core

\* Core is inductive.
LEMMA NextCore == Core /\ [Next]_vars => Core'
<1> SUFFICES ASSUME Core, [Next]_vars PROVE Core'
  OBVIOUS
<1>1. CASE UNCHANGED vars
  BY <1>1 DEF vars, Core, FileTypeOK, FilesBounded, DownTypeOK, RecordOK, Entry, Opened, Place
<1>2. CASE Next
  BY <1>2, ClientCore, RunCore, ChunkCore, CrashCore DEF Next
<1> QED BY <1>1, <1>2

\* The core invariant holds.
THEOREM CoreHolds == Spec => []Core
BY InitCore, NextCore, PTL DEF Spec

\* At most one download works on the files of the blob, however many pulls join,
\* leave and start over: run keeps its entry in the map until its goroutines have
\* ended (downloadBlob, run).
THEOREM OneWriter == Spec => []SingleWriter
<1>1. Core => SingleWriter
  BY DEF Core, SingleWriter, Active, Entry, Progress
<1> QED BY <1>1, CoreHolds, PTL

-----------------------------------------------------------------------------
(* References and the cancel function *)

\* The pulls inside Wait.
Inside(d) == {c \in Clients : pc[c] \in {"wait", "stuck"} /\ mine[c] = d}

\* Those in Wait are finitely many.
LEMMA InsideFinite ==
    ASSUME NEW d
    PROVE  IsFiniteSet(Inside(d)) /\ Cardinality(Inside(d)) \in 0 .. Cardinality(Clients)
<1>1. IsFiniteSet(Clients) /\ Inside(d) \subseteq Clients
  BY DownloadConstants DEF Inside
<1> QED BY <1>1, FS_Subset, FS_CardinalityType

\* A step that neither counts nor moves anyone in or out of Wait.
LEMMA CountKept ==
    ASSUME ReferencesExact,
           \A d \in Clients : down'[d].references = down[d].references /\ Inside(d)' = Inside(d)
    PROVE  ReferencesExact'
BY DEF ReferencesExact, Inside

\* acquire counts a pull in.
LEMMA CountIn ==
    ASSUME Core, ReferencesExact, NEW c \in Clients, acquire(c)
    PROVE  ReferencesExact'
<1>a. PICK m \in Clients : DownTypeOK /\ mine[c] = m /\ pc[c] = "join"
  BY DEF Core, acquire, Place
<1>1. /\ Inside(m)' = Inside(m) \cup {c} /\ c \notin Inside(m)
      /\ \A d \in Clients \ {m} : Inside(d)' = Inside(d)
  BY <1>a DEF acquire, Inside, DownTypeOK
<1>2. Cardinality(Inside(m) \cup {c}) = Cardinality(Inside(m)) + 1
  BY <1>1, InsideFinite, FS_AddElement
<1>3. /\ down'[m].references = down[m].references + 1
      /\ \A d \in Clients \ {m} : down'[d] = down[d]
  BY <1>a DEF acquire, DownTypeOK, DownloadType
<1>4. ReferencesExact <=> \A d \in Clients : down[d].references = Cardinality(Inside(d))
  BY DEF ReferencesExact, Inside
<1>5. ReferencesExact' <=> \A d \in Clients : down'[d].references = Cardinality(Inside(d)')
  BY DEF ReferencesExact, Inside
<1>6. ASSUME NEW d \in Clients PROVE down'[d].references = Cardinality(Inside(d)')
  <2>1. CASE d = m
    BY <2>1, <1>1, <1>2, <1>3, <1>4
  <2>2. CASE d # m
    BY <2>2, <1>1, <1>3, <1>4
  <2> QED BY <2>1, <2>2
<1> QED BY <1>5, <1>6

\* release counts it out.
LEMMA CountOut ==
    ASSUME Core, ReferencesExact, NEW c \in Clients, WaitDone(c) \/ WaitLeave(c)
    PROVE  ReferencesExact'
<1>a. PICK m \in Clients : DownTypeOK /\ mine[c] = m /\ pc[c] = "wait"
  BY DEF Core, WaitDone, WaitLeave, Place
<1>1. /\ Inside(m)' = Inside(m) \ {c} /\ c \in Inside(m)
      /\ \A d \in Clients \ {m} : Inside(d)' = Inside(d)
  BY <1>a DEF WaitDone, WaitLeave, Inside, DownTypeOK
<1>2. Cardinality(Inside(m) \ {c}) = Cardinality(Inside(m)) - 1
  BY <1>1, InsideFinite, FS_RemoveElement
<1>3. /\ down'[m].references = down[m].references - 1
      /\ \A d \in Clients \ {m} : down'[d] = down[d]
  BY <1>a DEF WaitDone, WaitLeave, release, DownTypeOK, DownloadType
<1>4. ReferencesExact <=> \A d \in Clients : down[d].references = Cardinality(Inside(d))
  BY DEF ReferencesExact, Inside
<1>5. ReferencesExact' <=> \A d \in Clients : down'[d].references = Cardinality(Inside(d)')
  BY DEF ReferencesExact, Inside
<1>6. ASSUME NEW d \in Clients PROVE down'[d].references = Cardinality(Inside(d)')
  <2>1. CASE d = m
    BY <2>1, <1>1, <1>2, <1>3, <1>4
  <2>2. CASE d # m
    BY <2>2, <1>1, <1>3, <1>4
  <2> QED BY <2>1, <2>2
<1> QED BY <1>5, <1>6

\* The other steps of a client.
LEMMA ClientCounts ==
    ASSUME Core, ReferencesExact, NEW c \in Clients, Client(c) \/ WaitReport(c),
           ~acquire(c), ~WaitDone(c)
    PROVE  ReferencesExact'
<1>a. DownTypeOK /\ \A d \in Clients : Place(d)
  BY DEF Core
<1>1. CASE Stat(c) \/ WaitReport(c) \/ Verify(c)
  <2>1. \A d \in Clients : Inside(d)' = Inside(d)
    BY <1>1, <1>a DEF Stat, WaitReport, Verify, Inside, DownTypeOK
  <2> QED BY <1>1, <2>1, CountKept DEF Stat, WaitReport, Verify
<1>2. CASE Lookup(c)
  <2>1. \A d \in Clients : Inside(d)' = Inside(d)
    BY <1>2, <1>a DEF Lookup, Inside, DownTypeOK
  <2>2. down[c].references = 0
    <3>1. Inside(c) = {}
      BY <1>2, <1>a DEF Lookup, Inside, Place
    <3> QED BY <3>1, FS_EmptySet DEF ReferencesExact, Inside
  <2>3. \A d \in Clients : down'[d].references = down[d].references
    BY <1>2, <1>a, <2>2 DEF Lookup, DownTypeOK, NoDownload
  <2> QED BY <2>1, <2>3, CountKept
<1>3. CASE PrepareResume(c) \/ PrepareNew(c) \/ Spawn(c)
  <2>1. \A d \in Clients : Inside(d)' = Inside(d)
    BY <1>3, <1>a DEF PrepareResume, PrepareNew, Spawn, Inside, DownTypeOK
  <2>2. \A d \in Clients : down'[d].references = down[d].references
    <3>1. CASE PrepareResume(c)
      BY <3>1, <1>a DEF PrepareResume, DownTypeOK, DownloadType
    <3>2. CASE PrepareNew(c)
      <4> DEFINE n == Cardinality(down[c].parts)
                 phase == IF n + 1 = NumParts THEN "prepared" ELSE "parts"
      <4>1. down' = [down EXCEPT ![c].parts = @ \cup {n}, ![c].phase = phase]
        BY <3>2 DEF PrepareNew
      <4> HIDE DEF n, phase
      <4> QED BY <4>1, <1>a DEF DownTypeOK, DownloadType
    <3>3. CASE Spawn(c)
      BY <3>3, <1>a DEF Spawn, DownTypeOK, DownloadType
    <3> QED BY <1>3, <3>1, <3>2, <3>3
  <2> QED BY <2>1, <2>2, CountKept
<1>4. CASE PrepareFail(c)
  <2>1. \A d \in Clients : Inside(d)' = Inside(d)
    BY <1>4, <1>a DEF WritesParts, PrepareFail, Inside, DownTypeOK
  <2>2. \A d \in Clients : down'[d].references = down[d].references
    BY <1>4, <1>a, EndedTypes DEF PrepareFail, DownTypeOK
  <2> QED BY <2>1, <2>2, CountKept
<1> QED BY <1>1, <1>2, <1>3, <1>4 DEF Client

\* The steps of run and of its goroutines.
LEMMA RunCounts ==
    ASSUME Core, ReferencesExact, NEW d \in Clients,
           Run(d) \/ \E n \in Parts : Chunk(d, n)
    PROVE  ReferencesExact'
<1>a. DownTypeOK
  BY DEF Core
<1>1. UNCHANGED <<pc, mine>>
  BY DEF Run, RunOpen, RunURL, RunURLFail, RunChunksDone, RunRemovePart, RunRename, RunFileFail,
         RunDelete, RunClose, Chunk, Receive, SavePart, EndLost, EndKept
<1>2. \A e \in Clients : down'[e].references = down[e].references
  <2>a. CASE RunOpen(d)
    BY <2>a, <1>a DEF RunOpen, DownTypeOK, DownloadType
  <2>b. CASE RunClose(d)
    BY <2>b, <1>a DEF RunClose, DownTypeOK, DownloadType
  <2>1. CASE RunRename(d)
    BY <2>1, <1>a DEF RunRename, DownTypeOK, DownloadType
  <2>2. CASE RunURL(d)
    BY <2>2, <1>a DEF RunURL, DownTypeOK, DownloadType
  <2>3. CASE RunChunksDone(d)
    BY <2>3, <1>a DEF RunChunksDone, DownTypeOK, DownloadType
  <2>c. CASE RunURLFail(d)
    BY <2>c, <1>a DEF RunURLFail, Fail, DownTypeOK, DownloadType
  <2>4. CASE RunRemovePart(d)
    <3>1. CASE down' = Fail(d)
      BY <3>1, <1>a DEF Fail, DownTypeOK, DownloadType
    <3>2. ASSUME NEW i, down' = [down EXCEPT ![d].removed = i]
          PROVE  \A e \in Clients : down'[e].references = down[e].references
      BY <3>2, <1>a DEF DownTypeOK, DownloadType
    <3> QED BY <2>4, <3>1, <3>2 DEF RunRemovePart
  <2>5. CASE RunFileFail(d)
    BY <2>5, <1>a DEF RunFileFail, Fail, DownTypeOK, DownloadType
  <2>6. CASE RunDelete(d)
    BY <2>6, <1>a, EndedTypes DEF RunDelete, DownTypeOK
  <2>7. ASSUME NEW n \in Parts, Chunk(d, n) PROVE \A e \in Clients : down'[e].references = down[e].references
    <3>1. CASE Receive(d, n)
      BY <3>1, <1>a DEF Receive, DownTypeOK, DownloadType
    <3>2. CASE SavePart(d, n) \/ EndLost(d, n)
      <4>1. \/ \E v : down' = [down EXCEPT ![d].worker[n] = v]
            \/ \E st : down' = [down EXCEPT ![d].worker[n].st = st]
        BY <3>2 DEF SavePart, EndLost
      <4>2. PICK x : down' = [down EXCEPT ![d].worker = x]
        BY <4>1
      <4> QED BY <4>2, <1>a DEF DownTypeOK, DownloadType
    <3>4. ASSUME NEW then, EndKept(d, n, then) PROVE \A e \in Clients : down'[e].references = down[e].references
      BY <3>4, <1>a DEF EndKept, DownTypeOK, DownloadType
    <3> QED BY <2>7, <3>1, <3>2, <3>4 DEF Chunk
  <2> QED BY <2>a, <2>b, <2>c, <2>1, <2>2, <2>3, <2>4, <2>5, <2>6, <2>7 DEF Run
<1> QED BY <1>1, <1>2, CountKept DEF Inside

\* The count of references stays exact in every step.
LEMMA NextCounts == Core /\ ReferencesExact /\ [Next]_vars => ReferencesExact'
<1> SUFFICES ASSUME Core, ReferencesExact, [Next]_vars PROVE ReferencesExact'
  OBVIOUS
<1>1. CASE UNCHANGED vars
  BY <1>1 DEF vars, ReferencesExact
<1>2. CASE Crash
  <2>1. \A d \in Clients : Inside(d)' = {} /\ down'[d].references = 0
    BY <1>2, DownloadMarks DEF Crash, Inside, NoDownload
  <2> QED BY <2>1, FS_EmptySet DEF ReferencesExact, Inside
<1>3. CASE Next /\ ~Crash
  BY <1>3, CountIn, CountOut, ClientCounts, RunCounts DEF Next
<1> QED BY <1>1, <1>2, <1>3

\* The references of a download are the pulls inside Wait, whatever joins, leaves,
\* fails and crashes: the last one to leave, and nobody else, cancels it (acquire,
\* release).
THEOREM ReferencesCount == Spec => []ReferencesExact
<1>1. Init => ReferencesExact
  <2> SUFFICES ASSUME Init PROVE ReferencesExact
    OBVIOUS
  <2>1. \A d \in Clients : Inside(d) = {} /\ down[d].references = 0
    BY DEF Init, Inside, NoDownload
  <2> QED BY <2>1, FS_EmptySet DEF ReferencesExact, Inside
<1> QED BY <1>1, NextCounts, CoreHolds, PTL DEF Spec

\* Every variable has its type, and nothing is counted beyond what there is: no
\* part has more units than it holds, no download more references than clients.
THEOREM TypeCorrect == Spec => []TypeOK
<1>1. Core /\ ReferencesExact => TypeOK
  <2> SUFFICES ASSUME Core, ReferencesExact PROVE TypeOK
    OBVIOUS
  <2>1. \A d \in Clients : down[d].references \in 0 .. Cardinality(Clients)
    BY InsideFinite DEF ReferencesExact, Inside
  <2>2. \A d \in Clients, n \in Parts : down[d].completed[n] + down[d].worker[n].copied \in 0 .. Size(n)
    <3> SUFFICES ASSUME NEW d \in Clients, NEW n \in Parts
                 PROVE  down[d].completed[n] + down[d].worker[n].copied \in 0 .. Size(n)
      OBVIOUS
    <3>a. down[d] \in DownloadType
      BY DEF Core, DownTypeOK
    <3>b. down[d].completed[n] \in Nat /\ down[d].worker[n] \in WorkerType
      BY <3>a DEF DownloadType
    <3>c. down[d].worker[n].copied \in Nat
      BY <3>b DEF WorkerType
    <3>d. Size(n) \in Nat
      BY DownloadConstants DEF Parts
    <3>1. down[d].completed[n] \in Nat /\ down[d].worker[n].copied \in Nat /\ Size(n) \in Nat
      BY <3>b, <3>c, <3>d
    <3>2. down[d].completed[n] + down[d].worker[n].copied <= Size(n)
      BY DEF Core, RecordOK
    <3> QED BY <3>1, <3>2
  <2>3. \A d \in Clients : down[d].removed \in 0 .. NumParts
    BY DownloadConstants DEF Core, DownTypeOK, DownloadType, RecordOK
  <2> QED BY <2>1, <2>2, <2>3 DEF Core, TypeOK, Bounded, FilesBounded
<1> QED BY <1>1, CoreHolds, ReferencesCount, PTL

\* A process that has panicked does nothing any more, until it is started again.
LEMMA PanicIsLast ==
    ASSUME Core, CancelSetByRun, [Next]_vars
    PROVE  CancelSetByRun'
<1>a. \A d \in Clients : RecordOK(down[d]) /\ Place(d)
  BY DEF Core
<1>b. CASE UNCHANGED vars
  BY <1>b DEF vars, CancelSetByRun
<1>1. CASE Crash
  BY <1>1 DEF Crash, CancelSetByRun
<1>2. ASSUME NEW c \in Clients, WaitDone(c) \/ WaitLeave(c) PROVE CancelSetByRun'
  <2>1. PICK d \in Clients : d = mine[c] /\ down[d].phase # "none"
    BY <1>2, <1>a DEF WaitDone, WaitLeave, Place
  <2>2. SUFFICES ASSUME panic' PROVE CancelSetByRun'
    BY DEF CancelSetByRun
  <2>3. /\ down[d].references = 1 /\ down[d].cancel = "nil" /\ down[d] \in DownloadType
        /\ down' = [down EXCEPT ![d].references = @ - 1, ![d].cancel = "nil"]
        /\ down \in [Clients -> DownloadType]
    BY <1>2, <2>1, <2>2 DEF WaitDone, WaitLeave, release, Core, DownTypeOK
  <2>4. down[d].phase \in Early \ {"none"}
    BY <1>a, <2>1, <2>3 DEF RecordOK
  <2>5. down'[d].cancel = "nil" /\ down'[d].references = 0 /\ down'[d].phase = down[d].phase
    BY <2>3 DEF DownloadType
  <2> QED BY <2>4, <2>5 DEF CancelSetByRun, Early, Setup
<1>3. CASE ~panic /\ ~panic'
  BY <1>3 DEF CancelSetByRun
<1>4. ASSUME NEW c \in Clients, (Client(c) /\ ~WaitDone(c)) \/ WaitReport(c) PROVE ~panic /\ ~panic'
  BY <1>4 DEF Client, WaitReport, Stat, Lookup, PrepareResume, PrepareNew, PrepareFail, Spawn, acquire,
              Verify, Live
<1>5. ASSUME NEW d \in Clients, Run(d) PROVE ~panic /\ ~panic'
  BY <1>5 DEF Run, RunOpen, RunURL, RunURLFail, RunChunksDone, RunRemovePart, RunRename, RunFileFail,
              RunDelete, RunClose, Live
<1>6. ASSUME NEW d \in Clients, NEW n \in Parts, Chunk(d, n) PROVE ~panic /\ ~panic'
  <2>1. Live /\ UNCHANGED panic
    BY <1>6 DEF Chunk, Receive, SavePart, EndLost, EndKept
  <2> QED BY <2>1 DEF Live
<1> QED BY <1>b, <1>1, <1>2, <1>3, <1>4, <1>5, <1>6 DEF Next

\* CancelFunc is called before it is set only by the last pull to leave a download
\* whose run has not begun: once run has begun, or has ended, leaving is safe
\* (release, run).
THEOREM CancelIsSet == Spec => []CancelSetByRun
<1>1. Init => CancelSetByRun
  BY DEF Init, CancelSetByRun
<1> QED BY <1>1, PanicIsLast, CoreHolds, PTL DEF Spec

-----------------------------------------------------------------------------
(* The downloads implement one shared transfer *)

\* What a download shows of itself, and what a client has been told.
Shows(d) ==
    /\ down[d].phase = "failed" => Outcome(d) = "err"
    /\ down[d].phase \in {"deleted", "end"} => Outcome(d) = IF down[d].err THEN "err" ELSE "ok"
    /\ down[d].phase \notin {"failed", "deleted", "end"} => Outcome(d) = None
Told(c) ==
    /\ pc[c] = "ok" /\ mine[c] = None => Result(c) = "hit"
    /\ pc[c] = "ok" /\ mine[c] # None => Result(c) = "ok"
    /\ pc[c] \in {"verify", "bad"} => Result(c) = "ok"
    /\ pc[c] \in {"gone", "stuck"} => Result(c) = "gone"
    /\ pc[c] = "err" => Result(c) = "err"
    /\ pc[c] \in {"idle", "lookup", "prepare", "join", "wait"} => Result(c) = None

\* What the outcome of a download is, in this state and the next.
LEMMA OutcomeIs ==
    ASSUME NEW d \in Clients
    PROVE  Shows(d) /\ Shows(d)'
<1>1. Shows(d)
  BY DEF Outcome, Shows
<1>2. Shows(d)'
  BY DEF Outcome, Shows
<1> QED BY <1>1, <1>2

\* What a client was told, in this state and the next.
LEMMA ResultIs ==
    ASSUME NEW c \in Clients
    PROVE  Told(c) /\ Told(c)'
<1>1. Told(c)
  BY DEF Result, Told
<1>2. Told(c)'
  BY DEF Result, Told
<1> QED BY <1>1, <1>2

\* The outcome of a download is seen in its phase and err only; what a client
\* was told, in its place and its download.
LEMMA OutcomeKept ==
    ASSUME NEW d \in Clients, down'[d].phase = down[d].phase, down'[d].err = down[d].err
    PROVE  Outcome(d)' = Outcome(d)
BY DEF Outcome

\* A client that stays in its place with its download was told the same.
LEMMA ResultKept ==
    ASSUME NEW c \in Clients, pc'[c] = pc[c], mine'[c] = mine[c]
    PROVE  Result(c)' = Result(c)
BY DEF Result

\* A step that is not seen from outside.
LEMMA Unseen ==
    ASSUME UNCHANGED <<current, mine>>, \A d \in Clients : UNCHANGED <<Outcome(d), Result(d)>>
    PROVE  UNCHANGED Shared!tvars
BY DEF Shared!tvars

\* The steps of a download in progress are not seen.
LEMMA UnseenProgress ==
    ASSUME Core, Core', NEW d \in Clients, down[d].phase \in Progress,
           UNCHANGED <<current, mine>>, \A e \in Clients \ {d} : down'[e] = down[e],
           \A c \in Clients : UNCHANGED Result(c)
    PROVE  UNCHANGED Shared!tvars
<1>1. down[d].phase \in Progress /\ down'[d].phase \in Progress
  BY DEF Core, Entry
<1>2. Outcome(d)' = Outcome(d)
  BY <1>1, OutcomeIs DEF Shows, Progress, Setup
<1>3. \A e \in Clients \ {d} : Outcome(e)' = Outcome(e)
  BY OutcomeKept
<1> QED BY <1>2, <1>3, Unseen

\* Every step of a client is a step of the shared transfer, or is not seen.
LEMMA ClientShared ==
    ASSUME Core, Core', NEW c \in Clients, Client(c) \/ WaitLeave(c) \/ WaitReport(c)
    PROVE  [Shared!Next]_(Shared!tvars)
<1>a. DownTypeOK /\ \A d \in Clients : Entry(d) /\ Place(d) /\ RecordOK(down[d])
  BY DEF Core
<1>b. \A e \in Clients : e # None
  BY DownloadMarks
<1>c. UNCHANGED down => \A d \in Clients : UNCHANGED Outcome(d)
  BY OutcomeKept
<1>1. CASE Stat(c)
  <2>1. UNCHANGED <<current, mine, down>> /\ mine[c] = None /\ Result(c) = None
    BY <1>1, <1>a, ResultIs DEF Stat, Place, Told
  <2>2. \A e \in Clients \ {c} : Result(e)' = Result(e)
    BY <1>1, <1>a, ResultKept DEF Stat, DownTypeOK
  <2>3. Result(c)' \in {"hit", None}
    BY <1>1, <1>a, <2>1, ResultIs DEF Stat, Told, DownTypeOK
  <2>4. CASE Result(c)' = "hit"
    BY <1>c, <2>1, <2>2, <2>4 DEF Shared!Next, Shared!Hit, Shared!New
  <2>5. CASE Result(c)' = None
    BY <1>c, <2>1, <2>2, <2>5, Unseen
  <2> QED BY <2>3, <2>4, <2>5
<1>2. CASE Lookup(c)
  <2>1. mine[c] = None /\ Result(c) = None /\ Result(c)' = None
    BY <1>2, <1>a, ResultIs DEF Lookup, Place, Told, DownTypeOK
  <2>2. \A e \in Clients : Result(e)' = Result(e)
    BY <1>2, <1>a, <2>1, ResultKept DEF Lookup, DownTypeOK
  <2>3. CASE current # None
    BY <1>2, <1>c, <2>1, <2>2, <2>3 DEF Lookup, Shared!Next, Shared!Join, Shared!New
  <2>4. CASE current = None
    <3>1. down[c].phase = "none" /\ down'[c].phase = "prepare" /\ \A e \in Clients \ {c} : down'[e] = down[e]
      BY <1>2, <1>a, <2>4 DEF Lookup, Place, DownTypeOK, NoDownload
    <3>2. \A e \in Clients : Outcome(e)' = Outcome(e)
      BY <3>1, OutcomeIs, OutcomeKept DEF Shows
    <3> QED BY <1>2, <2>1, <2>2, <2>4, <3>2 DEF Lookup, Shared!Next, Shared!Start, Shared!New
  <2> QED BY <2>3, <2>4
<1>3. CASE PrepareResume(c) \/ PrepareNew(c) \/ Spawn(c)
  <2>1. /\ UNCHANGED <<current, mine>> /\ pc[c] = "prepare"
        /\ \A e \in Clients \ {c} : down'[e] = down[e] /\ pc'[e] = pc[e]
        /\ pc'[c] \in {"prepare", "join"}
    BY <1>3, <1>a DEF WritesParts, PrepareResume, PrepareNew, Spawn, DownTypeOK
  <2>2. down[c].phase \in Progress
    BY <1>a, <2>1 DEF Place, Progress
  <2>3. \A e \in Clients : Result(e)' = Result(e)
    BY <2>1, ResultIs, ResultKept DEF Told
  <2> QED BY <2>1, <2>2, <2>3, UnseenProgress
<1>4. CASE PrepareFail(c)
  <2>1. /\ down[c].phase \in {"prepare", "parts"} /\ current' = None /\ UNCHANGED mine
        /\ pc[c] = "prepare" /\ pc'[c] = "err" /\ \A e \in Clients \ {c} : pc'[e] = pc[e]
        /\ down' = [down EXCEPT ![c] = Ended(c, "failed")]
    BY <1>4, <1>a DEF WritesParts, PrepareFail, DownTypeOK
  <2>2. down'[c].phase = "failed" /\ \A e \in Clients \ {c} : down'[e] = down[e]
    BY <1>a, <2>1, EndedTypes DEF DownTypeOK
  <2>3. current = c /\ mine[c] = c /\ mine[c] # None
    BY <1>a, <1>b, <2>1 DEF Entry, Place, Progress, Setup
  <2>4. Outcome(c)' = "err" /\ \A e \in Clients \ {c} : Outcome(e)' = Outcome(e)
    BY <2>2, OutcomeIs, OutcomeKept DEF Shows
  <2>5. Result(c) = None /\ Result(c)' = "err" /\ \A e \in Clients \ {c} : Result(e)' = Result(e)
    BY <2>1, ResultIs, ResultKept DEF Told
  <2> QED BY <2>1, <2>3, <2>4, <2>5 DEF Shared!Next, Shared!Abort, Shared!Waiting
<1>5. CASE acquire(c)
  <2>1. \A e \in Clients : Outcome(e)' = Outcome(e)
    BY <1>5, <1>a, OutcomeKept DEF acquire, DownTypeOK, DownloadType
  <2>2. \A e \in Clients : Result(e)' = Result(e)
    BY <1>5, <1>a, ResultIs, ResultKept DEF acquire, Told, DownTypeOK
  <2> QED BY <1>5, <2>1, <2>2, Unseen DEF acquire
<1>6. CASE WaitDone(c) \/ WaitLeave(c) \/ WaitReport(c)
  <2>1. PICK d \in Clients : d = mine[c]
    BY <1>6, <1>a DEF WaitDone, WaitLeave, WaitReport, Place
  <2>2. UNCHANGED <<current, mine>> /\ pc[c] = "wait" /\ \A e \in Clients \ {c} : pc'[e] = pc[e]
    BY <1>6, <1>a DEF WaitDone, WaitLeave, WaitReport, DownTypeOK
  <2>3. \A e \in Clients : Outcome(e)' = Outcome(e)
    <3>1. \A e \in Clients : down'[e].phase = down[e].phase /\ down'[e].err = down[e].err
      BY <1>6, <1>a DEF WaitDone, WaitLeave, WaitReport, release, DownTypeOK, DownloadType
    <3> QED BY <3>1, OutcomeKept
  <2>4. Result(c) = None /\ \A e \in Clients \ {c} : Result(e)' = Result(e)
    BY <2>2, ResultIs, ResultKept DEF Told
  <2>5. CASE WaitLeave(c) \/ WaitReport(c)
    <3>1. Result(c)' = "gone"
      BY <1>a, <2>5, ResultIs DEF WaitLeave, WaitReport, DownTypeOK, Told
    <3> QED BY <1>b, <2>1, <2>2, <2>3, <2>4, <3>1 DEF Shared!Next, Shared!Leave, Shared!Waiting
  <2>6. CASE WaitDone(c)
    <3>1. down[d].phase = "end" /\ pc'[c] = IF down[d].err THEN "err" ELSE "verify"
      BY <1>a, <2>1, <2>6 DEF WaitDone, RecordOK, DownTypeOK
    <3>2. Result(c)' = Outcome(d) /\ Outcome(d) # None
      BY <3>1, OutcomeIs, ResultIs, DownloadMarks DEF Shows, Told, Outcomes
    <3> QED BY <1>b, <2>1, <2>2, <2>3, <2>4, <3>2 DEF Shared!Next, Shared!Return, Shared!Waiting
  <2> QED BY <1>6, <2>5, <2>6
<1>7. CASE Verify(c)
  <2>1. mine[c] # None /\ UNCHANGED <<current, mine, down>>
    BY <1>7, <1>a, <1>b DEF Verify, Place
  <2>2. \A e \in Clients : Result(e)' = Result(e)
    BY <1>7, <1>a, <2>1, ResultIs, ResultKept DEF Verify, Told, DownTypeOK
  <2> QED BY <1>c, <2>1, <2>2, Unseen
<1> QED BY <1>1, <1>2, <1>3, <1>4, <1>5, <1>6, <1>7 DEF Client

\* So is every step of run and of its goroutines.
LEMMA RunShared ==
    ASSUME Core, Core', NEW d \in Clients, Run(d) \/ \E n \in Parts : Chunk(d, n)
    PROVE  [Shared!Next]_(Shared!tvars)
<1>a. DownTypeOK /\ Entry(d) /\ RecordOK(down[d]) /\ down[d] \in DownloadType
  BY DEF Core, DownTypeOK
<1>b. UNCHANGED <<pc, mine>>
  BY DEF Run, RunOpen, RunURL, RunURLFail, RunChunksDone, RunRemovePart, RunRename, RunFileFail,
         RunDelete, RunClose, Chunk, Receive, SavePart, EndLost, EndKept
<1>c. \A c \in Clients : Result(c)' = Result(c)
  BY <1>b, ResultKept
<1>1. CASE RunDelete(d)
  <2>1. /\ current = d /\ current' = None /\ d # None
        /\ down' = [down EXCEPT ![d] = Ended(d, "deleted")]
    BY <1>1, <1>a, DownloadMarks DEF RunDelete, Entry, Progress
  <2>2. down'[d].phase = "deleted" /\ \A e \in Clients \ {d} : down'[e] = down[e]
    BY <1>a, <2>1, EndedTypes DEF DownTypeOK
  <2>3. Outcome(d)' \in {"ok", "err"} /\ \A e \in Clients \ {d} : Outcome(e)' = Outcome(e)
    BY <2>2, OutcomeIs, OutcomeKept DEF Shows
  <2> QED BY <1>b, <1>c, <2>1, <2>3 DEF Shared!Next, Shared!Finish
<1>2. CASE RunClose(d)
  <2>1. /\ down[d].phase = "deleted" /\ down'[d].phase = "end" /\ down'[d].err = down[d].err
        /\ \A e \in Clients \ {d} : down'[e] = down[e] /\ UNCHANGED current
    BY <1>2, <1>a DEF RunClose, DownTypeOK, DownloadType
  <2>2. \A e \in Clients : Outcome(e)' = Outcome(e)
    BY <2>1, OutcomeIs, OutcomeKept DEF Shows
  <2> QED BY <1>2, <1>b, <1>c, <2>2, Unseen DEF RunClose
<1>3. CASE Run(d) /\ ~RunDelete(d) /\ ~RunClose(d)
  <2>1. /\ UNCHANGED current /\ \A e \in Clients \ {d} : down'[e] = down[e]
        /\ down[d].phase \in Progress
    BY <1>3, <1>a DEF Run, RunOpen, RunURL, RunURLFail, RunChunksDone, RunRemovePart, RunRename,
                      RunFileFail, Fail, DownTypeOK, Progress
  <2> QED BY <1>b, <1>c, <2>1, UnseenProgress
<1>4. ASSUME NEW n \in Parts, Chunk(d, n) PROVE [Shared!Next]_(Shared!tvars)
  <2>1. down[d].worker[n].st # "idle"
    BY <1>4 DEF Chunk, Receive, SavePart, EndLost, EndKept
  <2>2. down[d].phase \in Progress
    BY <1>a, <2>1 DEF RecordOK, NoDownload, Idle, Progress
  <2>3. UNCHANGED current /\ \A e \in Clients \ {d} : down'[e] = down[e]
    BY <1>4, <1>a DEF Chunk, Receive, SavePart, EndLost, EndKept, DownTypeOK
  <2> QED BY <1>b, <1>c, <2>2, <2>3, UnseenProgress
<1> QED BY <1>1, <1>2, <1>3, <1>4

\* The downloads of a blob implement one shared transfer: nobody starts a second
\* one beside it, and everybody who stays is told the outcome of the one he joined,
\* although the entry of the map, err and the done channel change at different
\* times, and clients leave, downloads fail and the server crashes in between
\* (downloadBlob, Prepare, Wait, run, Run).
THEOREM SharedTransferRefinement == Spec => ImplementsSharedTransfer
<1>1. Init => Shared!Init
  <2> SUFFICES ASSUME Init PROVE Shared!Init
    OBVIOUS
  <2>1. \A d \in Clients : Outcome(d) = None /\ Result(d) = None
    BY OutcomeIs, ResultIs DEF Init, Shows, Told, NoDownload
  <2> QED BY <2>1 DEF Init, Shared!Init, Shared!Nothing
<1>2. Core /\ Core' /\ [Next]_vars => [Shared!Next]_(Shared!tvars)
  <2> SUFFICES ASSUME Core, Core', [Next]_vars PROVE [Shared!Next]_(Shared!tvars)
    OBVIOUS
  <2>1. CASE UNCHANGED vars
    BY <2>1, OutcomeKept, ResultKept, Unseen DEF vars
  <2>2. CASE Crash
    <3>1. \A d \in Clients : down'[d] = NoDownload /\ pc'[d] = "idle"
      BY <2>2 DEF Crash
    <3>2. \A d \in Clients : Outcome(d)' = None /\ Result(d)' = None
      BY <3>1, OutcomeIs, ResultIs DEF Shows, Told, NoDownload
    <3> QED BY <2>2, <3>2 DEF Crash, Shared!Next, Shared!Restart, Shared!Nothing
  <2>3. CASE Next /\ ~Crash
    BY <2>3, ClientShared, RunShared DEF Next
  <2> QED BY <2>1, <2>2, <2>3
<1> QED BY <1>1, <1>2, CoreHolds, PTL DEF Spec, ImplementsSharedTransfer, Shared!Spec

-----------------------------------------------------------------------------
(* The invariant of the files *)

\* The first m units of a part are in the partial file.
Truth(n, m) == \A u \in 0 .. m - 1 : data # None /\ data[n][u] # "no"

\* A set of parts without a gap.
Prefix(S) == \A n \in S : \A k \in 0 .. n - 1 : k \in S

\* Part files without a gap can be resumed from.
Resumable == Prefix(Known) => \A n \in Known : partFile[n] # Torn => Truth(n, partFile[n])

\* While Prepare makes the part files, these are the ones there are, and they
\* claim nothing.
Making(d) ==
    /\ down[d].phase \in {"prepare", "parts"} => /\ down[d].removed = 0
                                                 /\ \A n \in Parts : down[d].completed[n] = 0
    /\ down[d].phase = "prepare" => down[d].parts = {}
    /\ down[d].phase = "parts" => Known = down[d].parts /\ \A n \in Known : partFile[n] = 0

\* From then on until they are removed, every part has its file.
Working(d) ==
    down[d].phase \in {"prepared", "start", "url", "chunks"} => down[d].parts = Known /\ down[d].removed = 0

\* What counts as copied is in the partial file.
Filled(d) ==
    down[d].phase \in {"prepared", "start", "url", "chunks", "clean"} /\ Prefix(down[d].parts) =>
        \A n \in down[d].parts : Truth(n, down[d].completed[n] + down[d].worker[n].copied)

\* A goroutine works on a part of the download; a part without one, and a part
\* that is done or about to be, is complete.
Complete(w) == w.st \in {"idle", "done"} \/ (w.st = "save" /\ w.then = "done")
ChunkOK(d, n) ==
    LET w == down[d].worker[n]
    IN  /\ w.st # "idle" => n \in down[d].parts
        /\ w.st = "save" => w.then # "idle"
        /\ n \in down[d].parts /\ Complete(w) => down[d].completed[n] = Size(n)
Chunks(d) == down[d].phase = "chunks" => \A n \in Parts : ChunkOK(d, n)

\* Part files are removed from the first on, and only when all parts are complete.
Clean(d) ==
    down[d].phase = "clean" =>
        /\ \A n \in down[d].parts : down[d].completed[n] = Size(n)
        /\ 0 .. down[d].removed - 1 \subseteq down[d].parts
        /\ Known \subseteq down[d].parts
        /\ down[d].removed > 0 => 0 \notin Known

DataOK(d) == Making(d) /\ Working(d) /\ Filled(d) /\ Chunks(d) /\ Clean(d)
DataInv == Resumable /\ \A d \in Clients : DataOK(d)

-----------------------------------------------------------------------------
(* Lemmas *)

\* A part of a set without a gap has an index below the size of the set, and a
\* set without a gap that lacks the first part is empty.
LEMMA PrefixBelow ==
    ASSUME NEW S \in SUBSET Parts, Prefix(S)
    PROVE  /\ \A n \in S : n < Cardinality(S)
           /\ 0 \notin S => S = {}
<1>1. IsFiniteSet(S) /\ Cardinality(S) \in Nat /\ S \subseteq Nat
  BY PartCount, DownloadConstants DEF Parts
<1>2. ASSUME NEW n \in S PROVE n < Cardinality(S)
  <2>1. n \in Nat /\ 0 .. n \subseteq S
    BY <1>1 DEF Prefix
  <2>2. Cardinality(0 .. n) = n + 1
    BY <2>1, FS_Interval
  <2>3. Cardinality(0 .. n) <= Cardinality(S)
    BY <1>1, <2>1, FS_Subset
  <2> QED BY <1>1, <2>1, <2>2, <2>3
<1>3. 0 \notin S => S = {}
  BY <1>1 DEF Prefix
<1> QED BY <1>2, <1>3

\* An initial segment that is as large as the set is the set.
LEMMA PrefixAll ==
    ASSUME NEW S \in SUBSET Parts, 0 .. Cardinality(S) - 1 \subseteq S
    PROVE  Prefix(S)
<1>1. IsFiniteSet(S) /\ Cardinality(S) \in Nat
  BY PartCount
<1>2. Cardinality(0 .. Cardinality(S) - 1) = Cardinality(S)
  BY <1>1, NextPart
<1>3. 0 .. Cardinality(S) - 1 = S
  BY <1>1, <1>2, FS_Subset
<1> QED BY <1>1, <1>3 DEF Prefix

\* What is true of many units is true of fewer.
LEMMA TruthLess ==
    ASSUME NEW n, NEW m \in Nat, NEW k \in Nat, k <= m, Truth(n, m)
    PROVE  Truth(n, k)
BY DEF Truth

\* A part that has nothing claims nothing.
LEMMA TruthZero == \A n : Truth(n, 0) /\ Truth(n, 0)'
BY DEF Truth

\* A download that is not in progress says nothing of the files.
LEMMA OutOfPlay ==
    ASSUME NEW d \in Clients, down[d].phase \notin Progress \ {"return"}
    PROVE  DataOK(d)
BY DEF DataOK, Making, Working, Filled, Chunks, Clean, Progress, Setup

\* After a step, only the download in the map has to be looked at.
LEMMA OnlyEntry ==
    ASSUME Core', Resumable', \A d \in Clients : current' = d => DataOK(d)'
    PROVE  DataInv'
<1>1. ASSUME NEW d \in Clients, current' # d PROVE DataOK(d)'
  <2>1. down'[d].phase \notin Progress
    BY <1>1 DEF Core, Entry
  <2> QED BY <2>1 DEF DataOK, Making, Working, Filled, Chunks, Clean, Progress, Setup
<1> QED BY <1>1 DEF DataInv

\* A step that leaves the files and the work of every download alone.
SameWork(d) ==
    /\ down'[d].phase = down[d].phase /\ down'[d].parts = down[d].parts
    /\ down'[d].completed = down[d].completed /\ down'[d].worker = down[d].worker
    /\ down'[d].removed = down[d].removed

\* A step that leaves the files and the work of a download alone.
LEMMA SameData ==
    ASSUME NEW d \in Clients, DataOK(d), SameWork(d), UNCHANGED <<data, partFile>>
    PROVE  DataOK(d)'
<1>1. UNCHANGED Known /\ \A n, m : Truth(n, m)' <=> Truth(n, m)
  BY DEF Known, Truth
<1>2. Making(d)' /\ Working(d)'
  BY <1>1 DEF DataOK, Making, Working, SameWork
<1>3. Filled(d)'
  BY <1>1 DEF DataOK, Filled, SameWork, Prefix
<1>4. Chunks(d)'
  BY DEF DataOK, Chunks, ChunkOK, Complete, SameWork
<1>5. Clean(d)'
  BY <1>1 DEF DataOK, Clean, SameWork
<1> QED BY <1>2, <1>3, <1>4, <1>5 DEF DataOK

\* A step that leaves the files alone leaves what they can be resumed from.
LEMMA SameResumable ==
    ASSUME Resumable, UNCHANGED <<data, partFile>>
    PROVE  Resumable'
BY DEF Resumable, Known, Prefix, Truth

-----------------------------------------------------------------------------
(* The steps of a client *)

\* Those that neither prepare a download nor start it.
LEMMA BystanderData ==
    ASSUME Core, Core', DataInv, NEW c \in Clients,
           Stat(c) \/ acquire(c) \/ WaitDone(c) \/ WaitLeave(c) \/ WaitReport(c) \/ Verify(c)
    PROVE  DataInv'
<1>1. UNCHANGED <<data, partFile>>
  BY DEF Stat, acquire, WaitDone, WaitLeave, WaitReport, Verify
<1>2. ASSUME NEW d \in Clients PROVE SameWork(d)
  <2>1. CASE UNCHANGED down
    BY <2>1 DEF SameWork
  <2>2. CASE acquire(c)
    BY <2>2 DEF Core, DownTypeOK, DownloadType, acquire, SameWork
  <2>3. CASE WaitDone(c) \/ WaitLeave(c)
    <3>1. PICK e, can : down' = [down EXCEPT ![e].references = @ - 1, ![e].cancel = can]
      BY <2>3 DEF WaitDone, WaitLeave, release
    <3> QED BY <3>1 DEF Core, DownTypeOK, DownloadType, SameWork
  <2> QED BY <2>1, <2>2, <2>3 DEF Stat, WaitReport, Verify
<1> QED BY <1>1, <1>2, SameData, SameResumable DEF DataInv

\* A new download, or one more that joins.
LEMMA LookupData ==
    ASSUME Core, Core', DataInv, NEW c \in Clients, Lookup(c)
    PROVE  DataInv'
<1>1. UNCHANGED <<data, partFile>>
  BY DEF Lookup
<1>2. CASE current # None
  <2>1. \A d \in Clients : SameWork(d)
    BY <1>2 DEF Lookup, SameWork
  <2> QED BY <1>1, <2>1, SameData, SameResumable DEF DataInv
<1>3. CASE current = None
  <2>1. current' = c /\ down'[c] = [NoDownload EXCEPT !.phase = "prepare"]
    BY <1>3 DEF Lookup, Core, DownTypeOK
  <2>2. /\ down'[c].phase = "prepare" /\ down'[c].parts = {} /\ down'[c].removed = 0
        /\ \A n \in Parts : down'[c].completed[n] = 0
    BY <2>1 DEF NoDownload
  <2>3. DataOK(c)'
    BY <2>2 DEF DataOK, Making, Working, Filled, Chunks, Clean
  <2> QED BY <1>1, <2>1, <2>3, SameResumable, OnlyEntry DEF DataInv
<1> QED BY <1>2, <1>3

\* The download resumes from the part files: what they say is there.
LEMMA ResumeData ==
    ASSUME Core, Core', DataInv, NEW c \in Clients, PrepareResume(c)
    PROVE  DataInv'
<1> DEFINE completed == [n \in Parts |-> IF n \in Known THEN partFile[n] ELSE 0]
<1>a. /\ current' = c /\ UNCHANGED <<data, partFile>> /\ Known \in SUBSET Parts
      /\ down[c].phase = "prepare" /\ DataOK(c) /\ RecordOK(down[c])
  BY DEF PrepareResume, Core, Entry, Progress, Setup, DataInv, Known
<1>1. /\ down'[c].phase = "prepared" /\ down'[c].parts = Known /\ down'[c].completed = completed
      /\ down'[c].worker = down[c].worker /\ down'[c].removed = 0
  BY <1>a DEF PrepareResume, Core, DownTypeOK, DownloadType, DataOK, Making
<1>2. UNCHANGED Known /\ \A n, m : Truth(n, m)' <=> Truth(n, m)
  BY <1>a DEF Known, Truth
<1>3. \A n \in Known : completed[n] \in Nat /\ completed[n] = partFile[n] /\ partFile[n] # Torn
  BY <1>a DEF PrepareResume, Known, Core, FileTypeOK
<1>4. \A n \in Parts : down[c].worker[n].copied = 0
  BY <1>a DEF RecordOK, NoDownload, Idle
<1>5. Prefix(Known) => \A n \in Known : Truth(n, completed[n] + 0)
  BY <1>3 DEF DataInv, Resumable
<1> HIDE DEF completed
<1>6. DataOK(c)'
  BY <1>a, <1>1, <1>2, <1>4, <1>5 DEF DataOK, Making, Working, Filled, Chunks, Clean, Prefix
<1> QED BY <1>a, <1>6, SameResumable, OnlyEntry DEF DataInv

\* One more part file is made, which claims nothing.
LEMMA MakeData ==
    ASSUME Core, Core', DataInv, NEW c \in Clients, PrepareNew(c)
    PROVE  DataInv'
<1>a. /\ current' = c /\ UNCHANGED data /\ DataOK(c) /\ RecordOK(down[c])
      /\ down[c].phase \in {"prepare", "parts"} /\ (down[c].phase = "prepare" => Known = {})
      /\ partFile \in [Parts -> {None, Torn} \cup Nat]
  BY DEF WritesParts, PrepareNew, Core, Entry, Progress, Setup, DataInv, FileTypeOK
<1>1. PICK k \in Parts : down[c].parts = 0 .. k - 1
  BY <1>a DEF RecordOK
<1>2. Cardinality(down[c].parts) = k
  BY <1>1, NextPart DEF Parts
<1> DEFINE phase == IF k + 1 = NumParts THEN "prepared" ELSE "parts"
<1>3. partFile' = [partFile EXCEPT ![k] = 0] /\ down' = [down EXCEPT ![c].parts = @ \cup {k}, ![c].phase = phase]
  BY <1>2 DEF PrepareNew
<1>4. phase \in {"prepared", "parts"}
  OBVIOUS
<1> HIDE DEF phase
<1>5. /\ down'[c].phase = phase /\ down'[c].parts = down[c].parts \cup {k}
      /\ down'[c].completed = down[c].completed /\ down'[c].worker = down[c].worker
      /\ down'[c].removed = down[c].removed
  BY <1>3 DEF Core, DownTypeOK, DownloadType
<1>6. Known = down[c].parts /\ \A n \in Known : partFile[n] = 0
  BY <1>a DEF DataOK, Making
<1>7. Known' = Known \cup {k} /\ \A n \in Known' : partFile'[n] = 0
  BY <1>a, <1>3, <1>6, DownloadMarks DEF Known
<1>8. \A n \in Parts : down[c].completed[n] = 0 /\ down[c].worker[n].copied = 0
  BY <1>a DEF DataOK, Making, RecordOK, NoDownload, Idle
<1>9. Resumable'
  BY <1>7, TruthZero DEF Resumable
<1>10. Filled(c)'
  <2>1. \A n \in down'[c].parts : n \in Parts /\ down'[c].completed[n] + down'[c].worker[n].copied = 0
    BY <1>1, <1>5, <1>8, DownloadConstants DEF Parts
  <2> QED BY <2>1, TruthZero DEF Filled
<1>11. Making(c)' /\ Working(c)' /\ Chunks(c)' /\ Clean(c)'
  BY <1>a, <1>4, <1>5, <1>6, <1>7, <1>8 DEF DataOK, Making, Working, Chunks, Clean
<1> QED BY <1>a, <1>9, <1>10, <1>11, OnlyEntry DEF DataOK

\* Prepare gives up: at most one more part file is there, and it is empty.
LEMMA GiveUpData ==
    ASSUME Core, Core', DataInv, NEW c \in Clients, PrepareFail(c)
    PROVE  DataInv'
<1>a. /\ current' = None /\ UNCHANGED data /\ DataOK(c)
      /\ partFile \in [Parts -> {None, Torn} \cup Nat] /\ \A d \in Clients : d # None
  BY DownloadMarks DEF WritesParts, PrepareFail, Core, DataInv, FileTypeOK
<1>1. CASE UNCHANGED partFile
  BY <1>a, <1>1, SameResumable, OnlyEntry DEF DataInv
<1>2. ASSUME NEW k, NEW left \in {None, Torn}, WritesParts(c),
             partFile' = [partFile EXCEPT ![k] = left]
      PROVE  DataInv'
  <2>1. \A n \in Known : partFile[n] = 0
    BY <1>a, <1>2 DEF WritesParts, DataOK, Making
  <2>2. \A n \in Known' : partFile'[n] = 0 \/ partFile'[n] = Torn
    BY <1>a, <1>2, <2>1, DownloadMarks DEF Known
  <2>3. Resumable'
    BY <2>2, TruthZero DEF Resumable
  <2> QED BY <1>a, <2>3, OnlyEntry
<1> QED BY <1>1, <1>2 DEF PrepareFail

\* The goroutine of a prepared download starts.
LEMMA SpawnData ==
    ASSUME Core, Core', DataInv, NEW c \in Clients, Spawn(c)
    PROVE  DataInv'
<1>a. /\ current' = c /\ UNCHANGED <<data, partFile>> /\ DataOK(c) /\ down[c].phase = "prepared"
  BY DEF Spawn, Core, Entry, Progress, Setup, DataInv
<1>1. /\ down'[c].phase = "start" /\ down'[c].parts = down[c].parts
      /\ down'[c].completed = down[c].completed /\ down'[c].worker = down[c].worker
      /\ down'[c].removed = down[c].removed
  BY DEF Spawn, Core, DownTypeOK, DownloadType
<1>2. UNCHANGED Known /\ \A n, m : Truth(n, m)' <=> Truth(n, m)
  BY <1>a DEF Known, Truth
<1>3. DataOK(c)'
  BY <1>a, <1>1, <1>2 DEF DataOK, Making, Working, Filled, Chunks, Clean, Prefix
<1> QED BY <1>a, <1>3, SameResumable, OnlyEntry DEF DataInv

-----------------------------------------------------------------------------
(* The steps of run *)

\* Opening the partial file cuts off only what no part of a set without a gap
\* holds.
LEMMA OpenKeeps ==
    ASSUME Core, NEW d \in Clients, RunOpen(d), NEW n \in down[d].parts, NEW m \in 0 .. Size(n),
           Prefix(down[d].parts), Truth(n, m)
    PROVE  Truth(n, m)'
<1>1. down[d].parts \in SUBSET Parts /\ n \in Parts /\ n \in Int
  BY DownloadConstants DEF Core, DownTypeOK, DownloadType, Parts
<1>2. Cardinality(down[d].parts) \in Nat /\ n < Cardinality(down[d].parts)
  BY <1>1, PartCount, PrefixBelow
<1>3. Size(n) \in Nat
  BY <1>1, DownloadConstants DEF Parts
<1>4. data' # None
  <2>1. \A k \in Parts : data'[k] \in [Units(k) -> {"no", "ok", "bad"}]
    BY DEF RunOpen, Core, FileTypeOK
  <2>2. data' \in Contents
    BY <2>1 DEF RunOpen, Contents
  <2> QED BY <2>2, DownloadMarks
<1>5. ASSUME NEW u \in 0 .. m - 1 PROVE data'[n][u] # "no"
  <2>1. u \in Units(n) /\ data # None /\ data[n][u] # "no"
    BY <1>3 DEF Truth, Units
  <2> QED BY <1>1, <1>2, <2>1 DEF RunOpen
<1> QED BY <1>4, <1>5 DEF Truth

\* The partial file is opened and given its size.
LEMMA OpenData ==
    ASSUME Core, Core', DataInv, NEW d \in Clients, RunOpen(d)
    PROVE  DataInv'
<1>a. /\ current' = d /\ UNCHANGED <<partFile, Known>> /\ DataOK(d) /\ down[d].phase = "start"
      /\ RecordOK(down[d]) /\ FilesBounded
  BY DEF RunOpen, Core, Entry, Progress, DataInv, Known
<1>1. /\ down'[d].phase = "url" /\ down'[d].parts = down[d].parts
      /\ down'[d].completed = down[d].completed /\ down'[d].worker = down[d].worker
      /\ down'[d].removed = down[d].removed
  BY DEF RunOpen, Core, DownTypeOK, DownloadType
<1>2. down[d].parts = Known
  BY <1>a DEF DataOK, Working
<1>3. Resumable'
  <2> SUFFICES ASSUME Prefix(Known), NEW n \in Known, partFile[n] # Torn
               PROVE  Truth(n, partFile[n])'
    BY <1>a DEF Resumable, Prefix
  <2>1. partFile[n] \in 0 .. Size(n) /\ Truth(n, partFile[n])
    BY <1>a DEF Known, FilesBounded, DataInv, Resumable
  <2>2. \A m \in 0 .. Size(n) : Truth(n, m) => Truth(n, m)'
    BY <1>2, OpenKeeps
  <2> QED BY <1>a, <2>1, <2>2
<1>4. Filled(d)'
  <2> SUFFICES ASSUME Prefix(down[d].parts), NEW n \in down[d].parts
               PROVE  Truth(n, down[d].completed[n] + down[d].worker[n].copied)'
    BY <1>1 DEF Filled, Prefix
  <2>1. n \in Parts /\ down[d].completed[n] \in Nat /\ down[d].worker[n].copied \in Nat /\ Size(n) \in Nat
    <3>1. n \in Parts /\ down[d].completed[n] \in Nat /\ down[d].worker[n] \in WorkerType
      BY DEF Core, DownTypeOK, DownloadType
    <3> QED BY <3>1, DownloadConstants DEF WorkerType, Parts
  <2>2. down[d].completed[n] + down[d].worker[n].copied \in 0 .. Size(n)
    BY <1>a, <2>1 DEF RecordOK
  <2>3. Truth(n, down[d].completed[n] + down[d].worker[n].copied)
    BY <1>a DEF DataOK, Filled
  <2>4. \A m \in 0 .. Size(n) : Truth(n, m) => Truth(n, m)'
    BY OpenKeeps
  <2> QED BY <1>1, <2>2, <2>3, <2>4
<1>5. Making(d)' /\ Working(d)' /\ Chunks(d)' /\ Clean(d)'
  BY <1>a, <1>1 DEF DataOK, Making, Working, Chunks, Clean
<1> QED BY <1>a, <1>3, <1>4, <1>5, OnlyEntry DEF DataOK

\* A goroutine starts for each incomplete part.
LEMMA URLData ==
    ASSUME Core, Core', DataInv, NEW d \in Clients, RunURL(d)
    PROVE  DataInv'
<1> DEFINE worker == [n \in Parts |-> IF n \in down[d].parts /\ down[d].completed[n] < Size(n)
                                      THEN [Idle EXCEPT !.st = "copy"] ELSE Idle]
<1>a. /\ current' = d /\ UNCHANGED <<data, partFile, Known>> /\ DataOK(d) /\ down[d].phase = "url"
      /\ RecordOK(down[d]) /\ down[d] \in DownloadType
  BY DEF RunURL, Core, DownTypeOK, Entry, Progress, DataInv, Known
<1>1. /\ down'[d].phase = "chunks" /\ down'[d].parts = down[d].parts
      /\ down'[d].completed = down[d].completed /\ down'[d].worker = worker
      /\ down'[d].removed = down[d].removed
  <2>1. down' = [down EXCEPT ![d].phase = "chunks", ![d].worker = worker]
    BY DEF RunURL
  <2> HIDE DEF worker
  <2> QED BY <2>1 DEF Core, DownTypeOK, DownloadType
<1>2. \A n, m : Truth(n, m)' <=> Truth(n, m)
  BY <1>a DEF Truth
<1>3. ASSUME NEW n \in Parts
      PROVE  /\ down[d].completed[n] \in Nat /\ Size(n) \in Nat /\ down[d].completed[n] <= Size(n)
             /\ down[d].worker[n].copied = 0 /\ worker[n].copied = 0
  <2>1. down[d].worker[n].copied = 0 /\ worker[n].copied = 0
    BY <1>a DEF RecordOK, NoDownload, Idle
  <2>2. down[d].completed[n] \in Nat /\ Size(n) \in Nat
    BY <1>a, DownloadConstants DEF DownloadType, Parts
  <2> QED BY <1>a, <2>1, <2>2 DEF RecordOK
<1>4. \A n \in Parts : /\ worker[n].st \in {"idle", "copy"}
                       /\ worker[n].st = "copy" => n \in down[d].parts
                       /\ worker[n].st = "idle" => n \notin down[d].parts \/ ~(down[d].completed[n] < Size(n))
  BY DEF Idle
<1> HIDE DEF worker
<1>5. \A n \in Parts : ChunkOK(d, n)'
  BY <1>1, <1>3, <1>4 DEF ChunkOK, Complete
<1>6. Filled(d)'
  <2>1. down[d].parts \subseteq Parts
    BY <1>a DEF DownloadType
  <2> QED BY <1>a, <1>1, <1>2, <1>3, <2>1 DEF DataOK, Filled, Prefix
<1>7. Making(d)' /\ Working(d)' /\ Chunks(d)' /\ Clean(d)'
  BY <1>a, <1>1, <1>5 DEF DataOK, Making, Working, Chunks, Clean
<1> QED BY <1>a, <1>6, <1>7, OnlyEntry, SameResumable DEF DataOK, DataInv

\* When no goroutine has failed, every part is complete.
LEMMA DoneData ==
    ASSUME Core, Core', DataInv, NEW d \in Clients, RunChunksDone(d)
    PROVE  DataInv'
<1> DEFINE phase == IF Unfinished(d) THEN "return" ELSE "clean"
<1>a. /\ current' = d /\ UNCHANGED <<data, partFile, Known>> /\ DataOK(d) /\ down[d].phase = "chunks"
      /\ RecordOK(down[d]) /\ down[d] \in DownloadType
  BY DEF RunChunksDone, Core, DownTypeOK, Entry, Progress, DataInv, Known
<1>1. /\ down'[d].phase = phase /\ down'[d].parts = down[d].parts
      /\ down'[d].completed = down[d].completed /\ down'[d].worker = NoDownload.worker
      /\ down'[d].removed = down[d].removed
  <2>1. PICK err : down' = [down EXCEPT ![d].worker = NoDownload.worker, ![d].phase = phase, ![d].err = err]
    BY DEF RunChunksDone
  <2> HIDE DEF phase
  <2> QED BY <2>1 DEF Core, DownTypeOK, DownloadType
<1>2. CASE phase = "return"
  <2>1. DataOK(d)'
    BY <1>1, <1>2 DEF DataOK, Making, Working, Filled, Chunks, Clean
  <2> QED BY <1>a, <2>1, OnlyEntry, SameResumable DEF DataInv
<1>3. CASE phase = "clean"
  <2>1. \A n \in Parts : Complete(down[d].worker[n])
    BY <1>a, <1>3 DEF RunChunksDone, Busy, Unfinished, Complete, DownloadType, WorkerType
  <2>2. \A n \in down[d].parts : n \in Parts /\ down[d].completed[n] = Size(n)
    BY <1>a, <2>1 DEF DataOK, Chunks, ChunkOK, DownloadType
  <2>3. Clean(d)'
    BY <1>a, <1>1, <2>2 DEF Clean, DataOK, Working
  <2>4. Filled(d)'
    <3> SUFFICES ASSUME Prefix(down[d].parts), NEW n \in down[d].parts
                 PROVE  Truth(n, Size(n))
      BY <1>a, <1>1, <2>2, DownloadConstants DEF Filled, Prefix, Truth, NoDownload, Idle, Parts
    <3>1. /\ n \in Parts /\ down[d].worker[n].copied \in Nat /\ Size(n) \in Nat
          /\ down[d].completed[n] = Size(n) /\ Truth(n, down[d].completed[n] + down[d].worker[n].copied)
      BY <1>a, <2>2, DownloadConstants DEF DataOK, Filled, DownloadType, WorkerType, Parts
    <3> QED BY <3>1, TruthLess
  <2>5. Making(d)' /\ Working(d)' /\ Chunks(d)'
    BY <1>1, <1>3 DEF Making, Working, Chunks
  <2> QED BY <1>a, <2>3, <2>4, <2>5, OnlyEntry, SameResumable DEF DataOK, DataInv
<1> QED BY <1>2, <1>3

\* Once a part file is removed, the first is: what is left cannot be resumed from.
LEMMA RemoveData ==
    ASSUME Core, Core', DataInv, NEW d \in Clients, RunRemovePart(d)
    PROVE  DataInv'
<1> DEFINE i == down[d].removed
<1>a. /\ current' = d /\ UNCHANGED data /\ DataOK(d) /\ down[d].phase = "clean"
      /\ down[d] \in DownloadType /\ partFile \in [Parts -> {None, Torn} \cup Nat]
      /\ i < Cardinality(down[d].parts)
  BY DEF RunRemovePart, Core, DownTypeOK, Entry, Progress, DataInv, FileTypeOK
<1>1. CASE down' = Fail(d) /\ UNCHANGED partFile
  <2>1. down'[d].phase = "return"
    BY <1>1 DEF Fail, Core, DownTypeOK, DownloadType
  <2>2. DataOK(d)'
    BY <2>1 DEF DataOK, Making, Working, Filled, Chunks, Clean
  <2> QED BY <1>a, <1>1, <2>2, OnlyEntry, SameResumable DEF DataInv
<1>2. CASE /\ partFile[i] # None /\ partFile' = [partFile EXCEPT ![i] = None]
           /\ down' = [down EXCEPT ![d].removed = i + 1]
  <2>1. i \in Nat /\ i \in Parts
    BY <1>a, PartCount, DownloadConstants DEF DownloadType, Parts
  <2>2. /\ down'[d].phase = "clean" /\ down'[d].parts = down[d].parts
        /\ down'[d].completed = down[d].completed /\ down'[d].worker = down[d].worker
        /\ down'[d].removed = i + 1
    BY <1>a, <1>2 DEF Core, DownTypeOK, DownloadType
  <2>3. Known' = Known \ {i} /\ i \in Known
    BY <1>a, <1>2, <2>1 DEF Known
  <2> HIDE DEF i
  <2>4. 0 \notin Known' /\ i \in down[d].parts
    BY <1>a, <2>1, <2>3 DEF DataOK, Clean, i
  <2>5. 0 .. (i + 1) - 1 \subseteq down[d].parts
    BY <1>a, <2>1, <2>4 DEF DataOK, Clean, i
  <2>6. Clean(d)'
    BY <1>a, <2>2, <2>3, <2>4, <2>5 DEF DataOK, Clean
  <2>7. Filled(d)'
    BY <1>a, <2>2 DEF DataOK, Filled, Prefix, Truth
  <2>8. Making(d)' /\ Working(d)' /\ Chunks(d)'
    BY <2>2 DEF Making, Working, Chunks
  <2>9. Resumable'
    <3>1. Prefix(Known') => Known' = {}
      BY <2>4, PrefixBelow DEF Known
    <3> QED BY <3>1 DEF Resumable, Prefix
  <2> QED BY <1>a, <2>6, <2>7, <2>8, <2>9, OnlyEntry DEF DataOK
<1> QED BY <1>1, <1>2 DEF RunRemovePart

\* The partial file is renamed when no part file is left that could be resumed from.
LEMMA RenameData ==
    ASSUME Core, Core', DataInv, NEW d \in Clients, RunRename(d)
    PROVE  DataInv'
<1>a. /\ current' = d /\ UNCHANGED <<partFile, Known>> /\ DataOK(d) /\ down[d].phase = "clean"
      /\ down[d] \in DownloadType /\ down[d].removed = Cardinality(down[d].parts)
  BY DEF RunRename, Core, DownTypeOK, Entry, Progress, DataInv, Known
<1>1. down'[d].phase = "return"
  BY DEF RunRename, Core, DownTypeOK, DownloadType
<1>2. DataOK(d)'
  BY <1>1 DEF DataOK, Making, Working, Filled, Chunks, Clean
<1>3. Prefix(Known) => Known = {}
  <2>1. down[d].parts \in SUBSET Parts /\ Known \in SUBSET Parts /\ Known \subseteq down[d].parts
    BY <1>a DEF DownloadType, DataOK, Clean, Known
  <2>2. down[d].parts = {} \/ down[d].removed > 0
    BY <1>a, <2>1, PartCount, FS_EmptySet
  <2>3. CASE down[d].parts = {}
    BY <2>1, <2>3
  <2>4. CASE down[d].removed > 0
    BY <1>a, <2>1, <2>4, PrefixBelow DEF DataOK, Clean
  <2> QED BY <2>2, <2>3, <2>4
<1>4. Resumable'
  BY <1>a, <1>3 DEF Resumable, Prefix
<1> QED BY <1>a, <1>2, <1>4, OnlyEntry

\* A download that fails, is taken out of the map or closes leaves the files alone.
LEMMA EndData ==
    ASSUME Core, Core', DataInv, NEW d \in Clients,
           RunURLFail(d) \/ RunFileFail(d) \/ RunDelete(d) \/ RunClose(d)
    PROVE  DataInv'
<1>1. UNCHANGED <<data, partFile>> /\ \A e \in Clients \ {d} : down'[e] = down[e]
  BY DEF RunURLFail, RunFileFail, RunDelete, RunClose, Fail, Core, DownTypeOK
<1>2. down'[d].phase \in {"return", "deleted", "end"}
  <2>1. CASE RunURLFail(d)
    BY <2>1 DEF RunURLFail, Fail, Core, DownTypeOK, DownloadType
  <2>2. CASE RunFileFail(d)
    BY <2>2 DEF RunFileFail, Fail, Core, DownTypeOK, DownloadType
  <2>3. CASE RunDelete(d)
    BY <2>3, EndedTypes DEF RunDelete, Core, DownTypeOK
  <2>4. CASE RunClose(d)
    BY <2>4 DEF RunClose, Core, DownTypeOK, DownloadType
  <2> QED BY <2>1, <2>2, <2>3, <2>4
<1>3. DataOK(d)'
  BY <1>2 DEF DataOK, Making, Working, Filled, Chunks, Clean
<1>4. \A e \in Clients \ {d} : DataOK(e)'
  BY <1>1, SameData DEF SameWork, DataInv
<1> QED BY <1>1, <1>3, <1>4, SameResumable DEF DataInv

-----------------------------------------------------------------------------
(* The steps of the goroutines *)

\* The goroutine of part n becomes w, and m units of the part count as complete.
PartIs(d, n, m, w) ==
    /\ down'[d].phase = down[d].phase /\ down'[d].parts = down[d].parts
    /\ down'[d].removed = down[d].removed
    /\ down'[d].completed[n] = m /\ down'[d].worker[n] = w
    /\ \A k \in Parts \ {n} : /\ down'[d].completed[k] = down[d].completed[k]
                              /\ down'[d].worker[k] = down[d].worker[k]

\* A step that changes only the worker of a part.
LEMMA PartBecomes ==
    ASSUME DownTypeOK, NEW d \in Clients, NEW n \in Parts, NEW w,
           down' = [down EXCEPT ![d].worker[n] = w]
    PROVE  PartIs(d, n, down[d].completed[n], w)
<1>1. down[d] \in DownloadType /\ down[d].worker \in [Parts -> WorkerType]
  BY DEF DownTypeOK, DownloadType
<1>2. down'[d] = [down[d] EXCEPT !.worker = [down[d].worker EXCEPT ![n] = w]]
  BY DEF DownTypeOK
<1> QED BY <1>1, <1>2 DEF DownloadType, PartIs

\* A step that changes the worker of a part and what it has completed.
LEMMA PartCounts ==
    ASSUME DownTypeOK, NEW d \in Clients, NEW n \in Parts, NEW w, NEW m,
           down' = [down EXCEPT ![d].completed[n] = m, ![d].worker[n] = w]
    PROVE  PartIs(d, n, m, w)
<1>1. /\ down[d] \in DownloadType /\ down[d].worker \in [Parts -> WorkerType]
      /\ down[d].completed \in [Parts -> Nat]
  BY DEF DownTypeOK, DownloadType
<1> DEFINE completed == [down[d].completed EXCEPT ![n] = m]
           worker == [down[d].worker EXCEPT ![n] = w]
<1>2. down' = [down EXCEPT ![d].completed = completed, ![d].worker = worker]
  OBVIOUS
<1>3. /\ completed[n] = m /\ worker[n] = w
      /\ \A k \in Parts \ {n} : completed[k] = down[d].completed[k] /\ worker[k] = down[d].worker[k]
  BY <1>1
<1> HIDE DEF completed, worker
<1>4. /\ down'[d].phase = down[d].phase /\ down'[d].parts = down[d].parts
      /\ down'[d].removed = down[d].removed
      /\ down'[d].completed = completed /\ down'[d].worker = worker
  BY <1>2 DEF DownTypeOK, DownloadType
<1> QED BY <1>3, <1>4 DEF PartIs

\* What has to be shown of the goroutine of one part: what it counts as copied is
\* there, and its own state is in order.  The part files of all parts remain.
LEMMA PartData ==
    ASSUME Core, Core', DataInv, NEW d \in Clients, NEW n \in Parts, NEW m \in Nat, NEW w \in WorkerType,
           down[d].phase = "chunks", UNCHANGED <<current, Known>>, Resumable',
           PartIs(d, n, m, w),
           \A k \in Parts : \A j \in 0 .. Size(k) : Truth(k, j) => Truth(k, j)',
           n \in down[d].parts,
           Prefix(down[d].parts) => Truth(n, m + w.copied)',
           w.st # "idle", w.st = "save" => w.then # "idle", Complete(w) => m = Size(n)
    PROVE  DataInv'
<1>a. DataOK(d) /\ RecordOK(down[d]) /\ down[d] \in DownloadType /\ current' = d
  BY DEF Core, DownTypeOK, Entry, Progress, DataInv
<1>1. /\ down'[d].phase = "chunks" /\ down'[d].parts = down[d].parts
      /\ down'[d].removed = down[d].removed
  BY DEF PartIs
<1>2. /\ down'[d].completed[n] = m /\ down'[d].worker[n] = w
      /\ \A k \in Parts \ {n} : /\ down'[d].completed[k] = down[d].completed[k]
                                /\ down'[d].worker[k] = down[d].worker[k]
  BY DEF PartIs
<1>3. ASSUME NEW k \in Parts PROVE ChunkOK(d, k)'
  <2>1. CASE k = n
    BY <1>1, <1>2, <2>1 DEF ChunkOK, Complete
  <2>2. CASE k # n
    BY <1>a, <1>1, <1>2, <2>2 DEF DataOK, Chunks, ChunkOK, Complete
  <2> QED BY <2>1, <2>2
<1>4. Filled(d)'
  <2> SUFFICES ASSUME Prefix(down[d].parts), NEW k \in down[d].parts
               PROVE  Truth(k, down[d].completed[k] + down[d].worker[k].copied)'
    BY <1>1 DEF Filled, Prefix
  <2>1. CASE k = n
    BY <1>2, <2>1 DEF Truth
  <2>2. CASE k # n
    <3>1. k \in Parts /\ down[d].completed[k] \in Nat /\ down[d].worker[k] \in WorkerType
      BY <1>a DEF DownloadType
    <3>2. down[d].completed[k] + down[d].worker[k].copied \in 0 .. Size(k)
      BY <1>a, <3>1, DownloadConstants DEF RecordOK, WorkerType, Parts
    <3>3. Truth(k, down[d].completed[k] + down[d].worker[k].copied)
      BY <1>a DEF DataOK, Filled
    <3>4. down'[d].completed[k] + down'[d].worker[k].copied = down[d].completed[k] + down[d].worker[k].copied
      BY <1>2, <2>2, <3>1
    <3> QED BY <3>1, <3>2, <3>3, <3>4
  <2> QED BY <2>1, <2>2
<1>5. Making(d)' /\ Working(d)' /\ Chunks(d)' /\ Clean(d)'
  BY <1>a, <1>1, <1>3 DEF DataOK, Making, Working, Chunks, Clean
<1> QED BY <1>a, <1>4, <1>5, OnlyEntry DEF DataOK

\* Facts about a part that is being fetched.
LEMMA PartFacts ==
    ASSUME Core, DataInv, NEW d \in Clients, NEW n \in Parts, down[d].worker[n].st # "idle"
    PROVE  /\ DataOK(d) /\ down[d].phase = "chunks" /\ n \in down[d].parts /\ Known = down[d].parts
           /\ down[d].worker[n] \in WorkerType /\ down[d].worker[n].copied \in Nat
           /\ down[d].completed[n] \in Nat /\ Size(n) \in Nat
           /\ down[d].completed[n] + down[d].worker[n].copied <= Size(n)
           /\ Prefix(Known) => Truth(n, down[d].completed[n] + down[d].worker[n].copied)
           /\ data # None /\ data \in Contents
           /\ \A k \in Parts : data[k] \in [Units(k) -> {"no", "ok", "bad"}]
           /\ partFile \in [Parts -> {None, Torn} \cup Nat]
<1>1. DataOK(d) /\ RecordOK(down[d]) /\ down[d] \in DownloadType /\ Opened(d) /\ FileTypeOK
  BY DEF Core, DownTypeOK, DataInv
<1>2. down[d].phase = "chunks"
  BY <1>1 DEF RecordOK, NoDownload, Idle
<1>3. n \in down[d].parts /\ Known = down[d].parts
  BY <1>1, <1>2 DEF DataOK, Chunks, ChunkOK, Working
<1>4. down[d].worker[n] \in WorkerType /\ down[d].completed[n] \in Nat
  BY <1>1 DEF DownloadType
<1>5. down[d].worker[n].copied \in Nat /\ Size(n) \in Nat
  BY <1>4, DownloadConstants DEF WorkerType, Parts
<1>6. down[d].completed[n] + down[d].worker[n].copied <= Size(n)
  BY <1>1 DEF RecordOK
<1>7. Prefix(Known) => Truth(n, down[d].completed[n] + down[d].worker[n].copied)
  BY <1>1, <1>2, <1>3 DEF DataOK, Filled
<1>8. /\ data # None /\ data \in Contents
      /\ \A k \in Parts : data[k] \in [Units(k) -> {"no", "ok", "bad"}]
      /\ partFile \in [Parts -> {None, Torn} \cup Nat]
  BY <1>1, <1>2 DEF Opened, Writing, FileTypeOK
<1> QED BY <1>1, <1>2, <1>3, <1>4, <1>5, <1>6, <1>7, <1>8

\* A unit arrives: it is in the partial file, and nothing is lost.
LEMMA ReceiveData ==
    ASSUME Core, Core', DataInv, NEW d \in Clients, NEW n \in Parts, Receive(d, n)
    PROVE  DataInv'
<1>a. down[d].worker[n].st = "copy" /\ DownTypeOK
  BY DEF Receive, Core
<1>b. PICK w \in WorkerType, m \in Nat : w = down[d].worker[n] /\ m = down[d].completed[n]
  BY <1>a, PartFacts
<1> DEFINE u == m + w.copied
           v == [w EXCEPT !.copied = @ + 1]
<1>c. /\ DataOK(d) /\ down[d].phase = "chunks" /\ n \in down[d].parts /\ Known = down[d].parts
      /\ w.copied \in Nat /\ Size(n) \in Nat /\ (Prefix(Known) => Truth(n, u))
      /\ data # None /\ data \in Contents
      /\ \A k \in Parts : data[k] \in [Units(k) -> {"no", "ok", "bad"}]
  BY <1>a, <1>b, PartFacts
<1>1. w.st = "copy" /\ u < Size(n) /\ \E x \in {"ok", "bad"} : data' = [data EXCEPT ![n][u] = x]
  BY <1>b DEF Receive
<1>2. PICK x \in {"ok", "bad"} : data' = [data EXCEPT ![n][u] = x]
  BY <1>1
<1>3. down' = [down EXCEPT ![d].worker[n] = v] /\ UNCHANGED <<blob, partFile, current>>
  BY <1>b DEF Receive
<1>4. u \in Nat /\ u \in Units(n) /\ w.copied + 1 \in Nat
  BY <1>c, <1>1 DEF Units
<1>5. v \in WorkerType /\ v.copied = w.copied + 1 /\ v.st = "copy"
  BY <1>1, <1>4 DEF WorkerType
<1>6. m + v.copied = u + 1
  BY <1>c, <1>5
<1> HIDE DEF u, v
<1>7. data' # None
  BY <1>c, <1>3, <1>5 DEF Core, Opened, Writing, Receive, Entry
<1>8. \A k \in Parts : \A j \in Units(k) : data'[k][j] = data[k][j] \/ data'[k][j] = x
  BY <1>c, <1>2, <1>4 DEF Contents
<1>9. data'[n][u] = x
  BY <1>c, <1>2, <1>4 DEF Contents
<1>10. \A k \in Parts : \A j \in 0 .. Size(k) : Truth(k, j) => Truth(k, j)'
  <2>1. \A k \in Parts : Size(k) \in Nat
    BY DownloadConstants DEF Parts
  <2> QED BY <1>7, <1>8, <2>1 DEF Truth, Units
<1>11. Prefix(down[d].parts) => Truth(n, m + v.copied)'
  <2>1. Prefix(Known) => Truth(n, u)'
    BY <1>c, <1>1, <1>4, <1>10
  <2> QED BY <1>c, <1>4, <1>6, <1>7, <1>9, <2>1 DEF Truth
<1>12. UNCHANGED Known
  BY <1>3 DEF Known
<1>13. Resumable'
  <2> SUFFICES ASSUME Prefix(Known), NEW k \in Known, partFile[k] # Torn PROVE Truth(k, partFile[k])'
    BY <1>3, <1>12 DEF Resumable, Prefix
  <2>1. k \in Parts /\ partFile[k] \in 0 .. Size(k) /\ Truth(k, partFile[k])
    BY DEF Known, Core, FilesBounded, DataInv, Resumable
  <2> QED BY <1>3, <1>10, <2>1
<1>14. ~Complete(v)
  BY <1>5 DEF Complete
<1>15. PartIs(d, n, m, v)
  BY <1>a, <1>b, <1>3, PartBecomes
<1> QED BY <1>c, <1>3, <1>5, <1>10, <1>11, <1>12, <1>13, <1>14, <1>15, PartData

\* An attempt ends and keeps what it has copied.
LEMMA KeptData ==
    ASSUME Core, Core', DataInv, NEW d \in Clients, NEW n \in Parts,
           NEW then \in {"done", "stopped", "copy", "retry"}, EndKept(d, n, then)
    PROVE  DataInv'
<1>a. down[d].worker[n].st = "copy" /\ DownTypeOK
  BY DEF EndKept, Core
<1>b. PICK w \in WorkerType, m \in Nat : w = down[d].worker[n] /\ m = down[d].completed[n]
  BY <1>a, PartFacts
<1> DEFINE v == [w EXCEPT !.st = "save", !.copied = 0, !.then = then]
<1>c. /\ DataOK(d) /\ down[d].phase = "chunks" /\ n \in down[d].parts /\ Known = down[d].parts
      /\ w.copied \in Nat /\ m + w.copied \in Nat /\ m + w.copied <= Size(n)
      /\ (Prefix(Known) => Truth(n, m + w.copied))
  BY <1>a, <1>b, PartFacts
<1>1. /\ down' = [down EXCEPT ![d].completed[n] = m + w.copied, ![d].worker[n] = v]
      /\ UNCHANGED <<data, partFile, current>>
  BY <1>a, <1>b DEF EndKept, DownTypeOK, DownloadType
<1>2. then = "done" => m + w.copied = Size(n)
  BY <1>b DEF EndKept
<1>3. v \in WorkerType /\ v.copied = 0 /\ v.st = "save" /\ v.then = then
  BY DEF WorkerType
<1> HIDE DEF v
<1>4. UNCHANGED Known /\ \A k, j : Truth(k, j)' <=> Truth(k, j)
  BY <1>1 DEF Known, Truth
<1>5. Prefix(down[d].parts) => Truth(n, (m + w.copied) + v.copied)'
  BY <1>c, <1>3, <1>4
<1>6. Resumable'
  BY <1>1, SameResumable DEF DataInv
<1>7. Complete(v) => m + w.copied = Size(n)
  BY <1>2, <1>3 DEF Complete
<1>8. PartIs(d, n, m + w.copied, v)
  BY <1>a, <1>1, PartCounts
<1> QED BY <1>c, <1>1, <1>3, <1>4, <1>5, <1>6, <1>7, <1>8, PartData

\* The part file is written, with what counts as complete, or it is left empty, or
\* as it was.
LEMMA SaveData ==
    ASSUME Core, Core', DataInv, NEW d \in Clients, NEW n \in Parts, SavePart(d, n)
    PROVE  DataInv'
<1>a. down[d].worker[n].st = "save" /\ DownTypeOK
  BY DEF SavePart, Core
<1>b. PICK w \in WorkerType, m \in Nat : w = down[d].worker[n] /\ m = down[d].completed[n]
  BY <1>a, PartFacts
<1>c. /\ DataOK(d) /\ down[d].phase = "chunks" /\ n \in down[d].parts /\ Known = down[d].parts
      /\ w.copied \in Nat /\ m + w.copied \in Nat /\ m + w.copied <= Size(n)
      /\ (Prefix(Known) => Truth(n, m + w.copied))
      /\ partFile \in [Parts -> {None, Torn} \cup Nat]
  BY <1>a, <1>b, PartFacts
<1>d. ChunkOK(d, n)
  BY <1>c DEF DataOK, Chunks
<1>1. PICK f \in {m, partFile[n], Torn} : partFile' = [partFile EXCEPT ![n] = f]
  BY <1>b DEF SavePart
<1>2. UNCHANGED <<data, current>>
  BY DEF SavePart
<1>3. \/ down' = [down EXCEPT ![d].worker[n] = Retry(w)]
      \/ \E st \in {w.then, "stopped", "copy", "failed"} \ {"retry"} :
                down' = [down EXCEPT ![d].worker[n] = [w EXCEPT !.st = st]]
  BY <1>b DEF SavePart
<1>4. \A st \in {w.then, "stopped", "copy", "failed"} \ {"retry"} :
            /\ [w EXCEPT !.st = st] \in WorkerType /\ [w EXCEPT !.st = st].copied <= w.copied
            /\ [w EXCEPT !.st = st].st \in {w.then, "stopped", "copy", "failed"}
  BY <1>c DEF WorkerType
<1>5. /\ Retry(w) \in WorkerType /\ Retry(w).copied <= w.copied
      /\ Retry(w).st \in {"copy", "failed"}
  BY RetryTypes DEF Retry, WorkerType
<1>6. PICK v \in WorkerType : /\ v.copied <= w.copied /\ v.st \in {w.then, "stopped", "copy", "failed"}
                              /\ down' = [down EXCEPT ![d].worker[n] = v]
  BY <1>3, <1>4, <1>5
<1>7. w.then \in {"done", "stopped", "copy", "retry"} /\ (w.then = "done" => m = Size(n))
  BY <1>a, <1>b, <1>c, <1>d DEF ChunkOK, Complete, WorkerType
<1>8. v.st \in {"done", "stopped", "copy", "failed"} /\ v.copied \in Nat
  BY <1>6, <1>7 DEF WorkerType
<1>9. Complete(v) => m = Size(n)
  BY <1>6, <1>7, <1>8 DEF Complete
<1>10. UNCHANGED Known
  BY <1>c, <1>1, DownloadMarks DEF Known
<1>11. \A k, j : Truth(k, j)' <=> Truth(k, j)
  BY <1>2 DEF Truth
<1>12. Prefix(down[d].parts) => Truth(n, m + v.copied)' /\ Truth(n, m)'
  <2>1. m + v.copied \in Nat /\ m + v.copied <= m + w.copied /\ m <= m + w.copied
    BY <1>c, <1>6, <1>8
  <2> QED BY <1>c, <1>11, <2>1, TruthLess
<1>13. Resumable'
  <2> SUFFICES ASSUME Prefix(Known), NEW k \in Known, partFile'[k] # Torn PROVE Truth(k, partFile[k])'
    BY <1>10 DEF Resumable, Prefix
  <2>1. CASE k = n /\ f = m
    BY <1>c, <1>1, <1>12, <2>1
  <2>2. CASE k # n \/ f = partFile[n]
    <3>1. partFile'[k] = partFile[k] /\ Truth(k, partFile[k])
      BY <1>1, <1>c, <2>2 DEF Known, DataInv, Resumable
    <3> QED BY <1>11, <3>1
  <2> QED BY <1>1, <1>c, <2>1, <2>2
<1>14. PartIs(d, n, m, v)
  BY <1>a, <1>b, <1>6, PartBecomes
<1> QED BY <1>c, <1>2, <1>8, <1>9, <1>10, <1>11, <1>12, <1>13, <1>14, PartData

\* An attempt ends and what it has copied does not count.
LEMMA LostData ==
    ASSUME Core, Core', DataInv, NEW d \in Clients, NEW n \in Parts, EndLost(d, n)
    PROVE  DataInv'
<1>a. down[d].worker[n].st = "copy" /\ DownTypeOK
  BY DEF EndLost, Core
<1>b. PICK w \in WorkerType, m \in Nat : w = down[d].worker[n] /\ m = down[d].completed[n]
  BY <1>a, PartFacts
<1>c. /\ DataOK(d) /\ down[d].phase = "chunks" /\ n \in down[d].parts /\ Known = down[d].parts
      /\ w.copied \in Nat /\ m + w.copied \in Nat /\ (Prefix(Known) => Truth(n, m + w.copied))
  BY <1>a, <1>b, PartFacts
<1>1. UNCHANGED <<data, partFile, current>>
  BY DEF EndLost
<1>2. \/ down' = [down EXCEPT ![d].worker[n] = Retry(w)]
      \/ down' = [down EXCEPT ![d].worker[n] = [w EXCEPT !.st = "failed"]]
  BY <1>b DEF EndLost
<1>3. /\ [w EXCEPT !.st = "failed"] \in WorkerType /\ [w EXCEPT !.st = "failed"].copied <= w.copied
      /\ [w EXCEPT !.st = "failed"].st = "failed"
  BY <1>c DEF WorkerType
<1>4. /\ Retry(w) \in WorkerType /\ Retry(w).copied <= w.copied
      /\ Retry(w).st \in {"copy", "failed"}
  BY RetryTypes DEF Retry, WorkerType
<1>5. PICK v \in WorkerType : /\ v.copied <= w.copied /\ v.st \in {"copy", "failed"}
                              /\ down' = [down EXCEPT ![d].worker[n] = v]
  BY <1>2, <1>3, <1>4
<1>6. UNCHANGED Known /\ \A k, j : Truth(k, j)' <=> Truth(k, j)
  BY <1>1 DEF Known, Truth
<1>7. Prefix(down[d].parts) => Truth(n, m + v.copied)'
  <2>1. m + v.copied \in Nat /\ m + v.copied <= m + w.copied
    BY <1>c, <1>5 DEF WorkerType
  <2> QED BY <1>c, <1>6, <2>1, TruthLess
<1>8. Resumable' /\ ~Complete(v)
  BY <1>1, <1>5, SameResumable DEF DataInv, Complete
<1>9. PartIs(d, n, m, v)
  BY <1>a, <1>b, <1>5, PartBecomes
<1> QED BY <1>c, <1>1, <1>5, <1>6, <1>7, <1>8, <1>9, PartData

-----------------------------------------------------------------------------
(* Crashes, and the theorems *)

\* A crash may leave part files empty that were being written: those of parts that
\* have a file already, or the next one that Prepare makes.
LEMMA CrashData ==
    ASSUME Core, Core', DataInv, Crash
    PROVE  DataInv'
<1>a. /\ current' = None /\ \A d \in Clients : d # None
      /\ partFile \in [Parts -> {None, Torn} \cup Nat]
  BY DownloadMarks DEF Crash, Core, FileTypeOK
<1>1. PICK keep \in NoPrune, torn \in SUBSET Saving :
        /\ partFile' = [n \in Parts |-> IF ~keep THEN None
                                        ELSE IF n \in torn THEN Torn ELSE partFile[n]]
        /\ data' = IF keep THEN data ELSE None
  BY DEF Crash
<1>2. CASE ~keep
  <2>1. Known' = {}
    BY <1>1, <1>2 DEF Known
  <2> QED BY <1>a, <2>1, OnlyEntry DEF Resumable
<1>3. CASE keep /\ \E d \in Clients : WritesParts(d)
  <2>1. \A n \in Known : partFile[n] = 0
    BY <1>3 DEF WritesParts, DataInv, DataOK, Making
  <2>2. \A n \in Known' : partFile'[n] = 0 \/ partFile'[n] = Torn
    BY <1>1, <1>3, <2>1 DEF Known
  <2> QED BY <1>a, <2>2, TruthZero, OnlyEntry DEF Resumable
<1>4. CASE keep /\ ~\E d \in Clients : WritesParts(d)
  <2>1. Saving \subseteq Known
    <3>1. ASSUME NEW n \in Parts, NEW d \in Clients, down[d].worker[n].st = "save" PROVE n \in Known
      BY <3>1, PartFacts
    <3> QED BY <1>4, <3>1 DEF Saving
  <2>2. Known' = Known
    BY <1>1, <1>4, <2>1, DownloadMarks DEF Known
  <2>3. \A n \in Known : partFile'[n] # Torn => partFile'[n] = partFile[n] /\ partFile[n] # Torn
    BY <1>1, <1>4 DEF Known
  <2>4. \A n, m : Truth(n, m)' <=> Truth(n, m)
    BY <1>1, <1>4 DEF Truth
  <2>5. Resumable'
    BY <2>2, <2>3, <2>4 DEF DataInv, Resumable, Prefix
  <2> QED BY <1>a, <2>5, OnlyEntry
<1> QED BY <1>2, <1>3, <1>4

\* The invariant of the files is inductive.
LEMMA NextData == Core /\ Core' /\ DataInv /\ [Next]_vars => DataInv'
<1> SUFFICES ASSUME Core, Core', DataInv, [Next]_vars PROVE DataInv'
  OBVIOUS
<1>1. CASE UNCHANGED vars
  BY <1>1, SameData, SameResumable DEF vars, SameWork, DataInv
<1>2. ASSUME NEW c \in Clients, Client(c) \/ WaitLeave(c) \/ WaitReport(c) PROVE DataInv'
  BY <1>2, BystanderData, LookupData, ResumeData, MakeData, GiveUpData, SpawnData DEF Client
<1>3. ASSUME NEW d \in Clients, Run(d) PROVE DataInv'
  BY <1>3, OpenData, URLData, DoneData, RemoveData, RenameData, EndData DEF Run
<1>4. ASSUME NEW d \in Clients, NEW n \in Parts, Chunk(d, n) PROVE DataInv'
  BY <1>4, ReceiveData, KeptData, SaveData, LostData DEF Chunk
<1> QED BY <1>1, <1>2, <1>3, <1>4, CrashData DEF Next

\* The invariant of the files holds.
THEOREM DataHolds == Spec => []DataInv
<1>1. Init => DataInv
  <2> SUFFICES ASSUME Init PROVE DataInv
    OBVIOUS
  <2>1. Known = {} /\ \A d \in Clients : down[d].phase = "none"
    BY DEF Init, Known, NoDownload
  <2> QED BY <2>1, OutOfPlay DEF DataInv, Resumable, Progress, Setup
<1> QED BY <1>1, NextData, CoreHolds, PTL DEF Spec

\* Whatever the part files say is there can be found in the partial file, after any
\* cancellation, failure, retry or crash, so that a download that resumes skips
\* nothing (Prepare, downloadChunk, writePart, run).
THEOREM PartFilesTrue == Spec => []PartFilesTruthful
<1>1. Resumable => PartFilesTruthful
  BY DownloadConstants DEF Resumable, PartFilesTruthful, Truth, Prefix, Parts
<1> QED BY <1>1, DataHolds, PTL DEF DataInv

\* A download that has begun to clean up returns without an error only by renaming
\* the partial file.
LEMMA CleanReturns ==
    ASSUME Core, Next, NEW d \in Clients,
           down[d].phase = "clean", down'[d].phase = "return", ~down'[d].err
    PROVE  RunRename(d)
<1>a. /\ DownTypeOK /\ RecordOK(down[d]) /\ down[d] \in DownloadType
      /\ \A c \in Clients : Place(c) /\ RecordOK(down[c])
  BY DEF Core, DownTypeOK
<1>1. ~Crash
  BY DEF Crash, NoDownload
<1>2. ASSUME NEW c \in Clients PROVE ~(Client(c) \/ WaitLeave(c) \/ WaitReport(c))
  <2>1. UNCHANGED down => FALSE
    OBVIOUS
  <2>2. ~acquire(c)
    <3>1. ASSUME NEW e, down' = [down EXCEPT ![e].references = @ + 1] PROVE FALSE
      BY <3>1, <1>a DEF DownTypeOK, DownloadType
    <3> QED BY <3>1 DEF acquire
  <2>3. ~WaitDone(c) /\ ~WaitLeave(c)
    <3>1. ASSUME NEW e, NEW can, down' = [down EXCEPT ![e].references = @ - 1, ![e].cancel = can] PROVE FALSE
      BY <3>1, <1>a DEF DownTypeOK, DownloadType
    <3> QED BY <3>1 DEF WaitDone, WaitLeave, release
  <2>4. ~Lookup(c)
    BY <1>a DEF Lookup, DownTypeOK, NoDownload
  <2>5. pc[c] = "prepare" => c # d
    BY <1>a DEF Place, Setup
  <2>6. ~PrepareResume(c) /\ ~PrepareNew(c) /\ ~PrepareFail(c) /\ ~Spawn(c)
    <3>1. c # d => ~PrepareResume(c) /\ ~PrepareNew(c) /\ ~PrepareFail(c) /\ ~Spawn(c)
      BY <1>a DEF WritesParts, PrepareResume, PrepareNew, PrepareFail, Spawn, DownTypeOK
    <3> QED BY <2>5, <3>1 DEF WritesParts, PrepareResume, PrepareNew, PrepareFail, Spawn
  <2> QED BY <2>1, <2>2, <2>3, <2>4, <2>6 DEF Client, Stat, Verify, WaitReport
<1>3. ASSUME NEW e \in Clients, NEW n \in Parts PROVE ~Chunk(e, n)
  <2>1. Chunk(e, n) => down[e].worker[n].st # "idle"
    BY DEF Chunk, Receive, SavePart, EndLost, EndKept
  <2>2. Chunk(e, n) => e # d
    BY <1>a, <2>1 DEF RecordOK, NoDownload, Idle
  <2>3. Chunk(e, n) /\ e # d => down'[d] = down[d]
    BY <1>a DEF Chunk, Receive, SavePart, EndLost, EndKept, DownTypeOK
  <2> QED BY <2>2, <2>3
<1>4. ASSUME NEW e \in Clients, Run(e), e # d PROVE FALSE
  BY <1>a, <1>4 DEF Run, RunOpen, RunURL, RunURLFail, RunChunksDone, RunRemovePart, RunRename,
                    RunFileFail, RunDelete, RunClose, Fail, DownTypeOK
<1>5. Run(d)
  BY <1>1, <1>2, <1>3, <1>4 DEF Next
<1>6. RunRemovePart(d) => down' # Fail(d) /\ \E i : down' = [down EXCEPT ![d].removed = i]
  BY <1>a DEF RunRemovePart, Fail, DownTypeOK, DownloadType
<1>7. ~RunRemovePart(d)
  BY <1>a, <1>6 DEF DownTypeOK, DownloadType
<1>8. ~RunFileFail(d)
  BY <1>a DEF RunFileFail, Fail, DownTypeOK, DownloadType
<1> QED BY <1>5, <1>7, <1>8 DEF Run, RunOpen, RunURL, RunURLFail, RunChunksDone, RunDelete, RunClose

\* A partial file is renamed only when every unit of the parts that the download
\* knows is in it (run).
THEOREM RenamesWhole == Spec => RenamedWhole
<1>1. ASSUME Core, DataInv, [Next]_vars, NEW d \in Clients,
             down[d].phase = "clean", down'[d].phase = "return", ~down'[d].err
      PROVE  \A n \in down[d].parts : \A u \in Units(n) : data[n][u] # "no"
  <2>a. DataOK(d) /\ RecordOK(down[d]) /\ down[d] \in DownloadType /\ DownTypeOK
    BY <1>1 DEF Core, DataInv, DownTypeOK
  <2>1. RunRename(d)
    BY <1>1, CleanReturns DEF vars
  <2>2. Prefix(down[d].parts)
    BY <1>1, <2>a, <2>1, PrefixAll DEF RunRename, DataOK, Clean, DownloadType
  <2> SUFFICES ASSUME NEW n \in down[d].parts, NEW u \in Units(n) PROVE data[n][u] # "no"
    OBVIOUS
  <2>3. n \in Parts /\ Size(n) \in Nat /\ down[d].completed[n] = Size(n) /\ down[d].worker[n].copied = 0
    BY <1>1, <2>a, DownloadConstants DEF DataOK, Clean, RecordOK, DownloadType, NoDownload, Idle, Parts
  <2>4. Truth(n, Size(n) + 0)
    BY <1>1, <2>a, <2>2, <2>3 DEF DataOK, Filled
  <2> QED BY <2>3, <2>4 DEF Truth, Units
<1>2. Core /\ DataInv /\ [Next]_vars =>
        [\A d \in Clients :
            down[d].phase = "clean" /\ down'[d].phase = "return" /\ ~down'[d].err =>
               \A n \in down[d].parts : \A u \in Units(n) : data[n][u] # "no"]_vars
  BY <1>1
<1> QED BY <1>2, CoreHolds, DataHolds, PTL DEF RenamedWhole, Spec
=============================================================================
