---------------------------- MODULE BlobDownload ----------------------------
(***************************************************************************)
(* The download of one blob (server/download.go) by several pulls at once, *)
(* and what PullModel does with it (server/images.go).  The first client   *)
(* prepares the download and starts it; the others join it.  The blob is   *)
(* fetched in parts into a partial file; beside it, a part file for each   *)
(* part says how much of it is there.  When every part is complete, the    *)
(* part files are removed and the partial file is renamed.                 *)
(*                                                                         *)
(* A download is named by the client that started it.  The files survive a *)
(* crash, everything else does not.                                        *)
(***************************************************************************)
EXTENDS Integers, FiniteSets

CONSTANTS
    Clients,        \* pulls of the blob
    NumParts,       \* parts of the blob
    Size(_),        \* units of data in a part; the last one may be smaller
    MaxTries,       \* maxRetries: attempts that may fail in a part
    MaxFaults,      \* failures of the network or the disk (bound)
    MaxCrashes,     \* crashes of the server (bound)
    NoPrune,        \* values of OLLAMA_NOPRUNE
    PrepareFails,   \* whether Prepare may fail
    Torn,           \* a part file without contents
    None

ASSUME DownloadConstants ==
    /\ {NumParts, MaxTries} \subseteq Nat \ {0}
    /\ \A n \in 0 .. NumParts - 1 : Size(n) \in Nat \ {0}
    /\ {MaxFaults, MaxCrashes} \subseteq Nat
    /\ NoPrune \subseteq BOOLEAN /\ PrepareFails \in BOOLEAN
    /\ IsFiniteSet(Clients)

Parts == 0 .. NumParts - 1
Units(n) == 0 .. Size(n) - 1

\* What the partial file can hold, and what a pull and a transfer can end with.
Contents == [Parts -> UNION {[Units(n) -> {"no", "ok", "bad"}] : n \in Parts}]
Outcomes == {"ok", "err", "hit", "gone", "good", "bad"}

ASSUME DownloadMarks ==
    /\ None \notin Clients \cup Nat \cup Contents \cup Outcomes
    /\ Torn \notin Nat \cup {None}

VARIABLES
    blob,           \* the blob: None, "good", or "bad"
    data,           \* the partial file: None, or what every unit of a part holds
    partFile,       \* what a part file says: None, Torn, or a number of units
    current,        \* blobDownloadManager: the download in progress, or None
    down,           \* down[d]: the download that d started
    pc, mine,       \* a client's place, and the download it waits for
    faults, crashes,
    panic

files == <<blob, data, partFile>>
vars  == <<files, current, down, pc, mine, faults, crashes, panic>>

Idle == [st |-> "idle", copied |-> 0, tries |-> 0, then |-> "idle"]
NoDownload ==
    [phase |-> "none", parts |-> {}, completed |-> [n \in Parts |-> 0],
     worker |-> [n \in Parts |-> Idle], references |-> 0, cancel |-> "nil",
     err |-> FALSE, removed |-> 0, closed |-> FALSE]

Init ==
    /\ blob = None /\ data = None
    /\ partFile = [n \in Parts |-> None]
    /\ current = None
    /\ down = [d \in Clients |-> NoDownload]
    /\ pc = [c \in Clients |-> "idle"]
    /\ mine = [c \in Clients |-> None]
    /\ faults = 0 /\ crashes = 0
    /\ panic = FALSE

Fault == faults < MaxFaults /\ faults' = faults + 1
Live  == ~panic

\* What remains of a download that nobody works on any more.
Ended(d, phase) ==
    [NoDownload EXCEPT !.phase = phase, !.references = down[d].references,
                       !.cancel = down[d].cancel, !.err = down[d].err]

-----------------------------------------------------------------------------
(* downloadBlob *)

\* os.Stat: a blob that is there is taken as it is, and not verified.
Stat(c) ==
    /\ Live
    /\ pc[c] = "idle"
    /\ pc' = [pc EXCEPT ![c] = IF blob # None THEN "ok" ELSE "lookup"]
    /\ UNCHANGED <<files, current, down, mine, faults, crashes, panic>>

\* Mutant: the entry is stored without looking whether there is one.
LookupStores(c) ==
    /\ Live
    /\ pc[c] = "lookup"
    /\ mine' = [mine EXCEPT ![c] = c]
    /\ pc' = [pc EXCEPT ![c] = "prepare"]
    /\ current' = c
    /\ down' = [down EXCEPT ![c] = [NoDownload EXCEPT !.phase = "prepare"]]
    /\ UNCHANGED <<files, faults, crashes, panic>>

\* LoadOrStore: join the download in progress, or prepare a new one.
Lookup(c) ==
    /\ Live
    /\ pc[c] = "lookup"
    /\ IF current # None
       THEN /\ mine' = [mine EXCEPT ![c] = current]
            /\ pc' = [pc EXCEPT ![c] = "join"]
            /\ UNCHANGED <<current, down>>
       ELSE /\ mine' = [mine EXCEPT ![c] = c]
            /\ pc' = [pc EXCEPT ![c] = "prepare"]
            /\ current' = c
            /\ down' = [down EXCEPT ![c] = [NoDownload EXCEPT !.phase = "prepare"]]
    /\ UNCHANGED <<files, faults, crashes, panic>>

Known == {n \in Parts : partFile[n] # None}

\* Prepare finds part files: the download goes on from what they say.
PrepareResume(c) ==
    /\ Live
    /\ pc[c] = "prepare" /\ down[c].phase = "prepare"
    /\ Known # {} /\ \A n \in Known : partFile[n] # Torn
    /\ down' = [down EXCEPT ![c].phase = "prepared", ![c].parts = Known,
                            ![c].completed = [n \in Parts |-> IF n \in Known THEN partFile[n] ELSE 0]]
    /\ UNCHANGED <<files, current, pc, mine, faults, crashes, panic>>

\* Prepare finds none: it asks for the size and writes the part files, one
\* after the other.
WritesParts(c) ==
    /\ pc[c] = "prepare"
    /\ \/ down[c].phase = "prepare" /\ Known = {}
       \/ down[c].phase = "parts"

PrepareNew(c) ==
    /\ Live
    /\ WritesParts(c)
    /\ LET n == Cardinality(down[c].parts)
       IN  /\ partFile' = [partFile EXCEPT ![n] = 0]
           /\ down' = [down EXCEPT ![c].parts = @ \cup {n},
                                   ![c].phase = IF n + 1 = NumParts THEN "prepared" ELSE "parts"]
    /\ UNCHANGED <<blob, data, current, pc, mine, faults, crashes, panic>>

\* Prepare fails: on a part file it cannot read, on its request, or on a part
\* file it cannot write.  Nobody closes the done channel of this download.
PrepareFail(c) ==
    /\ Live
    /\ \/ /\ pc[c] = "prepare" /\ down[c].phase = "prepare"
          /\ \/ \E n \in Known : partFile[n] = Torn
             \/ PrepareFails /\ Known = {}
          /\ UNCHANGED <<partFile, faults>>
       \/ /\ WritesParts(c)
          /\ Fault
          /\ \E left \in {None, Torn} :
                partFile' = [partFile EXCEPT ![Cardinality(down[c].parts)] = left]
    /\ current' = None
    /\ down' = [down EXCEPT ![c] = Ended(c, "failed")]
    /\ pc' = [pc EXCEPT ![c] = "err"]
    /\ UNCHANGED <<blob, data, mine, crashes, panic>>

\* go download.Run: before the client that starts it counts as a reference.
Spawn(c) ==
    /\ Live
    /\ pc[c] = "prepare" /\ down[c].phase = "prepared"
    /\ down' = [down EXCEPT ![c].phase = "start"]
    /\ pc' = [pc EXCEPT ![c] = "join"]
    /\ UNCHANGED <<files, current, mine, faults, crashes, panic>>

-----------------------------------------------------------------------------
(* Wait *)

acquire(c) ==
    /\ Live
    /\ pc[c] = "join"
    /\ down' = [down EXCEPT ![mine[c]].references = @ + 1]
    /\ pc' = [pc EXCEPT ![c] = "wait"]
    /\ UNCHANGED <<files, current, mine, faults, crashes, panic>>

\* The last one to leave cancels the download.  CancelFunc is nil until run
\* has set it, and calling it ends the process.
release(d) ==
    /\ down' = [down EXCEPT ![d].references = @ - 1,
                            ![d].cancel = IF down[d].references = 1 /\ @ = "set" THEN "called" ELSE @]
    /\ panic' = (down[d].references = 1 /\ down[d].cancel = "nil")

WaitDone(c) ==
    /\ Live
    /\ pc[c] = "wait" /\ down[mine[c]].closed
    /\ release(mine[c])
    /\ pc' = [pc EXCEPT ![c] = IF down[mine[c]].err THEN "err" ELSE "verify"]
    /\ UNCHANGED <<files, current, mine, faults, crashes>>

\* Mutant: a client that leaves is not counted out.
WaitLeaveUncounted(c) ==
    /\ Live
    /\ pc[c] = "wait"
    /\ pc' = [pc EXCEPT ![c] = "gone"]
    /\ UNCHANGED <<files, current, down, mine, faults, crashes, panic>>

WaitLeave(c) ==
    /\ Live
    /\ pc[c] = "wait"
    /\ release(mine[c])
    /\ pc' = [pc EXCEPT ![c] = "gone"]
    /\ UNCHANGED <<files, current, mine, faults, crashes>>

\* The client is gone while Wait reports progress: nobody receives from the
\* channel of PullHandler any more, and Wait blocks with its reference.
WaitReport(c) ==
    /\ Live
    /\ pc[c] = "wait"
    /\ pc' = [pc EXCEPT ![c] = "stuck"]
    /\ UNCHANGED <<files, current, down, mine, faults, crashes, panic>>

\* PullModel: what was downloaded is verified, and removed if it is wrong.
Verify(c) ==
    /\ Live
    /\ pc[c] = "verify"
    /\ pc' = [pc EXCEPT ![c] = IF blob = "good" THEN "ok" ELSE "bad"]
    /\ blob' = IF blob = "bad" THEN None ELSE blob
    /\ UNCHANGED <<data, partFile, current, down, mine, faults, crashes, panic>>

-----------------------------------------------------------------------------
(* run *)

Fail(d) == [down EXCEPT ![d].phase = "return", ![d].err = TRUE]

\* Mutant: the partial file is emptied when it is opened.
RunOpenTruncates(d) ==
    /\ Live
    /\ down[d].phase = "start"
    /\ data' = [n \in Parts |-> [u \in Units(n) |-> "no"]]
    /\ down' = [down EXCEPT ![d].cancel = "set", ![d].phase = "url"]
    /\ UNCHANGED <<blob, partFile, current, pc, mine, faults, crashes, panic>>

\* Mutant: CancelFunc is not set before the first request.
RunOpenNoCancel(d) ==
    /\ Live
    /\ down[d].phase = "start"
    /\ data' = [n \in Parts |-> [u \in Units(n) |->
                  IF data = None \/ n >= Cardinality(down[d].parts) THEN "no" ELSE data[n][u]]]
    /\ down' = [down EXCEPT ![d].phase = "url"]
    /\ UNCHANGED <<blob, partFile, current, pc, mine, faults, crashes, panic>>

\* Mutant: the entry of the download is removed at once, not when run ends.
RunOpenDeletes(d) ==
    /\ Live
    /\ down[d].phase = "start"
    /\ data' = [n \in Parts |-> [u \in Units(n) |->
                  IF data = None \/ n >= Cardinality(down[d].parts) THEN "no" ELSE data[n][u]]]
    /\ down' = [down EXCEPT ![d].cancel = "set", ![d].phase = "url"]
    /\ current' = None
    /\ UNCHANGED <<blob, partFile, pc, mine, faults, crashes, panic>>

\* The partial file is opened and cut to the size that the parts add up to.  (Of
\* a set of part files with a gap the size may end within a part; such a download
\* fails when it removes the part file that is not there.)
RunOpen(d) ==
    /\ Live
    /\ down[d].phase = "start"
    /\ data' = [n \in Parts |-> [u \in Units(n) |->
                  IF data = None \/ n >= Cardinality(down[d].parts) THEN "no" ELSE data[n][u]]]
    /\ down' = [down EXCEPT ![d].cancel = "set", ![d].phase = "url"]
    /\ UNCHANGED <<blob, partFile, current, pc, mine, faults, crashes, panic>>

\* The direct URL is known, and a goroutine starts for each incomplete part.
RunURL(d) ==
    /\ Live
    /\ down[d].phase = "url" /\ down[d].cancel = "set"
    /\ down' = [down EXCEPT ![d].phase = "chunks",
                            ![d].worker = [n \in Parts |->
                                IF n \in down[d].parts /\ down[d].completed[n] < Size(n)
                                THEN [Idle EXCEPT !.st = "copy"] ELSE Idle]]
    /\ UNCHANGED <<files, current, pc, mine, faults, crashes, panic>>

RunURLFail(d) ==
    /\ Live
    /\ down[d].phase = "url"
    /\ IF down[d].cancel = "called" THEN UNCHANGED faults ELSE Fault
    /\ down' = Fail(d)
    /\ UNCHANGED <<files, current, pc, mine, crashes, panic>>

Busy(d)      == {n \in Parts : down[d].worker[n].st \in {"copy", "save"}}
Broken(d)    == \E n \in Parts : down[d].worker[n].st = "failed"
Cancelled(d) == down[d].cancel = "called" \/ Broken(d)
Unfinished(d) == \E n \in Parts : down[d].worker[n].st \in {"failed", "stopped"}

\* Mutant: every attempt asks for the whole part.
ReceiveWhole(d, n) ==
    LET w == down[d].worker[n]
        u == down[d].completed[n] + w.copied
    IN  /\ Live
        /\ w.st = "copy" /\ w.copied < Size(n)
        /\ data' = [data EXCEPT ![n] = [v \in Units(n) |-> IF v = u THEN "ok" ELSE @[v]]]
        /\ down' = [down EXCEPT ![d].worker[n].copied = @ + 1]
        /\ UNCHANGED <<blob, partFile, current, pc, mine, faults, crashes, panic>>

\* downloadChunk: a unit arrives and is written to the partial file.
Receive(d, n) ==
    LET w == down[d].worker[n]
        u == down[d].completed[n] + w.copied
    IN  /\ Live
        /\ w.st = "copy" /\ u < Size(n)
        /\ \/ data' = [data EXCEPT ![n][u] = "ok"] /\ UNCHANGED faults
           \/ data' = [data EXCEPT ![n][u] = "bad"] /\ Fault
        /\ down' = [down EXCEPT ![d].worker[n].copied = @ + 1]
        /\ UNCHANGED <<blob, partFile, current, pc, mine, crashes, panic>>

\* The attempt ends in a way that keeps what was copied: it is complete, the
\* context was cancelled, the part stalled, or the connection was closed early.
\* then is what the goroutine does once the part file is written.
EndKept(d, n, then) ==
    LET w == down[d].worker[n]
    IN  /\ Live
        /\ w.st = "copy"
        /\ CASE then = "done"    -> down[d].completed[n] + w.copied = Size(n) /\ UNCHANGED faults
             [] then = "stopped" -> Cancelled(d) /\ UNCHANGED faults
             [] then = "copy"    -> Fault
             [] then = "retry"   -> Fault
        /\ down' = [down EXCEPT ![d].completed[n] = @ + w.copied,
                                ![d].worker[n] = [w EXCEPT !.st = "save", !.copied = 0, !.then = then]]
        /\ UNCHANGED <<files, current, pc, mine, crashes, panic>>

Retry(w) == IF w.tries + 1 = MaxTries THEN [w EXCEPT !.st = "failed"]
            ELSE [w EXCEPT !.st = "copy", !.copied = 0, !.tries = @ + 1]

\* writePart.  A part that is complete counts as cancelled if the context ends
\* before the goroutine that watches for stalls has seen it complete.  If the
\* write fails the part file is left empty, or as it was if it cannot be opened,
\* and a full disk is final; a part that stalled goes on, since the stall was the
\* first error.
SavePart(d, n) ==
    LET w == down[d].worker[n]
    IN  /\ Live
        /\ w.st = "save"
        /\ \/ /\ partFile' = [partFile EXCEPT ![n] = down[d].completed[n]]
              /\ \/ down' = [down EXCEPT ![d].worker[n] =
                                IF w.then = "retry" THEN Retry(w) ELSE [w EXCEPT !.st = w.then]]
                 \/ /\ w.then = "done" /\ Cancelled(d)
                    /\ down' = [down EXCEPT ![d].worker[n].st = "stopped"]
              /\ UNCHANGED faults
           \/ /\ Fault
              /\ \E left \in {partFile[n], Torn} : partFile' = [partFile EXCEPT ![n] = left]
              /\ \/ down' = [down EXCEPT ![d].worker[n] =
                                IF w.then = "copy" THEN [w EXCEPT !.st = "copy"] ELSE Retry(w)]
                 \/ /\ w.then # "copy"
                    /\ down' = [down EXCEPT ![d].worker[n].st = "failed"]
        /\ UNCHANGED <<blob, data, current, pc, mine, crashes, panic>>

\* Any other error: what was copied does not count.  A full disk is final.
EndLost(d, n) ==
    LET w == down[d].worker[n]
    IN  /\ Live
        /\ w.st = "copy"
        /\ Fault
        /\ \/ down' = [down EXCEPT ![d].worker[n] = Retry(w)]
           \/ down' = [down EXCEPT ![d].worker[n] = [w EXCEPT !.st = "failed"]]
        /\ UNCHANGED <<files, current, pc, mine, crashes, panic>>

\* Mutant: the error of g.Wait is ignored.
RunChunksDoneUnchecked(d) ==
    /\ Live
    /\ down[d].phase = "chunks" /\ Busy(d) = {}
    /\ down' = [down EXCEPT ![d].worker = NoDownload.worker, ![d].phase = "clean"]
    /\ UNCHANGED <<files, current, pc, mine, faults, crashes, panic>>

\* g.Wait: when every goroutine has ended.
RunChunksDone(d) ==
    /\ Live
    /\ down[d].phase = "chunks" /\ Busy(d) = {}
    /\ down' = [down EXCEPT ![d].worker = NoDownload.worker,
                            ![d].phase = IF Unfinished(d) THEN "return" ELSE "clean",
                            ![d].err = Unfinished(d)]
    /\ UNCHANGED <<files, current, pc, mine, faults, crashes, panic>>

\* The part files are removed by their index, one by one.
RunRemovePart(d) ==
    LET i == down[d].removed
    IN  /\ Live
        /\ down[d].phase = "clean" /\ i < Cardinality(down[d].parts)
        /\ IF partFile[i] = None
           THEN down' = Fail(d) /\ UNCHANGED partFile
           ELSE /\ partFile' = [partFile EXCEPT ![i] = None]
                /\ down' = [down EXCEPT ![d].removed = i + 1]
        /\ UNCHANGED <<blob, data, current, pc, mine, faults, crashes, panic>>

RunRename(d) ==
    /\ Live
    /\ down[d].phase = "clean" /\ down[d].removed = Cardinality(down[d].parts)
    /\ blob' = IF \A n \in Parts : \A u \in Units(n) : data[n][u] = "ok" THEN "good" ELSE "bad"
    /\ data' = None
    /\ down' = [down EXCEPT ![d].phase = "return"]
    /\ UNCHANGED <<partFile, current, pc, mine, faults, crashes, panic>>

\* The partial file cannot be opened, a part file cannot be removed, or the
\* partial file cannot be renamed.
RunFileFail(d) ==
    /\ Live
    /\ down[d].phase \in {"start", "clean"}
    /\ Fault
    /\ down' = [Fail(d) EXCEPT ![d].cancel = IF @ = "nil" THEN "set" ELSE @]
    /\ UNCHANGED <<files, current, pc, mine, crashes, panic>>

\* The deferred Delete of run, and then the deferred close of Run.
RunDelete(d) ==
    /\ Live
    /\ down[d].phase = "return"
    /\ current' = None
    /\ down' = [down EXCEPT ![d] = Ended(d, "deleted")]
    /\ UNCHANGED <<files, pc, mine, faults, crashes, panic>>

\* Mutant: the done channel is closed only after a success.
RunCloseOnSuccess(d) ==
    /\ Live
    /\ down[d].phase = "deleted"
    /\ down' = [down EXCEPT ![d].phase = "end", ![d].closed = ~down[d].err]
    /\ UNCHANGED <<files, current, pc, mine, faults, crashes, panic>>

RunClose(d) ==
    /\ Live
    /\ down[d].phase = "deleted"
    /\ down' = [down EXCEPT ![d].phase = "end", ![d].closed = TRUE]
    /\ UNCHANGED <<files, current, pc, mine, faults, crashes, panic>>

-----------------------------------------------------------------------------
\* The server dies and starts again.  A part file that is being written may be
\* left empty.  Unless it is told not to, Serve prunes the blobs: partial
\* downloads, and the blob, which no manifest names yet.
Saving == {n \in Parts : \E d \in Clients : down[d].worker[n].st = "save"}
              \cup {Cardinality(down[d].parts) : d \in {e \in Clients : WritesParts(e)}}

Crash ==
    /\ crashes < MaxCrashes
    /\ crashes' = crashes + 1
    /\ \E keep \in NoPrune, torn \in SUBSET Saving :
        /\ partFile' = [n \in Parts |-> IF ~keep THEN None
                                        ELSE IF n \in torn THEN Torn ELSE partFile[n]]
        /\ data' = IF keep THEN data ELSE None
        /\ blob' = IF keep THEN blob ELSE None
    /\ current' = None
    /\ down' = [d \in Clients |-> NoDownload]
    /\ pc' = [c \in Clients |-> "idle"]
    /\ mine' = [c \in Clients |-> None]
    /\ panic' = FALSE
    /\ UNCHANGED faults

Client(c) ==
    \/ Stat(c) \/ Lookup(c) \/ PrepareResume(c) \/ PrepareNew(c) \/ PrepareFail(c) \/ Spawn(c)
    \/ acquire(c) \/ WaitDone(c) \/ Verify(c)

Chunk(d, n) ==
    \/ Receive(d, n) \/ SavePart(d, n) \/ EndLost(d, n)
    \/ \E then \in {"done", "stopped", "copy", "retry"} : EndKept(d, n, then)

Run(d) ==
    \/ RunOpen(d) \/ RunURL(d) \/ RunURLFail(d) \/ RunChunksDone(d)
    \/ RunRemovePart(d) \/ RunRename(d) \/ RunFileFail(d) \/ RunDelete(d) \/ RunClose(d)

Next ==
    \/ \E c \in Clients : Client(c) \/ WaitLeave(c) \/ WaitReport(c) \/ Run(c)
    \/ \E d \in Clients, n \in Parts : Chunk(d, n)
    \/ Crash

Spec == Init /\ [][Next]_vars

\* Every goroutine runs on, and data keeps coming in.
FairSpec ==
    /\ Spec
    /\ \A c \in Clients : WF_vars(Client(c)) /\ WF_vars(Run(c))
    /\ \A d \in Clients, n \in Parts : WF_vars(Chunk(d, n))

-----------------------------------------------------------------------------
(* The pulls as they appear from outside *)

Outcome(d) == CASE down[d].phase = "failed"             -> "err"
                [] down[d].phase \in {"deleted", "end"} -> IF down[d].err THEN "err" ELSE "ok"
                [] OTHER                                -> None
Result(c) == CASE pc[c] = "ok" /\ mine[c] = None -> "hit"
               [] pc[c] = "ok" /\ mine[c] # None -> "ok"
               [] pc[c] \in {"verify", "bad"}    -> "ok"
               [] pc[c] \in {"gone", "stuck"}    -> "gone"
               [] pc[c] = "err"                  -> "err"
               [] OTHER                          -> None

Shared == INSTANCE SharedTransfer
    WITH open    <- current,
         outcome <- [d \in Clients |-> Outcome(d)],
         member  <- mine,
         result  <- [c \in Clients |-> Result(c)]

-----------------------------------------------------------------------------
(* Properties *)

WorkerType ==
    [st : {"idle", "copy", "save", "done", "stopped", "failed"}, copied : Nat, tries : Nat,
     then : {"idle", "done", "stopped", "copy", "retry"}]
DownloadType ==
    [phase : {"none", "prepare", "parts", "prepared", "start", "url", "chunks", "clean",
              "return", "deleted", "end", "failed"},
     parts : SUBSET Parts, completed : [Parts -> Nat], worker : [Parts -> WorkerType],
     references : Int, cancel : {"nil", "set", "called"}, err : BOOLEAN, removed : Nat,
     closed : BOOLEAN]
Places == {"idle", "lookup", "prepare", "join", "wait", "verify", "ok", "bad", "err", "gone",
           "stuck"}

FileTypeOK ==
    /\ blob \in {None, "good", "bad"}
    /\ data = None \/ /\ data \in Contents
                      /\ \A n \in Parts : data[n] \in [Units(n) -> {"no", "ok", "bad"}]
    /\ partFile \in [Parts -> {None, Torn} \cup Nat]

DownTypeOK ==
    /\ current \in Clients \cup {None}
    /\ down \in [Clients -> DownloadType]
    /\ pc \in [Clients -> Places]
    /\ mine \in [Clients -> Clients \cup {None}]
    /\ faults \in 0 .. MaxFaults /\ crashes \in 0 .. MaxCrashes /\ panic \in BOOLEAN

\* Nothing counts further than what there is to count: the units of a part,
\* the clients, the part files.
Bounded ==
    /\ \A n \in Parts : partFile[n] \in {None, Torn} \cup (0 .. Size(n))
    /\ \A d \in Clients :
        /\ \A n \in Parts : down[d].completed[n] + down[d].worker[n].copied \in 0 .. Size(n)
        /\ down[d].references \in 0 .. Cardinality(Clients)
        /\ down[d].removed \in 0 .. NumParts

\* Types: places, files and records are what they should be, and no counter
\* exceeds what it counts.
TypeOK == FileTypeOK /\ DownTypeOK /\ Bounded

Active(d) == down[d].phase \in {"start", "url", "chunks", "clean", "return"}

\* At most one download works on the files of the blob, whoever joins, leaves,
\* cancels or starts over: run gives up its entry only when its goroutines have
\* ended.
SingleWriter ==
    \A d, e \in Clients : /\ Active(d) /\ Active(e) => d = e
                          /\ Active(d) => current = d

\* Whatever the part files say is there can be found in the partial file, after
\* any cancellation, failure or crash, so that a download that resumes does not
\* skip anything.  (A crash between the first and the last of several part files
\* being made or removed leaves a set that is incomplete: nothing is said then.)
PartFilesTruthful ==
    Known = Parts =>
        \A n \in Parts : partFile[n] # Torn =>
            \A u \in 0 .. partFile[n] - 1 : data # None /\ data[n][u] # "no"

\* A partial file is renamed only when every unit of the parts that the
\* download knows is in it: nothing is skipped by resuming, retrying or joining.
RenamedWhole ==
    [][\A d \in Clients :
         down[d].phase = "clean" /\ down'[d].phase = "return" /\ ~down'[d].err =>
            \A n \in down[d].parts : \A u \in Units(n) : data[n][u] # "no"]_vars

\* The references of a download are the pulls that are inside Wait, so the last
\* one to leave, and nobody else, cancels it.
ReferencesExact ==
    \A d \in Clients :
        down[d].references = Cardinality({c \in Clients : pc[c] \in {"wait", "stuck"} /\ mine[c] = d})

\* The downloads of a blob, their joins, cancellations, failures and restarts
\* implement one shared transfer: nobody starts a second one beside it, and
\* everybody is told the outcome of the one he joined, although the entry of
\* the map, err and the done channel change at different times.
ImplementsSharedTransfer == Shared!Spec

\* Clients that wait for a download that was prepared are answered: again and
\* again there comes a time when no such client is left (each of the finitely
\* many clients waits once).
AwaitsPrepared(c) ==
    pc[c] = "wait" /\ down[mine[c]].phase \notin {"prepare", "parts", "failed"}
PreparedAnswers == []<>(panic \/ ~\E c \in Clients : AwaitsPrepared(c))

\* CancelFunc is called before it is set only by a client that leaves before
\* run has begun: once run has begun, or has ended, leaving is safe.
CancelSetByRun ==
    panic => \E d \in Clients : /\ down[d].cancel = "nil" /\ down[d].references = 0
                               /\ down[d].phase \in {"prepare", "parts", "prepared", "start", "failed"}

\* Every call that joins a download comes back ("multiple calls will share the
\* same download progress"), unless the server dies.
JoinedReturns == \A c \in Clients : pc[c] = "wait" ~> (pc[c] # "wait" \/ panic)
=============================================================================
