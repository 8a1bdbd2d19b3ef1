-------------------------- MODULE ModelStoreProofs --------------------------
(***************************************************************************)
(* Proofs about ModelStore: type correctness, and that the layers of the   *)
(* models are lost or wrong only for the reasons that the history          *)
(* variables record.                                                       *)
(***************************************************************************)
EXTENDS ModelStore, TLAPS

-----------------------------------------------------------------------------
(* The inductive invariant *)

\* What an operation has in hand at each point.
Shape(p) ==
    /\ proc[p].pc \in {"fetch", "download", "write", "contents", "copy", "copying", "delete"}
          => proc[p].name \in Names
    /\ proc[p].pc \in {"fetch", "download", "new", "write", "contents"} \/ proc[p].then = "new"
          => proc[p].want \in Manifest /\ proc[p].want \subseteq proc[p].held \cup proc[p].todo
    /\ proc[p].pc \in {"write", "contents"} => proc[p].todo = {}
    /\ proc[p].pc = "new" \/ proc[p].then = "new" => \E l \in Layers : proc[p].todo = {l}
    /\ proc[p].pc = "new" \/ proc[p].then = "new" => proc[p].held \cap proc[p].drop = {}
    /\ proc[p].then = "new" => proc[p].pc \in {"glob", "scan"}
    /\ proc[p].pc \in {"glob", "scan"} => proc[p].held \cap proc[p].cand = {}
    /\ proc[p].pc \in {"delete", "copy", "copying", "idle"} => proc[p].held = {}
    /\ proc[p].pc = "scan" => proc[p].left \subseteq Names
    /\ proc[p].pc \notin {"fetch", "download"} => proc[p].fresh = {}
    /\ proc[p].pc \notin {"copy", "copying"} => proc[p].src = None
    /\ proc[p].pc \in {"copy", "copying"} /\ proc[p].src # None => mf[proc[p].src] # None
    /\ proc[p].pc \in {"copy", "copying"} /\ proc[p].src = None
          => proc[p].want \in {Torn} \cup Manifest

Shapes == \A p \in Procs : Shape(p)

\* A layer that an operation relies on is there.
HeldThere == ~raced => \A p \in Procs : \A l \in Held(p) : blob[l] # None

\* A manifest that a removal has passed does not name what is to be removed.
ScanSees ==
    ~raced => \A p \in Procs : At(p, "scan") =>
                 \A l \in proc[p].cand : \A n \in Names : l \in Content(n) => n \in proc[p].left

\* A race is recorded at once.
Recorded == ~raced => ~Overlap

\* The pull that left a wrong blob is there to verify it.
WrongIsFresh ==
    ~abandoned => \A l \in Layers : blob[l] = "bad" => \E p \in Procs : l \in proc[p].fresh


-----------------------------------------------------------------------------
(* Types and shapes *)

TypeInv == TypeOK /\ Shapes

\* Initially every operation is idle.
LEMMA InitType == Init => TypeInv
<1> SUFFICES ASSUME Init PROVE TypeInv
  OBVIOUS
<1>1. NoProc \in ProcType
  BY DEF NoProc, ProcType
<1>2. TypeOK
  <2>1. /\ mf \in [Names -> {None, Torn} \cup Manifest]
        /\ blob \in [Layers -> {None, "good", "bad"}]
        /\ proc \in [Procs -> ProcType]
    BY <1>1 DEF Init
  <2>2. /\ ops \in 0 .. MaxOps /\ faults \in 0 .. MaxFaults /\ crashes \in 0 .. MaxCrashes
    <3>1. MaxOps \in Nat /\ MaxFaults \in Nat /\ MaxCrashes \in Nat
      BY StoreConstants
    <3>2. ops = 0 /\ faults = 0 /\ crashes = 0
      BY DEF Init
    <3> QED
      BY <3>1, <3>2
  <2>3. raced \in BOOLEAN /\ abandoned \in BOOLEAN
    BY DEF Init
  <2> QED
    BY <2>1, <2>2, <2>3 DEF TypeOK
<1>3. Shapes
  BY StoreConstants DEF Init, Shapes, Shape, NoProc
<1> QED
  BY <1>2, <1>3 DEF TypeInv

\* The history variables are Booleans.
LEMMA HistoryType ==
    ASSUME TypeInv, History PROVE raced' \in BOOLEAN /\ abandoned' \in BOOLEAN
BY DEF TypeInv, TypeOK, History

\* A step of one operation that removes no manifest leaves the others as they
\* were.
LEMMA Others ==
    ASSUME TypeInv, NEW p \in Procs,
           proc' \in [Procs -> ProcType],
           \A q \in Procs \ {p} : proc'[q] = proc[q],
           \A n \in Names : mf[n] # None => mf'[n] # None,
           Shape(p)'
    PROVE  Shapes'
<1> SUFFICES ASSUME NEW q \in Procs, q # p PROVE Shape(q)'
  BY DEF Shapes
<1>1. proc'[q] = proc[q] /\ Shape(q) /\ proc[q].src \in {None} \cup Names
  BY DEF TypeInv, TypeOK, Shapes, ProcType
<1> QED
  BY <1>1 DEF Shape

\* A step that puts one record in the place of another.
LEMMA Update ==
    ASSUME TypeInv, NEW p \in Procs, NEW r \in ProcType, proc' = [proc EXCEPT ![p] = r]
    PROVE  /\ proc' \in [Procs -> ProcType]
           /\ \A q \in Procs \ {p} : proc'[q] = proc[q]
           /\ proc'[p] = r
BY DEF TypeInv, TypeOK

\* The end of an operation.
LEMMA EndType ==
    ASSUME TypeInv, NEW p \in Procs, End(p)
    PROVE  /\ proc' \in [Procs -> ProcType]
           /\ \A q \in Procs \ {p} : proc'[q] = proc[q]
           /\ proc'[p] = NoProc
           /\ Shape(p)'
<1>1. NoProc \in ProcType
  BY DEF NoProc, ProcType
<1>2. /\ proc' \in [Procs -> ProcType]
      /\ \A q \in Procs \ {p} : proc'[q] = proc[q]
      /\ proc'[p] = NoProc
  BY <1>1 DEF TypeInv, TypeOK, End
<1> QED
  BY <1>2, StoreConstants DEF Shape, NoProc

\* The layers of a manifest are layers.
LEMMA ContentType == TypeInv => \A n \in Names : Content(n) \in SUBSET Layers
BY DEF TypeInv, TypeOK, Content, Whole, Manifest

\* A set of layers that is not empty can be the contents of a manifest.
LEMMA NonEmptyType ==
    ASSUME NEW set, set \subseteq Layers, NEW l \in set PROVE set \in Manifest
BY DEF Manifest

\* A pull begins with everything to do.
LEMMA PullType ==
    ASSUME TypeInv, NEW p \in Procs, NEW n \in Names, NEW layers \in Manifest, Pull(p, n, layers)
    PROVE  TypeInv'
<1> DEFINE r == [NoProc EXCEPT !.pc = "fetch", !.name = n, !.want = layers,
                               !.todo = layers, !.old = Content(n)]
<1>1. r \in ProcType
  BY ContentType DEF NoProc, ProcType, Manifest
<1>2. /\ proc' \in [Procs -> ProcType]
      /\ \A q \in Procs \ {p} : proc'[q] = proc[q]
      /\ proc'[p] = r
  BY <1>1 DEF Pull, TypeInv, TypeOK
<1>3. Shape(p)'
  BY <1>2 DEF Shape, NoProc, Manifest
<1>4. Shapes'
  BY <1>2, <1>3, Others DEF Pull
<1>5. TypeOK'
  BY <1>2, HistoryType, StoreConstants DEF Pull, Begin, TypeOK, TypeInv
<1> QED
  BY <1>4, <1>5 DEF TypeInv

\* A blob that is there is relied on; another one is downloaded.
LEMMA PullStatType ==
    ASSUME TypeInv, NEW p \in Procs, NEW l \in Layers, PullStat(p, l)
    PROVE  TypeInv'
<1>1. Shape(p) /\ proc[p] \in ProcType
  BY DEF TypeInv, TypeOK, Shapes
<1>2. /\ proc' \in [Procs -> ProcType]
      /\ \A q \in Procs \ {p} : proc'[q] = proc[q]
      /\ Shape(p)'
  <2>1. CASE blob[l] # None
    <3> DEFINE r == [proc[p] EXCEPT !.todo = @ \ {l}, !.held = @ \cup {l}]
    <3>1. r \in ProcType
      BY <1>1, ContentType DEF PullStat, ProcType
    <3>2. proc' = [proc EXCEPT ![p] = r]
      BY <2>1 DEF PullStat, TypeInv, TypeOK, ProcType
    <3>3. /\ proc' \in [Procs -> ProcType]
          /\ \A q \in Procs \ {p} : proc'[q] = proc[q]
          /\ proc'[p] = r
      BY <3>1, <3>2, Update
    <3>4. Shape(p)'
      BY <1>1, <2>1, <3>3 DEF PullStat, At, Shape, ProcType, Manifest
    <3> QED
      BY <3>3, <3>4
  <2>2. CASE blob[l] = None
    <3> DEFINE r == [proc[p] EXCEPT !.pc = "download", !.left = {l}]
    <3>1. r \in ProcType
      BY <1>1, ContentType DEF PullStat, ProcType
    <3>2. proc' = [proc EXCEPT ![p] = r]
      BY <2>2 DEF PullStat, TypeInv, TypeOK, ProcType
    <3>3. /\ proc' \in [Procs -> ProcType]
          /\ \A q \in Procs \ {p} : proc'[q] = proc[q]
          /\ proc'[p] = r
      BY <3>1, <3>2, Update
    <3>4. Shape(p)'
      BY <1>1, <2>2, <3>3 DEF PullStat, At, Shape, ProcType, Manifest
    <3> QED
      BY <3>3, <3>4
  <2> QED
    BY <2>1, <2>2
<1>3. /\ \A n \in Names : mf[n] # None => mf'[n] # None
      /\ mf' \in [Names -> {None, Torn} \cup Manifest]
  BY <1>1, StoreConstants DEF PullStat, At, Shape, TypeInv, TypeOK, Manifest
<1>4. Shapes'
  BY <1>2, <1>3, Others
<1>5. TypeOK'
  BY <1>2, <1>3, HistoryType DEF PullStat, Fault, TypeOK, TypeInv
<1> QED
  BY <1>4, <1>5 DEF TypeInv

\* A downloaded layer is relied on and is to be verified.
LEMMA PullDownloadType ==
    ASSUME TypeInv, NEW p \in Procs, NEW l \in Layers, PullDownload(p, l)
    PROVE  TypeInv'
<1>1. Shape(p) /\ proc[p] \in ProcType
  BY DEF TypeInv, TypeOK, Shapes
<1>2. /\ proc' \in [Procs -> ProcType]
      /\ \A q \in Procs \ {p} : proc'[q] = proc[q]
      /\ Shape(p)'
  <2> DEFINE r == [proc[p] EXCEPT !.pc = "fetch", !.left = {}, !.todo = @ \ {l},
                                 !.held = @ \cup {l}, !.fresh = @ \cup {l}]
  <2>1. r \in ProcType
    BY <1>1, ContentType DEF PullDownload, ProcType
  <2>2. proc' = [proc EXCEPT ![p] = r]
    BY DEF PullDownload, TypeInv, TypeOK, ProcType
  <2>3. /\ proc' \in [Procs -> ProcType]
        /\ \A q \in Procs \ {p} : proc'[q] = proc[q]
        /\ proc'[p] = r
    BY <2>1, <2>2, Update
  <2>4. Shape(p)'
    BY <1>1, <2>3 DEF PullDownload, At, Shape, ProcType, Manifest
  <2> QED
    BY <2>3, <2>4
<1>3. /\ \A n \in Names : mf[n] # None => mf'[n] # None
      /\ mf' \in [Names -> {None, Torn} \cup Manifest]
  BY <1>1, StoreConstants DEF PullDownload, At, Shape, TypeInv, TypeOK, Manifest
<1>4. Shapes'
  BY <1>2, <1>3, Others
<1>5. TypeOK'
  <2>1. blob' \in [Layers -> {None, "good", "bad"}]
    BY DEF PullDownload, TypeInv, TypeOK
  <2>2. faults' \in 0 .. MaxFaults
    BY StoreConstants DEF PullDownload, Fault, TypeInv, TypeOK
  <2> QED
    BY <1>2, <1>3, <2>1, <2>2, HistoryType DEF PullDownload, TypeOK, TypeInv
<1> QED
  BY <1>4, <1>5 DEF TypeInv

\* Everything is relied on when the manifest is written.
LEMMA PullVerifiedType ==
    ASSUME TypeInv, NEW p \in Procs, PullVerified(p)
    PROVE  TypeInv'
<1>1. Shape(p) /\ proc[p] \in ProcType
  BY DEF TypeInv, TypeOK, Shapes
<1>2. /\ proc' \in [Procs -> ProcType]
      /\ \A q \in Procs \ {p} : proc'[q] = proc[q]
      /\ Shape(p)'
  <2> DEFINE r == [proc[p] EXCEPT !.pc = "write", !.old = @ \ proc[p].want]
  <2>1. r \in ProcType
    BY <1>1, ContentType DEF PullVerified, ProcType
  <2>2. proc' = [proc EXCEPT ![p] = r]
    BY DEF PullVerified, TypeInv, TypeOK, ProcType
  <2>3. /\ proc' \in [Procs -> ProcType]
        /\ \A q \in Procs \ {p} : proc'[q] = proc[q]
        /\ proc'[p] = r
    BY <2>1, <2>2, Update
  <2>4. Shape(p)'
    BY <1>1, <2>3 DEF PullVerified, At, Shape, ProcType, Manifest
  <2> QED
    BY <2>3, <2>4
<1>3. /\ \A n \in Names : mf[n] # None => mf'[n] # None
      /\ mf' \in [Names -> {None, Torn} \cup Manifest]
  BY <1>1, StoreConstants DEF PullVerified, At, Shape, TypeInv, TypeOK, Manifest
<1>4. Shapes'
  BY <1>2, <1>3, Others
<1>5. TypeOK'
  BY <1>2, <1>3, HistoryType DEF PullVerified, Fault, TypeOK, TypeInv
<1> QED
  BY <1>4, <1>5 DEF TypeInv

\* A manifest is truncated.
LEMMA TruncateType ==
    ASSUME TypeInv, NEW p \in Procs, Truncate(p)
    PROVE  TypeInv'
<1>1. Shape(p) /\ proc[p] \in ProcType
  BY DEF TypeInv, TypeOK, Shapes
<1>2. /\ proc' \in [Procs -> ProcType]
      /\ \A q \in Procs \ {p} : proc'[q] = proc[q]
      /\ Shape(p)'
  <2> DEFINE r == [proc[p] EXCEPT !.pc = "contents", !.linked = TRUE]
  <2>1. r \in ProcType
    BY <1>1, ContentType DEF Truncate, ProcType
  <2>2. proc' = [proc EXCEPT ![p] = r]
    BY DEF Truncate, TypeInv, TypeOK, ProcType
  <2>3. /\ proc' \in [Procs -> ProcType]
        /\ \A q \in Procs \ {p} : proc'[q] = proc[q]
        /\ proc'[p] = r
    BY <2>1, <2>2, Update
  <2>4. Shape(p)'
    BY <1>1, <2>3 DEF Truncate, At, Shape, ProcType, Manifest
  <2> QED
    BY <2>3, <2>4
<1>3. /\ \A n \in Names : mf[n] # None => mf'[n] # None
      /\ mf' \in [Names -> {None, Torn} \cup Manifest]
  BY <1>1, StoreConstants DEF Truncate, At, Shape, TypeInv, TypeOK, Manifest
<1>4. Shapes'
  BY <1>2, <1>3, Others
<1>5. TypeOK'
  BY <1>2, <1>3, HistoryType DEF Truncate, Fault, TypeOK, TypeInv
<1> QED
  BY <1>4, <1>5 DEF TypeInv

\* The manifests to read are found.
LEMMA GlobType ==
    ASSUME TypeInv, NEW p \in Procs, Glob(p)
    PROVE  TypeInv'
<1>1. Shape(p) /\ proc[p] \in ProcType
  BY DEF TypeInv, TypeOK, Shapes
<1>2. /\ proc' \in [Procs -> ProcType]
      /\ \A q \in Procs \ {p} : proc'[q] = proc[q]
      /\ Shape(p)'
  <2> DEFINE r == [proc[p] EXCEPT !.pc = "scan", !.left = {n \in Names : mf[n] # None}]
  <2>1. r \in ProcType
    BY <1>1, ContentType DEF Glob, ProcType
  <2>2. proc' = [proc EXCEPT ![p] = r]
    BY DEF Glob, TypeInv, TypeOK, ProcType
  <2>3. /\ proc' \in [Procs -> ProcType]
        /\ \A q \in Procs \ {p} : proc'[q] = proc[q]
        /\ proc'[p] = r
    BY <2>1, <2>2, Update
  <2>4. Shape(p)'
    BY <1>1, <2>3 DEF Glob, At, Shape, ProcType, Manifest
  <2> QED
    BY <2>3, <2>4
<1>3. /\ \A n \in Names : mf[n] # None => mf'[n] # None
      /\ mf' \in [Names -> {None, Torn} \cup Manifest]
  BY <1>1, StoreConstants DEF Glob, At, Shape, TypeInv, TypeOK, Manifest
<1>4. Shapes'
  BY <1>2, <1>3, Others
<1>5. TypeOK'
  BY <1>2, <1>3, HistoryType DEF Glob, Fault, TypeOK, TypeInv
<1> QED
  BY <1>4, <1>5 DEF TypeInv

\* A layer is removed.
LEMMA RemoveLayerType ==
    ASSUME TypeInv, NEW p \in Procs, NEW l \in Layers, RemoveLayer(p, l)
    PROVE  TypeInv'
<1>1. Shape(p) /\ proc[p] \in ProcType
  BY DEF TypeInv, TypeOK, Shapes
<1>2. /\ proc' \in [Procs -> ProcType]
      /\ \A q \in Procs \ {p} : proc'[q] = proc[q]
      /\ Shape(p)'
  <2> DEFINE r == [proc[p] EXCEPT !.cand = @ \ {l}]
  <2>1. r \in ProcType
    BY <1>1, ContentType DEF RemoveLayer, ProcType
  <2>2. proc' = [proc EXCEPT ![p] = r]
    BY DEF RemoveLayer, TypeInv, TypeOK, ProcType
  <2>3. /\ proc' \in [Procs -> ProcType]
        /\ \A q \in Procs \ {p} : proc'[q] = proc[q]
        /\ proc'[p] = r
    BY <2>1, <2>2, Update
  <2>4. Shape(p)'
    BY <1>1, <2>3 DEF RemoveLayer, At, Shape, ProcType, Manifest
  <2> QED
    BY <2>3, <2>4
<1>3. /\ \A n \in Names : mf[n] # None => mf'[n] # None
      /\ mf' \in [Names -> {None, Torn} \cup Manifest]
  BY <1>1, StoreConstants DEF RemoveLayer, At, Shape, TypeInv, TypeOK, Manifest
<1>4. Shapes'
  BY <1>2, <1>3, Others
<1>5. TypeOK'
  BY <1>2, <1>3, HistoryType DEF RemoveLayer, Fault, TypeOK, TypeInv
<1> QED
  BY <1>4, <1>5 DEF TypeInv

\* The target of a copy is truncated.
LEMMA CopyCreateType ==
    ASSUME TypeInv, NEW p \in Procs, CopyCreate(p)
    PROVE  TypeInv'
<1>1. Shape(p) /\ proc[p] \in ProcType
  BY DEF TypeInv, TypeOK, Shapes
<1>2. /\ \A n \in Names : mf[n] # None => mf'[n] # None
      /\ mf' \in [Names -> {None, Torn} \cup Manifest]
  BY <1>1, StoreConstants DEF CopyCreate, At, Shape, TypeInv, TypeOK, Manifest
<1>3. /\ proc' \in [Procs -> ProcType]
      /\ \A q \in Procs \ {p} : proc'[q] = proc[q]
      /\ Shape(p)'
  <2> DEFINE r == [proc[p] EXCEPT !.pc = "copying", !.linked = TRUE]
  <2>1. r \in ProcType
    BY <1>1, ContentType DEF CopyCreate, ProcType
  <2>2. proc' = [proc EXCEPT ![p] = r]
    BY DEF CopyCreate, TypeInv, TypeOK, ProcType
  <2>3. /\ proc' \in [Procs -> ProcType]
        /\ \A q \in Procs \ {p} : proc'[q] = proc[q]
        /\ proc'[p] = r
    BY <2>1, <2>2, Update
  <2>4. Shape(p)'
    BY <1>1, <1>2, <2>3 DEF CopyCreate, At, Shape, ProcType, Manifest
  <2> QED
    BY <2>3, <2>4
<1>4. Shapes'
  BY <1>2, <1>3, Others
<1>5. TypeOK'
  BY <1>2, <1>3, HistoryType DEF CopyCreate, Fault, TypeOK, TypeInv
<1> QED
  BY <1>4, <1>5 DEF TypeInv

\* A download fails.
LEMMA PullDownloadFailType ==
    ASSUME TypeInv, NEW p \in Procs, PullDownloadFail(p)
    PROVE  TypeInv'
<1>1. Shapes'
  BY EndType, Others DEF PullDownloadFail
<1>2. faults' \in 0 .. MaxFaults
  BY StoreConstants DEF PullDownloadFail, Fault, TypeInv, TypeOK
<1>3. TypeOK'
  BY <1>2, EndType, HistoryType DEF PullDownloadFail, TypeOK, TypeInv
<1> QED
  BY <1>1, <1>3 DEF TypeInv

\* A manifest stays truncated.
LEMMA WriteFailType ==
    ASSUME TypeInv, NEW p \in Procs, WriteFail(p)
    PROVE  TypeInv'
<1>1. Shapes'
  BY EndType, Others DEF WriteFail
<1>2. faults' \in 0 .. MaxFaults
  BY StoreConstants DEF WriteFail, Fault, TypeInv, TypeOK
<1>3. TypeOK'
  BY <1>2, EndType, HistoryType DEF WriteFail, TypeOK, TypeInv
<1> QED
  BY <1>1, <1>3 DEF TypeInv

\* A layer is verified, or the pull ends.
LEMMA PullVerifyType ==
    ASSUME TypeInv, NEW p \in Procs, NEW l \in Layers, PullVerify(p, l)
    PROVE  TypeInv'
<1>1. Shape(p) /\ proc[p] \in ProcType
  BY DEF TypeInv, TypeOK, Shapes
<1>2. /\ proc' \in [Procs -> ProcType]
      /\ \A q \in Procs \ {p} : proc'[q] = proc[q]
      /\ Shape(p)'
  <2>1. CASE blob[l] = "good"
    <3> DEFINE r == [proc[p] EXCEPT !.fresh = @ \ {l}]
    <3>1. r \in ProcType
      BY <1>1 DEF ProcType
    <3>2. proc' = [proc EXCEPT ![p] = r]
      BY <2>1 DEF PullVerify, TypeInv, TypeOK, ProcType
    <3>3. /\ proc' \in [Procs -> ProcType]
          /\ \A q \in Procs \ {p} : proc'[q] = proc[q]
          /\ proc'[p] = r
      BY <3>1, <3>2, Update
    <3>4. Shape(p)'
      BY <1>1, <3>3 DEF PullVerify, At, Shape, ProcType, Manifest
    <3> QED
      BY <3>3, <3>4
  <2>2. CASE blob[l] # "good"
    BY <2>2, EndType DEF PullVerify
  <2> QED
    BY <2>1, <2>2
<1>3. Shapes'
  BY <1>2, Others DEF PullVerify
<1>4. TypeOK'
  BY <1>2, HistoryType DEF PullVerify, TypeOK, TypeInv
<1> QED
  BY <1>3, <1>4 DEF TypeInv

\* A manifest is whole again; a removal may follow.
LEMMA WriteContentsType ==
    ASSUME TypeInv, NEW p \in Procs, WriteContents(p)
    PROVE  TypeInv'
<1>1. Shape(p) /\ proc[p] \in ProcType
  BY DEF TypeInv, TypeOK, Shapes
<1>2. /\ proc' \in [Procs -> ProcType]
      /\ \A q \in Procs \ {p} : proc'[q] = proc[q]
      /\ Shape(p)'
  <2>1. CASE NoPrune \/ proc[p].old = {}
    BY <2>1, EndType DEF WriteContents
  <2>2. CASE ~(NoPrune \/ proc[p].old = {})
    <3> DEFINE r == [NoProc EXCEPT !.pc = "glob", !.cand = proc[p].old]
    <3>1. r \in ProcType
      BY <1>1 DEF ProcType, NoProc
    <3>2. proc' = [proc EXCEPT ![p] = r]
      BY <2>2 DEF WriteContents
    <3>3. /\ proc' \in [Procs -> ProcType]
          /\ \A q \in Procs \ {p} : proc'[q] = proc[q]
          /\ proc'[p] = r
      BY <3>1, <3>2, Update
    <3>4. Shape(p)'
      BY <3>3 DEF Shape, NoProc
    <3> QED
      BY <3>3, <3>4
  <2> QED
    BY <2>1, <2>2
<1>3. /\ \A n \in Names : mf[n] # None => mf'[n] # None
      /\ mf' \in [Names -> {None, Torn} \cup Manifest]
  BY <1>1, StoreConstants DEF WriteContents, At, Shape, TypeInv, TypeOK, Manifest
<1>4. Shapes'
  BY <1>2, <1>3, Others
<1>5. TypeOK'
  BY <1>2, <1>3, HistoryType DEF WriteContents, TypeOK, TypeInv
<1> QED
  BY <1>4, <1>5 DEF TypeInv

\* A manifest is read.
LEMMA ScanType ==
    ASSUME TypeInv, NEW p \in Procs, Scan(p)
    PROVE  TypeInv'
<1>1. Shape(p) /\ proc[p] \in ProcType /\ proc[p].pc = "scan"
  BY DEF TypeInv, TypeOK, Shapes, Scan, At
<1> DEFINE n == Min(proc[p].left)
<1>2. /\ proc' \in [Procs -> ProcType]
      /\ \A q \in Procs \ {p} : proc'[q] = proc[q]
      /\ Shape(p)'
  <2>1. CASE proc' = [proc EXCEPT ![p].left = {}, ![p].cand = {}]
    <3> DEFINE r == [proc[p] EXCEPT !.left = {}, !.cand = {}]
    <3>1. r \in ProcType
      BY <1>1 DEF ProcType
    <3>2. proc' = [proc EXCEPT ![p] = r]
      BY <2>1 DEF TypeInv, TypeOK, ProcType
    <3>3. /\ proc' \in [Procs -> ProcType]
          /\ \A q \in Procs \ {p} : proc'[q] = proc[q]
          /\ proc'[p] = r
      BY <3>1, <3>2, Update
    <3>4. Shape(p)'
      BY <1>1, <3>3 DEF Shape, ProcType, Manifest
    <3> QED
      BY <3>3, <3>4
  <2>2. CASE proc' = [proc EXCEPT ![p].left = @ \ {n}, ![p].cand = @ \ Content(n)]
    <3> DEFINE r == [proc[p] EXCEPT !.left = @ \ {n}, !.cand = @ \ Content(n)]
    <3> HIDE DEF n
    <3>1. r \in ProcType
      BY <1>1 DEF ProcType
    <3>2. proc' = [proc EXCEPT ![p] = r]
      BY <2>2 DEF TypeInv, TypeOK, ProcType
    <3>3. /\ proc' \in [Procs -> ProcType]
          /\ \A q \in Procs \ {p} : proc'[q] = proc[q]
          /\ proc'[p] = r
      BY <3>1, <3>2, Update
    <3>4. Shape(p)'
      BY <1>1, <3>3 DEF Shape, ProcType, Manifest
    <3> QED
      BY <3>3, <3>4
  <2> QED
    BY <2>1, <2>2 DEF Scan
<1>3. Shapes'
  BY <1>2, Others DEF Scan
<1>4. TypeOK'
  BY <1>2, HistoryType DEF Scan, TypeOK, TypeInv
<1> QED
  BY <1>3, <1>4 DEF TypeInv

\* A removal is over: a creation goes on to its new layer.
LEMMA RemoveDoneType ==
    ASSUME TypeInv, NEW p \in Procs, RemoveDone(p)
    PROVE  TypeInv'
<1>1. Shape(p) /\ proc[p] \in ProcType
  BY DEF TypeInv, TypeOK, Shapes
<1>2. /\ proc' \in [Procs -> ProcType]
      /\ \A q \in Procs \ {p} : proc'[q] = proc[q]
      /\ Shape(p)'
  <2>1. CASE proc[p].then = "idle"
    BY <2>1, EndType DEF RemoveDone
  <2>2. CASE proc[p].then # "idle"
    <3> DEFINE r == [proc[p] EXCEPT !.pc = proc[p].then, !.then = "idle"]
    <3>1. r \in ProcType
      BY <1>1 DEF ProcType
    <3>2. proc' = [proc EXCEPT ![p] = r]
      BY <2>2 DEF RemoveDone, TypeInv, TypeOK, ProcType
    <3>3. /\ proc' \in [Procs -> ProcType]
          /\ \A q \in Procs \ {p} : proc'[q] = proc[q]
          /\ proc'[p] = r
      BY <3>1, <3>2, Update
    <3>4. Shape(p)'
      BY <1>1, <2>2, <3>3 DEF RemoveDone, At, Shape, ProcType, Manifest
    <3> QED
      BY <3>3, <3>4
  <2> QED
    BY <2>1, <2>2
<1>3. Shapes'
  BY <1>2, Others DEF RemoveDone
<1>4. TypeOK'
  BY <1>2, HistoryType DEF RemoveDone, TypeOK, TypeInv
<1> QED
  BY <1>3, <1>4 DEF TypeInv

\* A creation begins with its base.
LEMMA CreateType ==
    ASSUME TypeInv, NEW p \in Procs, NEW n \in Names, NEW from \in Names,
           NEW drop \in SUBSET Layers, NEW new \in Layers, Create(p, n, from, drop, new)
    PROVE  TypeInv'
<1> DEFINE ok == Whole(from) /\ \A l \in Content(from) : blob[l] # None
           base == IF ok THEN Content(from) ELSE {}
           r == [NoProc EXCEPT !.pc = "new", !.name = IF ok THEN n ELSE None,
                               !.want = (base \ drop) \cup {new}, !.todo = {new},
                               !.held = base \ drop, !.drop = drop, !.old = Content(n)]
<1>1. proc' = [proc EXCEPT ![p] = r]
  BY DEF Create
<1>2. base \subseteq Layers /\ Content(n) \subseteq Layers
  BY ContentType
<1> HIDE DEF base, ok
<1>3. r \in ProcType
  BY <1>2 DEF ProcType, NoProc
<1>4. /\ proc' \in [Procs -> ProcType]
      /\ \A q \in Procs \ {p} : proc'[q] = proc[q]
      /\ proc'[p] = r
  BY <1>1, <1>3, Update
<1>5. Shape(p)'
  <2>1. /\ r.pc = "new" /\ r.then = "idle" /\ r.src = None
        /\ r.want = (base \ drop) \cup {new} /\ r.todo = {new} /\ r.held = base \ drop
        /\ r.drop = drop /\ r.fresh = {}
    BY DEF NoProc
  <2> HIDE DEF r
  <2>2. r.want \in Manifest /\ r.want \subseteq r.held \cup r.todo /\ r.held \cap r.drop = {}
    <3>1. r.want \subseteq Layers /\ new \in r.want
      BY <1>2, <2>1
    <3>2. r.want \in Manifest
      BY <3>1, NonEmptyType
    <3>3. r.want \subseteq r.held \cup r.todo
      BY <2>1
    <3>4. r.held \cap r.drop = {}
      BY <2>1
    <3> QED
      BY <3>2, <3>3, <3>4
  <2> QED
    BY <1>4, <2>1, <2>2 DEF Shape
<1>6. Shapes'
  BY <1>4, <1>5, Others DEF Create
<1>7. TypeOK'
  BY <1>4, HistoryType, StoreConstants DEF Create, Begin, TypeOK, TypeInv
<1> QED
  BY <1>6, <1>7 DEF TypeInv

\* A layer of the base that the creation leaves out is to be removed.
LEMMA CreateDropType ==
    ASSUME TypeInv, NEW p \in Procs, NEW l \in Layers, CreateDrop(p, l)
    PROVE  TypeInv'
<1>1. Shape(p) /\ proc[p] \in ProcType /\ proc[p].pc = "new" /\ l \in proc[p].drop
  BY DEF TypeInv, TypeOK, Shapes, CreateDrop, At
<1> DEFINE r == [proc[p] EXCEPT !.pc = "glob", !.then = "new", !.cand = {l}, !.drop = @ \ {l}]
<1>2. r \in ProcType
  BY <1>1 DEF ProcType
<1>3. proc' = [proc EXCEPT ![p] = r]
  BY DEF CreateDrop, TypeInv, TypeOK, ProcType
<1>4. /\ proc' \in [Procs -> ProcType]
      /\ \A q \in Procs \ {p} : proc'[q] = proc[q]
      /\ proc'[p] = r
  BY <1>2, <1>3, Update
<1>5. Shape(p)'
  BY <1>1, <1>4 DEF Shape, ProcType, Manifest
<1>6. Shapes'
  BY <1>4, <1>5, Others DEF CreateDrop
<1>7. TypeOK'
  BY <1>4, HistoryType DEF CreateDrop, TypeOK, TypeInv
<1> QED
  BY <1>6, <1>7 DEF TypeInv

\* A creation has made its layer.
LEMMA CreateLayerType ==
    ASSUME TypeInv, NEW p \in Procs, NEW l \in Layers, CreateLayer(p, l)
    PROVE  TypeInv'
<1>1. Shape(p) /\ proc[p] \in ProcType
  BY DEF TypeInv, TypeOK, Shapes
<1>2. /\ proc' \in [Procs -> ProcType]
      /\ \A q \in Procs \ {p} : proc'[q] = proc[q]
      /\ Shape(p)'
  <2>1. CASE proc[p].name = None
    BY <2>1, EndType DEF CreateLayer
  <2>2. CASE proc[p].name # None
    <3> DEFINE r == [proc[p] EXCEPT !.pc = "write", !.todo = {}, !.held = @ \cup {l}]
    <3>1. r \in ProcType
      BY <1>1 DEF ProcType
    <3>2. proc' = [proc EXCEPT ![p] = r]
      BY <2>2 DEF CreateLayer, TypeInv, TypeOK, ProcType
    <3>3. /\ proc' \in [Procs -> ProcType]
          /\ \A q \in Procs \ {p} : proc'[q] = proc[q]
          /\ proc'[p] = r
      BY <3>1, <3>2, Update
    <3>4. Shape(p)'
      BY <1>1, <2>2, <3>3 DEF CreateLayer, At, Shape, ProcType, Manifest
    <3> QED
      BY <3>3, <3>4
  <2> QED
    BY <2>1, <2>2
<1>3. Shapes'
  BY <1>2, Others DEF CreateLayer
<1>4. TypeOK'
  BY <1>2, HistoryType DEF CreateLayer, TypeOK, TypeInv
<1> QED
  BY <1>3, <1>4 DEF TypeInv

\* A copy begins with an open source.
LEMMA CopyType ==
    ASSUME TypeInv, NEW p \in Procs, NEW n \in Names, NEW from \in Names, Copy(p, from, n)
    PROVE  TypeInv'
<1> DEFINE r == [NoProc EXCEPT !.pc = "copy", !.name = n, !.src = from, !.want = Content(from)]
<1>1. r \in ProcType
  BY ContentType DEF NoProc, ProcType
<1>2. /\ proc' \in [Procs -> ProcType]
      /\ \A q \in Procs \ {p} : proc'[q] = proc[q]
      /\ proc'[p] = r
  BY <1>1 DEF Copy, TypeInv, TypeOK
<1>3. Shape(p)'
  BY <1>2, StoreConstants DEF Shape, NoProc, Copy
<1>4. Shapes'
  BY <1>2, <1>3, Others DEF Copy
<1>5. TypeOK'
  BY <1>2, HistoryType, StoreConstants DEF Copy, Begin, TypeOK, TypeInv
<1> QED
  BY <1>4, <1>5 DEF TypeInv

\* What is copied is a manifest, whole or truncated.
LEMMA OpenedType ==
    ASSUME TypeInv, NEW p \in Procs, proc[p].pc \in {"copy", "copying"}
    PROVE  /\ Opened(p) \in {Torn} \cup Manifest
           /\ Opened(p) # None
<1>1. Shape(p) /\ proc[p] \in ProcType
  BY DEF TypeInv, TypeOK, Shapes
<1>2. Opened(p) \in {Torn} \cup Manifest
  BY <1>1 DEF Opened, Shape, ProcType, TypeInv, TypeOK
<1> QED
  BY <1>2, StoreConstants DEF Manifest

\* A copy is written.
LEMMA CopyContentsType ==
    ASSUME TypeInv, NEW p \in Procs, CopyContents(p)
    PROVE  TypeInv'
<1>1. Shape(p) /\ proc[p] \in ProcType /\ proc[p].pc = "copying"
  BY DEF TypeInv, TypeOK, Shapes, CopyContents, At
<1>2. /\ \A n \in Names : mf[n] # None => mf'[n] # None
      /\ mf' \in [Names -> {None, Torn} \cup Manifest]
  BY <1>1, OpenedType DEF CopyContents, Shape, TypeInv, TypeOK
<1>3. Shapes'
  BY <1>2, EndType, Others DEF CopyContents
<1>4. TypeOK'
  BY <1>2, EndType, HistoryType DEF CopyContents, TypeOK, TypeInv
<1> QED
  BY <1>3, <1>4 DEF TypeInv

\* A deletion begins with a whole manifest.
LEMMA DeleteType ==
    ASSUME TypeInv, NEW p \in Procs, NEW n \in Names, Delete(p, n)
    PROVE  TypeInv'
<1> DEFINE r == [NoProc EXCEPT !.pc = "delete", !.name = n, !.cand = mf[n]]
<1>1. r \in ProcType
  BY DEF NoProc, ProcType, Delete, Whole, TypeInv, TypeOK, Manifest
<1>2. /\ proc' \in [Procs -> ProcType]
      /\ \A q \in Procs \ {p} : proc'[q] = proc[q]
      /\ proc'[p] = r
  BY <1>1 DEF Delete, TypeInv, TypeOK
<1>3. Shape(p)'
  BY <1>2 DEF Shape, NoProc
<1>4. Shapes'
  BY <1>2, <1>3, Others DEF Delete
<1>5. TypeOK'
  BY <1>2, HistoryType, StoreConstants DEF Delete, Begin, TypeOK, TypeInv
<1> QED
  BY <1>4, <1>5 DEF TypeInv

\* The record of another operation when a manifest is removed.
Detached(q, n) ==
    [proc[q] EXCEPT !.linked = @ /\ ~(proc[q].pc \in {"contents", "copying"} /\ proc[q].name = n),
                    !.want = IF proc[q].src = n THEN mf[n] ELSE @,
                    !.src = IF @ = n THEN None ELSE @]

\* What the removal of a manifest does to the other operations.
LEMMA Unlinked ==
    ASSUME TypeInv, NEW p \in Procs, DeleteManifest(p)
    PROVE  /\ mf' = [mf EXCEPT ![proc[p].name] = None]
           /\ proc' = [q \in Procs |-> proc'[q]]
           /\ proc'[p] = IF mf[proc[p].name] = None THEN NoProc ELSE [proc[p] EXCEPT !.pc = "glob"]
           /\ \A q \in Procs \ {p} : proc'[q] = Detached(q, proc[p].name)
<1> PICK n \in {proc[p].name} :
        /\ mf' = [mf EXCEPT ![n] = None]
        /\ proc' = [q \in Procs |->
              IF q = p THEN IF mf[n] = None THEN NoProc ELSE [proc[p] EXCEPT !.pc = "glob"]
              ELSE Detached(q, n)]
  BY DEF DeleteManifest, Detached
<1> HIDE DEF Detached
<1> QED
  OBVIOUS

\* The fields of such a record.
LEMMA DetachedIs ==
    ASSUME TypeInv, NEW q \in Procs, NEW n \in Names
    PROVE  /\ Detached(q, n).pc = proc[q].pc /\ Detached(q, n).name = proc[q].name
           /\ Detached(q, n).todo = proc[q].todo /\ Detached(q, n).held = proc[q].held
           /\ Detached(q, n).fresh = proc[q].fresh /\ Detached(q, n).old = proc[q].old
           /\ Detached(q, n).cand = proc[q].cand /\ Detached(q, n).left = proc[q].left
           /\ Detached(q, n).then = proc[q].then /\ Detached(q, n).drop = proc[q].drop
           /\ Detached(q, n).want = IF proc[q].src = n THEN mf[n] ELSE proc[q].want
           /\ Detached(q, n).src = IF proc[q].src = n THEN None ELSE proc[q].src
           /\ Detached(q, n) \in ProcType
<1>1. proc[q] \in ProcType /\ Shape(q)
  BY DEF TypeInv, TypeOK, Shapes
<1>2. proc[q].src = n => mf[n] \in {Torn} \cup SUBSET Layers
  BY <1>1, StoreConstants DEF Shape, TypeInv, TypeOK, Manifest, ProcType
<1>3. (proc[q].linked /\ ~(proc[q].pc \in {"contents", "copying"} /\ proc[q].name = n)) \in BOOLEAN
  OBVIOUS
<1> QED
  BY <1>1, <1>2, <1>3 DEF Detached, ProcType

\* A manifest is removed.
LEMMA DeleteManifestType ==
    ASSUME TypeInv, NEW p \in Procs, DeleteManifest(p)
    PROVE  TypeInv'
<1>1. Shape(p) /\ proc[p] \in ProcType /\ proc[p].pc = "delete"
  BY DEF TypeInv, TypeOK, Shapes, DeleteManifest, At
<1> DEFINE n == proc[p].name
<1>2. n \in Names /\ mf' = [mf EXCEPT ![n] = None]
  BY <1>1, Unlinked DEF Shape
<1>3. mf' \in [Names -> {None, Torn} \cup Manifest] /\ \A m \in Names \ {n} : mf'[m] = mf[m]
  BY <1>2 DEF TypeInv, TypeOK
<1>4. Shape(p)'
  <2>1. CASE mf[n] = None
    <3>1. proc'[p] = NoProc
      BY <2>1, Unlinked
    <3> QED
      BY <3>1 DEF Shape, NoProc
  <2>2. CASE mf[n] # None
    <3>1. proc'[p] = [proc[p] EXCEPT !.pc = "glob"]
      BY <2>2, Unlinked
    <3>2. proc[p].held = {}
      BY <1>1 DEF Shape
    <3> QED
      BY <1>1, <3>1, <3>2 DEF Shape, ProcType
  <2> QED
    BY <2>1, <2>2
<1>5. ASSUME NEW q \in Procs, q # p PROVE Shape(q)'
  <2>1. Shape(q) /\ proc[q] \in ProcType
    BY DEF TypeInv, TypeOK, Shapes
  <2>2. proc'[q] = Detached(q, n)
    BY Unlinked, <1>5
  <2>3. proc[q].src = n => mf[n] \in {Torn} \cup Manifest
    BY <1>2, <2>1, StoreConstants DEF Shape, TypeInv, TypeOK, ProcType
  <2> HIDE DEF n
  <2> QED
    BY <1>2, <1>3, <2>1, <2>2, <2>3, DetachedIs, StoreConstants DEF Shape, ProcType
<1>6. proc' \in [Procs -> ProcType]
  <2>1. ASSUME NEW q \in Procs PROVE proc'[q] \in ProcType
    <3>1. CASE q = p /\ mf[n] = None
      <4>1. proc'[q] = NoProc
        BY <3>1, Unlinked
      <4> QED
        BY <4>1 DEF NoProc, ProcType
    <3>2. CASE q = p /\ mf[n] # None
      <4>1. proc'[q] = [proc[p] EXCEPT !.pc = "glob"]
        BY <3>2, Unlinked
      <4> QED
        BY <1>1, <4>1 DEF ProcType
    <3>3. CASE q # p
      <4>1. proc'[q] = Detached(q, n)
        BY <3>3, Unlinked
      <4> QED
        BY <1>2, <4>1, DetachedIs
    <3> QED
      BY <3>1, <3>2, <3>3
  <2> QED
    BY <2>1, Unlinked
<1>7. TypeOK'
  BY <1>3, <1>6, HistoryType DEF DeleteManifest, TypeOK, TypeInv
<1> QED
  BY <1>4, <1>5, <1>7 DEF TypeInv, Shapes

\* After a restart nothing is in progress.
LEMMA RestartType == ASSUME TypeInv, Restart PROVE TypeInv'
<1>1. NoProc \in ProcType
  BY DEF NoProc, ProcType
<1>2. Shapes'
  BY StoreConstants DEF Restart, Shapes, Shape, NoProc
<1>3. blob' \in [Layers -> {None, "good", "bad"}]
  BY DEF Restart, TypeInv, TypeOK
<1>4. crashes' \in 0 .. MaxCrashes
  BY StoreConstants DEF Restart, TypeInv, TypeOK
<1>5. TypeOK'
  BY <1>1, <1>3, <1>4, HistoryType DEF Restart, TypeOK, TypeInv
<1> QED
  BY <1>2, <1>5 DEF TypeInv

\* Each step preserves the types and the shapes.
LEMMA NextType == ASSUME TypeInv, [Next]_vars PROVE TypeInv'
<1>1. CASE UNCHANGED vars
  BY <1>1 DEF vars, TypeInv, TypeOK, Shapes, Shape
<1>2. CASE Restart
  BY <1>2, RestartType
<1>3. ASSUME NEW p \in Procs, Step(p) PROVE TypeInv'
  <2>1. CASE \E n \in Names, layers \in Manifest : Pull(p, n, layers)
    BY <2>1, PullType
  <2>2. CASE \E l \in Layers : \/ PullStat(p, l) \/ PullDownload(p, l) \/ PullVerify(p, l)
                               \/ RemoveLayer(p, l) \/ CreateDrop(p, l) \/ CreateLayer(p, l)
    BY <2>2, PullStatType, PullDownloadType, PullVerifyType, RemoveLayerType, CreateDropType,
       CreateLayerType
  <2>3. CASE PullDownloadFail(p) \/ PullVerified(p)
    BY <2>3, PullDownloadFailType, PullVerifiedType
  <2>4. CASE Truncate(p) \/ WriteContents(p) \/ WriteFail(p)
    BY <2>4, TruncateType, WriteContentsType, WriteFailType
  <2>5. CASE Glob(p) \/ Scan(p) \/ RemoveDone(p)
    BY <2>5, GlobType, ScanType, RemoveDoneType
  <2>6. CASE \E n, from \in Names : Copy(p, from, n)
    BY <2>6, CopyType
  <2>7. CASE \E n, from \in Names : \E new \in Layers, drop \in SUBSET Layers :
                Create(p, n, from, drop, new)
    BY <2>7, CreateType
  <2>8. CASE CopyCreate(p) \/ CopyContents(p)
    BY <2>8, CopyCreateType, CopyContentsType
  <2>9. CASE DeleteManifest(p) \/ \E n \in Names : Delete(p, n)
    BY <2>9, DeleteType, DeleteManifestType
  <2> QED
    BY <1>3, <2>1, <2>2, <2>3, <2>4, <2>5, <2>6, <2>7, <2>8, <2>9 DEF Step
<1> QED
  BY <1>1, <1>2, <1>3 DEF Next

\* Type correctness, for any number of operations, names and layers: no
\* manifest is written without layers, no operation uses a name it does not have.
THEOREM TypeCorrect == Spec => []TypeOK
<1>1. TypeInv => TypeOK
  BY DEF TypeInv
<1> QED
  BY InitType, NextType, <1>1, PTL DEF Spec

-----------------------------------------------------------------------------
(* What is lost, and what is wrong *)

HeldLayers == \A p \in Procs : Held(p) \subseteq Layers

\* What an operation relies on are layers.
LEMMA HeldType == TypeInv => HeldLayers
<1> SUFFICES ASSUME TypeInv, NEW p \in Procs PROVE Held(p) \subseteq Layers
  BY DEF HeldLayers
<1>1. proc[p].held \subseteq Layers
  BY DEF TypeInv, TypeOK, ProcType
<1>2. proc[p].pc \in {"copy", "copying"} /\ Opened(p) \notin {None, Torn} => Opened(p) \subseteq Layers
  BY OpenedType DEF Manifest
<1> QED
  BY <1>1, <1>2 DEF Held

\* How one step can make a layer missing, in terms of what the acting operation
\* p relies on.  Without a race, nothing that is named or relied on gets lost if
\* manifests only gain what p relied on, p relies only on what it already did,
\* on what is named, or on what is there, and a blob that goes was not needed.
LEMMA Kept ==
    ASSUME TypeInv, TypeInv', LostOnlyByRace, HeldThere, ScanSees, Recorded, ~raced, Recorded',
           ~raced', NEW p \in Procs,
           \A q \in Procs \ {p} : \A l \in Held(q)' : l \in Held(q) \/ Named(l)',
           \A q \in Procs \ {p} : /\ proc'[q].pc = proc[q].pc
                                  /\ proc'[q].cand = proc[q].cand
                                  /\ proc'[q].left = proc[q].left,
           \A n \in Names : \A l \in Content(n)' : l \in Content(n) \/ l \in Held(p),
           \A l \in Held(p)' : l \in Held(p) \/ Named(l)' \/ blob'[l] # None,
           \A l \in Layers : blob[l] # None /\ blob'[l] = None =>
               /\ ~Named(l)'
               /\ l \notin Held(p)'
               /\ \A q \in Procs \ {p} : l \notin Held(q),
           proc'[p].pc = "scan" => \A l \in proc'[p].cand : \A n \in Names :
               l \in Content(n)' => n \in proc'[p].left
    PROVE  LostOnlyByRace' /\ HeldThere' /\ ScanSees'
<1>1. ASSUME NEW l \in Layers, Named(l)' PROVE blob'[l] # None
  <2>1. Named(l) \/ l \in Held(p)
    BY <1>1 DEF Named
  <2>2. blob[l] # None
    BY <2>1 DEF LostOnlyByRace, HeldThere
  <2> QED
    BY <1>1, <2>2
<1>2. ASSUME NEW q \in Procs, NEW l \in Held(q)' PROVE blob'[l] # None
  <2>1. l \in Layers
    <3>1. HeldLayers'
      BY HeldType, PTL
    <3> QED
      BY <1>2, <3>1 DEF HeldLayers
  <2>2. CASE Named(l)'
    BY <1>1, <2>1, <2>2
  <2>3. CASE ~Named(l)' /\ q = p
    BY <1>2, <2>1, <2>3 DEF HeldThere
  <2>4. CASE ~Named(l)' /\ q # p
    BY <1>2, <2>1, <2>4 DEF HeldThere
  <2> QED
    BY <2>2, <2>3, <2>4
<1>3. ASSUME NEW q \in Procs, proc'[q].pc = "scan", NEW l \in proc'[q].cand,
             NEW n \in Names, l \in Content(n)'
      PROVE  n \in proc'[q].left
  <2>1. CASE q = p
    BY <1>3, <2>1
  <2>2. CASE q # p
    <3>1. l \in proc[q].cand /\ l \in Layers /\ proc[q].pc = "scan"
      BY <1>3, <2>2 DEF TypeInv, TypeOK, ProcType
    <3>2. l \notin Held(p)
      BY <2>2, <3>1 DEF Recorded, Overlap, At
    <3>3. l \in Content(n)
      BY <1>3, <3>2
    <3> QED
      BY <2>2, <3>1, <3>3 DEF ScanSees, At
  <2> QED
    BY <2>1, <2>2
<1> QED
  BY <1>1, <1>2, <1>3 DEF LostOnlyByRace, HeldThere, ScanSees, At

\* The step of one operation changes what another one relies on only through the
\* manifest it has open.
LEMMA OthersHeld ==
    ASSUME TypeInv, TypeInv', NEW p \in Procs, \A q \in Procs \ {p} : proc'[q] = proc[q]
    PROVE  \A q \in Procs \ {p} : \A l \in Held(q)' : l \in Held(q) \/ Named(l)'
<1> SUFFICES ASSUME NEW q \in Procs \ {p}, NEW l \in Held(q)' PROVE l \in Held(q) \/ Named(l)'
  OBVIOUS
<1>1. proc'[q] = proc[q] /\ proc[q] \in ProcType /\ Shape(q)
  BY DEF TypeInv, TypeOK, Shapes
<1>2. CASE proc[q].pc \notin {"copy", "copying"}
  BY <1>1, <1>2 DEF Held
<1>3. CASE proc[q].pc \in {"copy", "copying"} /\ proc[q].src = None
  BY <1>1, <1>3 DEF Held, Opened
<1>4. CASE proc[q].pc \in {"copy", "copying"} /\ proc[q].src # None
  <2>1. CASE mf'[proc[q].src] \in {None, Torn}
    BY <1>1, <1>4, <2>1 DEF Held, Opened, Shape
  <2>2. CASE mf'[proc[q].src] \notin {None, Torn}
    BY <1>1, <1>4, <2>2 DEF Held, Opened, Named, Content, Whole, ProcType
  <2> QED
    BY <2>1, <2>2
<1> QED
  BY <1>2, <1>3, <1>4

Safe == LostOnlyByRace /\ HeldThere /\ ScanSees /\ Recorded

\* The steps that write no manifest and remove no blob.
LEMMA KeptFiles ==
    ASSUME TypeInv, TypeInv', Safe, Recorded', ~raced, ~raced', NEW p \in Procs,
           \A q \in Procs \ {p} : proc'[q] = proc[q],
           mf' = mf, \A l \in Layers : blob[l] # None => blob'[l] # None,
           \A l \in Held(p)' : l \in Held(p) \/ Named(l)' \/ blob'[l] # None,
           proc'[p].pc = "scan" => \A l \in proc'[p].cand : \A n \in Names :
               l \in Content(n)' => n \in proc'[p].left
    PROVE  LostOnlyByRace' /\ HeldThere' /\ ScanSees'
<1>1. \A n \in Names : Content(n)' = Content(n)
  BY DEF Content, Whole
<1>2. \A q \in Procs \ {p} : \A l \in Held(q)' : l \in Held(q) \/ Named(l)'
  BY OthersHeld
<1> QED
  BY <1>1, <1>2, Kept DEF Safe

\* Nothing is lost when a pull begins.
LEMMA PullKept ==
    ASSUME TypeInv, TypeInv', Safe, Recorded', ~raced, ~raced', NEW p \in Procs,
           NEW n \in Names, NEW layers \in Manifest, Pull(p, n, layers)
    PROVE  LostOnlyByRace' /\ HeldThere' /\ ScanSees'
<1>1. proc[p] \in ProcType /\ DOMAIN proc = Procs /\ blob \in [Layers -> {None, "good", "bad"}]
  BY DEF TypeInv, TypeOK
<1>2. \A q \in Procs \ {p} : proc'[q] = proc[q]
  BY <1>1 DEF Pull, End
<1>3. proc'[p].pc = "fetch" /\ proc'[p].held = {}
  BY <1>1, StoreConstants DEF Pull, NoProc
<1>4. Held(p)' = proc'[p].held /\ mf' = mf
  BY <1>3 DEF Held, Pull
<1>5. proc[p].held \subseteq Held(p)
  BY DEF Held, TypeInv, Shapes, Shape
<1>6. \A l \in Held(p)' : l \in Held(p) \/ blob'[l] # None
  BY <1>3, <1>4, <1>5 DEF Pull
<1>7. \A l \in Layers : blob[l] # None => blob'[l] # None
  BY <1>1, <1>3 DEF Pull
<1> QED
  BY <1>2, <1>3, <1>4, <1>6, <1>7, KeptFiles

\* Nothing is lost when a blob is looked for.
LEMMA PullStatKept ==
    ASSUME TypeInv, TypeInv', Safe, Recorded', ~raced, ~raced', NEW p \in Procs,
           NEW l \in Layers, PullStat(p, l)
    PROVE  LostOnlyByRace' /\ HeldThere' /\ ScanSees'
<1>1. proc[p] \in ProcType /\ DOMAIN proc = Procs /\ blob \in [Layers -> {None, "good", "bad"}]
  BY DEF TypeInv, TypeOK
<1>2. \A q \in Procs \ {p} : proc'[q] = proc[q]
  BY <1>1 DEF PullStat, End
<1>3. /\ proc'[p].pc \in {"fetch", "download"} /\ proc[p].pc = "fetch"
      /\ proc'[p].held = IF blob[l] # None THEN proc[p].held \cup {l} ELSE proc[p].held
  BY <1>1, StoreConstants DEF PullStat, At, ProcType
<1>4. Held(p)' = proc'[p].held /\ mf' = mf
  BY <1>3 DEF Held, PullStat
<1>5. proc[p].held \subseteq Held(p)
  BY DEF Held, TypeInv, Shapes, Shape
<1>6. \A k \in Held(p)' : k \in Held(p) \/ blob'[k] # None
  BY <1>3, <1>4, <1>5 DEF PullStat
<1>7. \A k \in Layers : blob[k] # None => blob'[k] # None
  BY <1>1, <1>3 DEF PullStat
<1> QED
  BY <1>2, <1>3, <1>4, <1>6, <1>7, KeptFiles

\* Nothing is lost when a download ends.
LEMMA PullDownloadKept ==
    ASSUME TypeInv, TypeInv', Safe, Recorded', ~raced, ~raced', NEW p \in Procs,
           NEW l \in Layers, PullDownload(p, l)
    PROVE  LostOnlyByRace' /\ HeldThere' /\ ScanSees'
<1>1. proc[p] \in ProcType /\ DOMAIN proc = Procs /\ blob \in [Layers -> {None, "good", "bad"}]
  BY DEF TypeInv, TypeOK
<1>2. \A q \in Procs \ {p} : proc'[q] = proc[q]
  BY <1>1 DEF PullDownload, End
<1>3. /\ proc'[p].pc = "fetch" /\ proc[p].pc = "download"
      /\ proc'[p].held = proc[p].held \cup {l}
      /\ blob'[l] # None /\ \A k \in Layers \ {l} : blob'[k] = blob[k]
  BY <1>1, StoreConstants DEF PullDownload, At, ProcType
<1>4. Held(p)' = proc'[p].held /\ mf' = mf
  BY <1>3 DEF Held, PullDownload
<1>5. proc[p].held \subseteq Held(p)
  BY DEF Held, TypeInv, Shapes, Shape
<1>6. \A k \in Held(p)' : k \in Held(p) \/ blob'[k] # None
  BY <1>3, <1>4, <1>5 DEF PullDownload
<1>7. \A k \in Layers : blob[k] # None => blob'[k] # None
  BY <1>1, <1>3 DEF PullDownload
<1> QED
  BY <1>2, <1>3, <1>4, <1>6, <1>7, KeptFiles

\* Nothing is lost when a download fails.
LEMMA PullDownloadFailKept ==
    ASSUME TypeInv, TypeInv', Safe, Recorded', ~raced, ~raced', NEW p \in Procs,
           PullDownloadFail(p)
    PROVE  LostOnlyByRace' /\ HeldThere' /\ ScanSees'
<1>1. proc[p] \in ProcType /\ DOMAIN proc = Procs /\ blob \in [Layers -> {None, "good", "bad"}]
  BY DEF TypeInv, TypeOK
<1>2. \A q \in Procs \ {p} : proc'[q] = proc[q]
  BY <1>1 DEF PullDownloadFail, End
<1>3. proc'[p].pc = "idle" /\ proc'[p].held = {}
  BY <1>1, StoreConstants DEF PullDownloadFail, End, NoProc
<1>4. Held(p)' = proc'[p].held /\ mf' = mf
  BY <1>3 DEF Held, PullDownloadFail
<1>5. proc[p].held \subseteq Held(p)
  BY DEF Held, TypeInv, Shapes, Shape
<1>6. \A l \in Held(p)' : l \in Held(p) \/ blob'[l] # None
  BY <1>3, <1>4, <1>5 DEF PullDownloadFail
<1>7. \A l \in Layers : blob[l] # None => blob'[l] # None
  BY <1>1, <1>3 DEF PullDownloadFail
<1> QED
  BY <1>2, <1>3, <1>4, <1>6, <1>7, KeptFiles

\* Nothing is lost when everything is verified.
LEMMA PullVerifiedKept ==
    ASSUME TypeInv, TypeInv', Safe, Recorded', ~raced, ~raced', NEW p \in Procs,
           PullVerified(p)
    PROVE  LostOnlyByRace' /\ HeldThere' /\ ScanSees'
<1>1. proc[p] \in ProcType /\ DOMAIN proc = Procs /\ blob \in [Layers -> {None, "good", "bad"}]
  BY DEF TypeInv, TypeOK
<1>2. \A q \in Procs \ {p} : proc'[q] = proc[q]
  BY <1>1 DEF PullVerified, End
<1>3. proc'[p].pc = "write" /\ proc[p].pc = "fetch" /\ proc'[p].held = proc[p].held
  BY <1>1, StoreConstants DEF PullVerified, At, ProcType
<1>4. Held(p)' = proc'[p].held /\ mf' = mf
  BY <1>3 DEF Held, PullVerified
<1>5. proc[p].held \subseteq Held(p)
  BY DEF Held, TypeInv, Shapes, Shape
<1>6. \A l \in Held(p)' : l \in Held(p) \/ blob'[l] # None
  BY <1>3, <1>4, <1>5 DEF PullVerified
<1>7. \A l \in Layers : blob[l] # None => blob'[l] # None
  BY <1>1, <1>3 DEF PullVerified
<1> QED
  BY <1>2, <1>3, <1>4, <1>6, <1>7, KeptFiles

\* Nothing is lost when a write fails.
LEMMA WriteFailKept ==
    ASSUME TypeInv, TypeInv', Safe, Recorded', ~raced, ~raced', NEW p \in Procs,
           WriteFail(p)
    PROVE  LostOnlyByRace' /\ HeldThere' /\ ScanSees'
<1>1. proc[p] \in ProcType /\ DOMAIN proc = Procs /\ blob \in [Layers -> {None, "good", "bad"}]
  BY DEF TypeInv, TypeOK
<1>2. \A q \in Procs \ {p} : proc'[q] = proc[q]
  BY <1>1 DEF WriteFail, End
<1>3. proc'[p].pc = "idle" /\ proc'[p].held = {}
  BY <1>1, StoreConstants DEF WriteFail, End, NoProc
<1>4. Held(p)' = proc'[p].held /\ mf' = mf
  BY <1>3 DEF Held, WriteFail
<1>5. proc[p].held \subseteq Held(p)
  BY DEF Held, TypeInv, Shapes, Shape
<1>6. \A l \in Held(p)' : l \in Held(p) \/ blob'[l] # None
  BY <1>3, <1>4, <1>5 DEF WriteFail
<1>7. \A l \in Layers : blob[l] # None => blob'[l] # None
  BY <1>1, <1>3 DEF WriteFail
<1> QED
  BY <1>2, <1>3, <1>4, <1>6, <1>7, KeptFiles

\* Nothing is lost when a creation begins.
LEMMA CreateKept ==
    ASSUME TypeInv, TypeInv', Safe, Recorded', ~raced, ~raced', NEW p \in Procs,
           NEW n \in Names, NEW from \in Names, NEW drop \in SUBSET Layers, NEW new \in Layers, Create(p, n, from, drop, new)
    PROVE  LostOnlyByRace' /\ HeldThere' /\ ScanSees'
<1>1. proc[p] \in ProcType /\ DOMAIN proc = Procs /\ blob \in [Layers -> {None, "good", "bad"}]
  BY DEF TypeInv, TypeOK
<1>2. \A q \in Procs \ {p} : proc'[q] = proc[q]
  BY <1>1 DEF Create, End
<1>3. /\ proc'[p].pc = "new"
      /\ \A l \in proc'[p].held : blob[l] # None
  <2> DEFINE ok == Whole(from) /\ \A l \in Content(from) : blob[l] # None
             base == IF ok THEN Content(from) ELSE {}
             r == [NoProc EXCEPT !.pc = "new", !.name = IF ok THEN n ELSE None,
                                 !.want = (base \ drop) \cup {new}, !.todo = {new},
                                 !.held = base \ drop, !.drop = drop, !.old = Content(n)]
  <2>1. proc' = [proc EXCEPT ![p] = r]
    BY DEF Create
  <2>2. \A l \in base : blob[l] # None
    OBVIOUS
  <2> HIDE DEF base, ok
  <2>3. r.pc = "new" /\ r.held \subseteq base
    BY DEF NoProc
  <2> QED
    BY <1>1, <2>1, <2>2, <2>3
<1>4. Held(p)' = proc'[p].held /\ mf' = mf
  BY <1>3 DEF Held, Create
<1>5. proc[p].held \subseteq Held(p)
  BY DEF Held, TypeInv, Shapes, Shape
<1>6. \A l \in Held(p)' : l \in Held(p) \/ blob'[l] # None
  BY <1>3, <1>4, <1>5 DEF Create
<1>7. \A l \in Layers : blob[l] # None => blob'[l] # None
  BY <1>1, <1>3 DEF Create
<1> QED
  BY <1>2, <1>3, <1>4, <1>6, <1>7, KeptFiles

\* Nothing is lost when a creation turns to a layer that it leaves out.
LEMMA CreateDropKept ==
    ASSUME TypeInv, TypeInv', Safe, Recorded', ~raced, ~raced', NEW p \in Procs,
           NEW l \in Layers, CreateDrop(p, l)
    PROVE  LostOnlyByRace' /\ HeldThere' /\ ScanSees'
<1>1. proc[p] \in ProcType /\ proc[p].pc = "new"
  BY DEF TypeInv, TypeOK, CreateDrop, At
<1>2. /\ \A q \in Procs \ {p} : proc'[q] = proc[q]
      /\ proc'[p].pc = "glob" /\ proc'[p].held = proc[p].held
  BY <1>1 DEF CreateDrop, TypeInv, TypeOK, ProcType
<1>3. \A k \in Held(p)' : k \in Held(p)
  BY <1>1, <1>2 DEF Held
<1> QED
  BY <1>2, <1>3, KeptFiles DEF CreateDrop

\* Nothing is lost when a layer is made.
LEMMA CreateLayerKept ==
    ASSUME TypeInv, TypeInv', Safe, Recorded', ~raced, ~raced', NEW p \in Procs,
           NEW l \in Layers, CreateLayer(p, l)
    PROVE  LostOnlyByRace' /\ HeldThere' /\ ScanSees'
<1>1. proc[p] \in ProcType /\ DOMAIN proc = Procs /\ blob \in [Layers -> {None, "good", "bad"}]
  BY DEF TypeInv, TypeOK
<1>2. \A q \in Procs \ {p} : proc'[q] = proc[q]
  BY <1>1 DEF CreateLayer, End
<1>3. /\ proc'[p].pc \in {"write", "idle"} /\ proc[p].pc = "new"
      /\ proc'[p].held \subseteq proc[p].held \cup {l}
      /\ blob'[l] # None /\ \A k \in Layers \ {l} : blob'[k] = blob[k]
  BY <1>1, StoreConstants DEF CreateLayer, At, ProcType, End, NoProc
<1>4. Held(p)' = proc'[p].held /\ mf' = mf
  BY <1>3 DEF Held, CreateLayer
<1>5. proc[p].held \subseteq Held(p)
  BY DEF Held, TypeInv, Shapes, Shape
<1>6. \A k \in Held(p)' : k \in Held(p) \/ blob'[k] # None
  BY <1>3, <1>4, <1>5 DEF CreateLayer
<1>7. \A k \in Layers : blob[k] # None => blob'[k] # None
  BY <1>1, <1>3 DEF CreateLayer
<1> QED
  BY <1>2, <1>3, <1>4, <1>6, <1>7, KeptFiles

\* Nothing is lost when a deletion begins.
LEMMA DeleteKept ==
    ASSUME TypeInv, TypeInv', Safe, Recorded', ~raced, ~raced', NEW p \in Procs,
           NEW n \in Names, Delete(p, n)
    PROVE  LostOnlyByRace' /\ HeldThere' /\ ScanSees'
<1>1. proc[p] \in ProcType /\ DOMAIN proc = Procs /\ blob \in [Layers -> {None, "good", "bad"}]
  BY DEF TypeInv, TypeOK
<1>2. \A q \in Procs \ {p} : proc'[q] = proc[q]
  BY <1>1 DEF Delete, End
<1>3. proc'[p].pc = "delete" /\ proc'[p].held = {}
  BY <1>1, StoreConstants DEF Delete, NoProc
<1>4. Held(p)' = proc'[p].held /\ mf' = mf
  BY <1>3 DEF Held, Delete
<1>5. proc[p].held \subseteq Held(p)
  BY DEF Held, TypeInv, Shapes, Shape
<1>6. \A l \in Held(p)' : l \in Held(p) \/ blob'[l] # None
  BY <1>3, <1>4, <1>5 DEF Delete
<1>7. \A l \in Layers : blob[l] # None => blob'[l] # None
  BY <1>1, <1>3 DEF Delete
<1> QED
  BY <1>2, <1>3, <1>4, <1>6, <1>7, KeptFiles

\* Nothing is lost when a removal is over.
LEMMA RemoveDoneKept ==
    ASSUME TypeInv, TypeInv', Safe, Recorded', ~raced, ~raced', NEW p \in Procs,
           RemoveDone(p)
    PROVE  LostOnlyByRace' /\ HeldThere' /\ ScanSees'
<1>1. proc[p] \in ProcType /\ DOMAIN proc = Procs /\ blob \in [Layers -> {None, "good", "bad"}]
  BY DEF TypeInv, TypeOK
<1>2. \A q \in Procs \ {p} : proc'[q] = proc[q]
  BY <1>1 DEF RemoveDone, End
<1>3. /\ proc[p].pc = "scan" /\ proc'[p].pc \in {"idle", "new"}
      /\ proc'[p].held \subseteq proc[p].held
  BY <1>1, StoreConstants DEF RemoveDone, At, ProcType, End, NoProc
<1>4. Held(p)' = proc'[p].held /\ mf' = mf
  BY <1>3 DEF Held, RemoveDone
<1>5. proc[p].held \subseteq Held(p)
  BY DEF Held, TypeInv, Shapes, Shape
<1>6. \A l \in Held(p)' : l \in Held(p) \/ blob'[l] # None
  BY <1>3, <1>4, <1>5 DEF RemoveDone
<1>7. \A l \in Layers : blob[l] # None => blob'[l] # None
  BY <1>1, <1>3 DEF RemoveDone
<1> QED
  BY <1>2, <1>3, <1>4, <1>6, <1>7, KeptFiles

\* Nothing is lost when a copy begins: it relies on what its source names.
LEMMA CopyKept ==
    ASSUME TypeInv, TypeInv', Safe, Recorded', ~raced, ~raced', NEW p \in Procs,
           NEW from \in Names, NEW n \in Names, Copy(p, from, n)
    PROVE  LostOnlyByRace' /\ HeldThere' /\ ScanSees'
<1>1. \A q \in Procs \ {p} : proc'[q] = proc[q]
  BY DEF Copy, TypeInv, TypeOK
<1>2. proc'[p].pc = "copy" /\ proc'[p].src = from /\ proc'[p].held = {}
  BY DEF Copy, TypeInv, TypeOK, NoProc
<1>3. \A l \in Held(p)' : Named(l)'
  BY <1>2, StoreConstants DEF Held, Opened, Named, Content, Whole
<1> QED
  BY <1>1, <1>2, <1>3, KeptFiles DEF Copy

\* Nothing is lost when the manifests are listed: all of them are to be read.
LEMMA GlobKept ==
    ASSUME TypeInv, TypeInv', Safe, Recorded', ~raced, ~raced', NEW p \in Procs, Glob(p)
    PROVE  LostOnlyByRace' /\ HeldThere' /\ ScanSees'
<1>1. proc[p] \in ProcType
  BY DEF TypeInv, TypeOK
<1>2. \A q \in Procs \ {p} : proc'[q] = proc[q]
  BY DEF Glob, TypeInv, TypeOK
<1>3. /\ proc[p].pc = "glob" /\ proc'[p].pc = "scan" /\ proc'[p].held = proc[p].held
      /\ proc'[p].left = {n \in Names : mf[n] # None}
  BY <1>1 DEF Glob, At, TypeInv, TypeOK, ProcType
<1>4. \A l \in Held(p)' : l \in Held(p)
  BY <1>3 DEF Held
<1>5. \A n \in Names : Content(n)' # {} => n \in proc'[p].left
  BY <1>3 DEF Content, Whole, Glob
<1> QED
  BY <1>2, <1>3, <1>4, <1>5, KeptFiles DEF Glob

\* Nothing is lost when a manifest is read: what it names stays.
LEMMA ScanKept ==
    ASSUME TypeInv, TypeInv', Safe, Recorded', ~raced, ~raced', NEW p \in Procs, Scan(p)
    PROVE  LostOnlyByRace' /\ HeldThere' /\ ScanSees'
<1>1. proc[p] \in ProcType /\ proc[p].pc = "scan"
  BY DEF TypeInv, TypeOK, Scan, At
<1> DEFINE m == Min(proc[p].left)
<1>2. /\ \A q \in Procs \ {p} : proc'[q] = proc[q]
      /\ proc'[p].pc = "scan" /\ proc'[p].held = proc[p].held
      /\ \/ proc'[p].cand = {}
         \/ proc'[p].left = proc[p].left \ {m} /\ proc'[p].cand = proc[p].cand \ Content(m)
  <2>1. CASE proc' = [proc EXCEPT ![p].left = {}, ![p].cand = {}]
    BY <1>1, <2>1 DEF TypeInv, TypeOK, ProcType
  <2>2. CASE proc' = [proc EXCEPT ![p].left = @ \ {m}, ![p].cand = @ \ Content(m)]
    BY <1>1, <2>2 DEF TypeInv, TypeOK, ProcType
  <2> QED
    BY <2>1, <2>2 DEF Scan
<1> HIDE DEF m
<1>3. \A l \in Held(p)' : l \in Held(p)
  BY <1>1, <1>2 DEF Held
<1>4. ASSUME NEW l \in proc'[p].cand, NEW n \in Names, l \in Content(n)'
      PROVE  n \in proc'[p].left
  <2>1. l \in Content(n)
    BY <1>4 DEF Content, Whole, Scan
  <2>2. n \in proc[p].left
    BY <1>1, <1>2, <1>4, <2>1 DEF Safe, ScanSees, At
  <2> QED
    BY <1>2, <1>4, <2>1, <2>2
<1> QED
  BY <1>2, <1>3, <1>4, KeptFiles DEF Scan

\* A layer that is removed is named by no manifest, and nobody relies on it.
LEMMA RemoveLayerKept ==
    ASSUME TypeInv, TypeInv', Safe, Recorded', ~raced, ~raced', NEW p \in Procs,
           NEW l \in Layers, RemoveLayer(p, l)
    PROVE  LostOnlyByRace' /\ HeldThere' /\ ScanSees'
<1>1. proc[p] \in ProcType /\ proc[p].pc = "scan" /\ proc[p].left = {} /\ l \in proc[p].cand
  BY DEF TypeInv, TypeOK, RemoveLayer, At
<1>2. /\ \A q \in Procs \ {p} : proc'[q] = proc[q]
      /\ proc'[p].pc = "scan" /\ proc'[p].held = proc[p].held
      /\ proc'[p].left = {} /\ proc'[p].cand = proc[p].cand \ {l}
  BY <1>1 DEF RemoveLayer, TypeInv, TypeOK, ProcType
<1>3. Held(p)' = proc[p].held /\ Held(p) = proc[p].held
  BY <1>1, <1>2 DEF Held
<1>4. \A n \in Names : Content(n)' = Content(n)
  BY DEF RemoveLayer, Content, Whole
<1>5. \A k \in proc[p].cand : ~Named(k)
  BY <1>1 DEF Safe, ScanSees, At, Named
<1>6. \A q \in Procs \ {p} : l \notin Held(q)
  BY <1>1 DEF Safe, Recorded, Overlap, At
<1>7. l \notin Held(p)'
  BY <1>1, <1>3 DEF TypeInv, Shapes, Shape
<1>8. \A k \in Layers : blob[k] # None /\ blob'[k] = None => k = l
  BY DEF RemoveLayer, TypeInv, TypeOK
<1>9. ~Named(l)'
  BY <1>1, <1>4, <1>5 DEF Named
<1>10. \A q \in Procs \ {p} : \A k \in Held(q)' : k \in Held(q) \/ Named(k)'
  BY <1>2, OthersHeld
<1>11. \A k \in proc'[p].cand : \A n \in Names : k \in Content(n)' => n \in proc'[p].left
  BY <1>2, <1>4, <1>5 DEF Named
<1> QED
  BY <1>2, <1>3, <1>4, <1>6, <1>7, <1>8, <1>9, <1>10, <1>11, Kept DEF Safe

\* A wrong blob that is removed is named by no manifest, and no other operation
\* relies on it.
LEMMA PullVerifyKept ==
    ASSUME TypeInv, TypeInv', Safe, Recorded', ~raced, ~raced', NEW p \in Procs,
           NEW l \in Layers, PullVerify(p, l)
    PROVE  LostOnlyByRace' /\ HeldThere' /\ ScanSees'
<1>1. proc[p] \in ProcType /\ proc[p].pc = "fetch" /\ l \in proc[p].fresh
  BY DEF TypeInv, TypeOK, PullVerify, At
<1>2. /\ \A q \in Procs \ {p} : proc'[q] = proc[q]
      /\ \/ blob[l] = "good" /\ proc'[p].pc = "fetch" /\ proc'[p].held = proc[p].held
         \/ blob[l] # "good" /\ proc'[p].pc = "idle" /\ proc'[p].held = {}
  BY <1>1 DEF PullVerify, TypeInv, TypeOK, ProcType, End, NoProc
<1>3. Held(p)' \subseteq Held(p)
  BY <1>1, <1>2 DEF Held
<1>4. \A n \in Names : Content(n)' = Content(n)
  BY DEF PullVerify, Content, Whole
<1>5. \A k \in Layers : blob[k] # None /\ blob'[k] = None => k = l /\ blob[l] = "bad"
  BY DEF PullVerify, TypeInv, TypeOK
<1>6. blob[l] = "bad" => ~Named(l) /\ \A q \in Procs \ {p} : l \notin Held(q)
  BY <1>1 DEF Safe, Recorded, Overlap
<1>7. blob[l] = "bad" => Held(p)' = {}
  BY <1>2 DEF Held
<1>8. Named(l)' = Named(l)
  BY <1>4 DEF Named
<1>9. \A q \in Procs \ {p} : \A k \in Held(q)' : k \in Held(q) \/ Named(k)'
  BY <1>2, OthersHeld
<1> QED
  BY <1>2, <1>3, <1>4, <1>5, <1>6, <1>7, <1>8, <1>9, Kept DEF Safe

\* The steps that write a manifest: it gets only what the operation relies on.
LEMMA KeptManifest ==
    ASSUME TypeInv, TypeInv', Safe, Recorded', ~raced, ~raced', NEW p \in Procs,
           \A q \in Procs \ {p} : proc'[q] = proc[q],
           blob' = blob, proc'[p].pc # "scan", Held(p)' \subseteq Held(p),
           \A n \in Names : \A l \in Content(n)' : l \in Content(n) \/ l \in Held(p)
    PROVE  LostOnlyByRace' /\ HeldThere' /\ ScanSees'
<1>1. \A q \in Procs \ {p} : \A l \in Held(q)' : l \in Held(q) \/ Named(l)'
  BY OthersHeld
<1> QED
  BY <1>1, Kept DEF Safe

\* Nothing is lost when a manifest is truncated.
LEMMA TruncateKept ==
    ASSUME TypeInv, TypeInv', Safe, Recorded', ~raced, ~raced', NEW p \in Procs, Truncate(p)
    PROVE  LostOnlyByRace' /\ HeldThere' /\ ScanSees'
<1>1. proc[p] \in ProcType /\ proc[p].pc = "write"
  BY DEF TypeInv, TypeOK, Truncate, At
<1>2. /\ \A q \in Procs \ {p} : proc'[q] = proc[q]
      /\ proc'[p].pc = "contents" /\ proc'[p].held = proc[p].held
  BY <1>1 DEF Truncate, TypeInv, TypeOK, ProcType
<1>3. Held(p)' \subseteq Held(p)
  BY <1>1, <1>2 DEF Held
<1>4. \A n \in Names : \A l \in Content(n)' : l \in Content(n)
  BY DEF Truncate, Content, Whole, TypeInv, TypeOK
<1> QED
  BY <1>2, <1>3, <1>4, KeptManifest DEF Truncate

\* Nothing is lost when a manifest is written.
LEMMA WriteContentsKept ==
    ASSUME TypeInv, TypeInv', Safe, Recorded', ~raced, ~raced', NEW p \in Procs, WriteContents(p)
    PROVE  LostOnlyByRace' /\ HeldThere' /\ ScanSees'
<1>1. proc[p] \in ProcType /\ proc[p].pc = "contents" /\ Shape(p)
  BY DEF TypeInv, TypeOK, WriteContents, At, Shapes
<1>2. /\ \A q \in Procs \ {p} : proc'[q] = proc[q]
      /\ proc'[p].pc \in {"idle", "glob"} /\ proc'[p].held = {}
  <2>1. CASE End(p)
    BY <2>1, EndType DEF NoProc
  <2>2. CASE proc' = [proc EXCEPT ![p] = [NoProc EXCEPT !.pc = "glob", !.cand = proc[p].old]]
    BY <2>2 DEF TypeInv, TypeOK, NoProc
  <2> QED
    BY <2>1, <2>2 DEF WriteContents
<1>3. Held(p)' = {} /\ Held(p) = proc[p].held
  BY <1>1, <1>2 DEF Held
<1>4. proc[p].want \subseteq proc[p].held
  BY <1>1 DEF Shape
<1>5. \A n \in Names : \A l \in Content(n)' : l \in Content(n) \/ l \in Held(p)
  <2>1. \A n \in Names : mf'[n] = mf[n] \/ mf'[n] = proc[p].want
    BY DEF WriteContents, TypeInv, TypeOK
  <2> QED
    BY <1>3, <1>4, <2>1 DEF Content, Whole
<1> QED
  BY <1>2, <1>3, <1>5, KeptManifest DEF WriteContents

\* Nothing is lost when the target of a copy is truncated.
LEMMA CopyCreateKept ==
    ASSUME TypeInv, TypeInv', Safe, Recorded', ~raced, ~raced', NEW p \in Procs, CopyCreate(p)
    PROVE  LostOnlyByRace' /\ HeldThere' /\ ScanSees'
<1>1. proc[p] \in ProcType /\ proc[p].pc = "copy" /\ Shape(p)
  BY DEF TypeInv, TypeOK, CopyCreate, At, Shapes
<1>2. /\ \A q \in Procs \ {p} : proc'[q] = proc[q]
      /\ proc'[p].pc = "copying" /\ proc'[p].held = proc[p].held
      /\ proc'[p].src = proc[p].src /\ proc'[p].want = proc[p].want
  BY <1>1 DEF CopyCreate, TypeInv, TypeOK, ProcType
<1>3. \A n \in Names : mf'[n] = mf[n] \/ mf'[n] = Torn
  BY DEF CopyCreate, TypeInv, TypeOK
<1>4. Held(p)' \subseteq Held(p)
  BY <1>1, <1>2, <1>3 DEF Held, Opened, Shape, ProcType
<1>5. \A n \in Names : \A l \in Content(n)' : l \in Content(n)
  BY <1>3 DEF Content, Whole
<1> QED
  BY <1>2, <1>4, <1>5, KeptManifest DEF CopyCreate

\* Nothing is lost when a copy is written.
LEMMA CopyContentsKept ==
    ASSUME TypeInv, TypeInv', Safe, Recorded', ~raced, ~raced', NEW p \in Procs, CopyContents(p)
    PROVE  LostOnlyByRace' /\ HeldThere' /\ ScanSees'
<1>1. proc[p] \in ProcType /\ proc[p].pc = "copying"
  BY DEF TypeInv, TypeOK, CopyContents, At
<1>2. /\ \A q \in Procs \ {p} : proc'[q] = proc[q]
      /\ proc'[p].pc = "idle" /\ proc'[p].held = {}
  BY EndType DEF CopyContents, NoProc
<1>3. Held(p)' = {}
  BY <1>2 DEF Held
<1>4. \A n \in Names : mf'[n] = mf[n] \/ mf'[n] = Opened(p)
  BY DEF CopyContents, TypeInv, TypeOK
<1>5. \A n \in Names : \A l \in Content(n)' : l \in Content(n) \/ l \in Held(p)
  BY <1>1, <1>4 DEF Content, Whole, Held
<1> QED
  BY <1>2, <1>3, <1>5, KeptManifest DEF CopyContents

\* Nothing is lost when a manifest is removed: those who have it open keep what
\* it says.
LEMMA DeleteManifestKept ==
    ASSUME TypeInv, TypeInv', Safe, Recorded', ~raced, ~raced', NEW p \in Procs, DeleteManifest(p)
    PROVE  LostOnlyByRace' /\ HeldThere' /\ ScanSees'
<1> DEFINE n == proc[p].name
<1>1. proc[p] \in ProcType /\ proc[p].pc = "delete" /\ Shape(p) /\ n \in Names
  BY DEF TypeInv, TypeOK, DeleteManifest, At, Shapes, Shape
<1>2. mf' = [mf EXCEPT ![n] = None] /\ blob' = blob
  BY Unlinked DEF DeleteManifest
<1>3. \A m \in Names : m # n => mf'[m] = mf[m]
  BY <1>2 DEF TypeInv, TypeOK
<1>4. proc'[p].pc \in {"idle", "glob"} /\ proc'[p].held = {}
  <2>1. proc[p].held = {}
    BY <1>1 DEF Shape
  <2>2. CASE mf[n] = None
    <3>1. proc'[p] = NoProc
      BY <2>2, Unlinked
    <3> QED
      BY <3>1 DEF NoProc
  <2>3. CASE mf[n] # None
    <3>1. proc'[p] = [proc[p] EXCEPT !.pc = "glob"]
      BY <2>3, Unlinked
    <3> QED
      BY <1>1, <2>1, <3>1 DEF ProcType
  <2> QED
    BY <2>2, <2>3
<1>5. Held(p)' = {}
  BY <1>4 DEF Held
<1>6. ASSUME NEW q \in Procs \ {p}
      PROVE  /\ proc'[q].pc = proc[q].pc /\ proc'[q].cand = proc[q].cand
             /\ proc'[q].left = proc[q].left
             /\ Held(q)' = Held(q)
  <2>1. proc[q] \in ProcType /\ Shape(q)
    BY DEF TypeInv, TypeOK, Shapes
  <2>2. proc'[q] = Detached(q, n)
    BY Unlinked
  <2> HIDE DEF n
  <2>3. /\ proc'[q].pc = proc[q].pc /\ proc'[q].cand = proc[q].cand
        /\ proc'[q].left = proc[q].left /\ proc'[q].held = proc[q].held
        /\ proc'[q].want = IF proc[q].src = n THEN mf[n] ELSE proc[q].want
        /\ proc'[q].src = IF proc[q].src = n THEN None ELSE proc[q].src
    BY <1>1, <2>2, DetachedIs
  <2>4. Opened(q)' = Opened(q)
    BY <1>1, <1>3, <2>1, <2>3, StoreConstants DEF Opened, ProcType
  <2> QED
    BY <2>3, <2>4 DEF Held
<1>7. \A m \in Names : \A l \in Content(m)' : l \in Content(m)
  <2>1. mf'[n] = None
    BY <1>1, <1>2 DEF TypeInv, TypeOK
  <2> QED
    BY <1>3, <2>1 DEF Content, Whole
<1> HIDE DEF n
<1> QED
  BY <1>2, <1>4, <1>5, <1>6, <1>7, Kept DEF Safe

\* Nothing is lost when the server starts again: it prunes what is not named.
LEMMA RestartKept ==
    ASSUME TypeInv, TypeInv', Safe, ~raced, ~raced', Restart
    PROVE  LostOnlyByRace' /\ HeldThere' /\ ScanSees'
<1>1. \A p \in Procs : proc'[p].pc = "idle" /\ proc'[p].held = {}
  BY DEF Restart, NoProc
<1>2. \A n \in Names : Content(n)' = Content(n)
  BY DEF Restart, Content, Whole
<1>3. \A l \in Layers : Named(l) => blob'[l] = blob[l]
  BY DEF Restart, Named
<1>4. LostOnlyByRace'
  BY <1>2, <1>3 DEF Safe, LostOnlyByRace, Named
<1>5. HeldThere'
  BY <1>1 DEF HeldThere, Held
<1>6. ScanSees'
  BY <1>1 DEF ScanSees, At
<1> QED
  BY <1>4, <1>5, <1>6

\* How one step can leave a wrong blob unverified: a blob gets wrong only in the
\* hands of the acting operation, which keeps it or ends.
LEMMA KeptFresh ==
    ASSUME TypeInv, TypeInv', WrongIsFresh, History, NEW p \in Procs,
           \A q \in Procs \ {p} : proc'[q].fresh = proc[q].fresh,
           \A l \in Layers : blob'[l] = "bad" => blob[l] = "bad" \/ l \in proc'[p].fresh,
           \A l \in proc[p].fresh : blob'[l] = "bad" => l \in proc'[p].fresh \/ proc'[p].pc = "idle"
    PROVE  WrongIsFresh'
<1> SUFFICES ASSUME ~abandoned', NEW l \in Layers, blob'[l] = "bad"
             PROVE  \E q \in Procs : l \in proc'[q].fresh
  BY DEF WrongIsFresh
<1>1. ~abandoned /\ ~Abandons
  BY DEF History
<1>2. CASE l \in proc'[p].fresh
  BY <1>2
<1>3. CASE l \notin proc'[p].fresh
  <2>1. PICK q \in Procs : l \in proc[q].fresh
    BY <1>1, <1>3 DEF WrongIsFresh
  <2>2. q # p
    BY <1>1, <1>3, <2>1 DEF Abandons
  <2> QED
    BY <2>1, <2>2
<1> QED
  BY <1>2, <1>3

\* Each step of an operation keeps a wrong blob in the hands of those who
\* downloaded it, unless one of them ends.
LEMMA StepFresh ==
    ASSUME TypeInv, TypeInv', WrongIsFresh, NEW p \in Procs, Step(p)
    PROVE  WrongIsFresh'
<1>1. /\ proc[p] \in ProcType /\ DOMAIN proc = Procs
      /\ blob \in [Layers -> {None, "good", "bad"}]
      /\ proc[p].pc \notin {"fetch", "download"} => proc[p].fresh = {}
  BY DEF TypeInv, TypeOK, Shapes, Shape
<1>2. ASSUME NEW l \in Layers, PullStat(p, l) PROVE WrongIsFresh'
  <2>1. \A q \in Procs \ {p} : proc'[q] = proc[q]
    BY <1>1, <1>2 DEF PullStat
  <2>2. proc'[p].fresh = proc[p].fresh
    BY <1>1, <1>2 DEF PullStat, ProcType
  <2> QED
    BY <1>2, <2>1, <2>2, KeptFresh DEF PullStat
<1>3. ASSUME NEW l \in Layers, PullDownload(p, l) PROVE WrongIsFresh'
  <2>1. \A q \in Procs \ {p} : proc'[q] = proc[q]
    BY <1>1, <1>3 DEF PullDownload
  <2>2. proc'[p].fresh = proc[p].fresh \cup {l}
    BY <1>1, <1>3 DEF PullDownload, ProcType
  <2>3. \A k \in Layers \ {l} : blob'[k] = blob[k]
    BY <1>1, <1>3 DEF PullDownload
  <2> QED
    BY <1>3, <2>1, <2>2, <2>3, KeptFresh DEF PullDownload
<1>4. ASSUME NEW l \in Layers, PullVerify(p, l) PROVE WrongIsFresh'
  <2>1. \A q \in Procs \ {p} : proc'[q] = proc[q]
    BY <1>1, <1>4 DEF PullVerify, End
  <2>2. \A k \in Layers : blob'[k] = "bad" => blob[k] = "bad" /\ k # l
    BY <1>1, <1>4, StoreConstants DEF PullVerify
  <2>3. proc'[p].fresh = proc[p].fresh \ {l} \/ proc'[p].pc = "idle"
    BY <1>1, <1>4 DEF PullVerify, ProcType, End, NoProc
  <2>4. \A k \in proc[p].fresh : k \in Layers
    BY <1>1 DEF ProcType
  <2> QED
    BY <1>4, <2>1, <2>2, <2>3, <2>4, KeptFresh DEF PullVerify
<1>5. ASSUME PullVerified(p) PROVE WrongIsFresh'
  <2>1. \A q \in Procs \ {p} : proc'[q] = proc[q]
    BY <1>1, <1>5 DEF PullVerified
  <2>2. proc[p].fresh = {}
    BY <1>5 DEF PullVerified
  <2> QED
    BY <1>5, <2>1, <2>2, KeptFresh DEF PullVerified
<1>6. ASSUME PullDownloadFail(p) PROVE WrongIsFresh'
  <2>1. (\A q \in Procs \ {p} : proc'[q] = proc[q]) /\ proc'[p].pc = "idle"
    BY <1>6, EndType DEF PullDownloadFail, NoProc
  <2> QED
    BY <1>6, <2>1, KeptFresh DEF PullDownloadFail
<1>7. ASSUME History, proc[p].pc \notin {"fetch", "download"},
             \A q \in Procs \ {p} : proc'[q].fresh = proc[q].fresh,
             \A l \in Layers : blob'[l] = "bad" => blob[l] = "bad"
      PROVE  WrongIsFresh'
  BY <1>1, <1>7, KeptFresh
<1>8. ASSUME NEW l \in Layers, RemoveLayer(p, l) \/ CreateDrop(p, l) \/ CreateLayer(p, l) PROVE WrongIsFresh'
  <2>1. \A q \in Procs \ {p} : proc'[q] = proc[q]
    BY <1>1, <1>8 DEF RemoveLayer, CreateDrop, CreateLayer, End
  <2>2. \A k \in Layers : blob'[k] = "bad" => blob[k] = "bad"
    BY <1>1, <1>8, StoreConstants DEF RemoveLayer, CreateDrop, CreateLayer
  <2> QED
    BY <1>7, <1>8, <2>1, <2>2 DEF RemoveLayer, CreateDrop, CreateLayer, At
<1>9. ASSUME Truncate(p) \/ WriteContents(p) \/ WriteFail(p) \/ Glob(p) \/ RemoveDone(p)
             \/ CopyCreate(p) \/ CopyContents(p)
      PROVE  WrongIsFresh'
  <2>1. \A q \in Procs \ {p} : proc'[q] = proc[q]
    BY <1>1, <1>9
       DEF Truncate, WriteContents, WriteFail, Glob, RemoveDone, CopyCreate, CopyContents, End
  <2> QED
    BY <1>7, <1>9, <2>1
       DEF Truncate, WriteContents, WriteFail, Glob, RemoveDone, CopyCreate, CopyContents, At
<1>10. ASSUME Scan(p) PROVE WrongIsFresh'
  <2>1. \A q \in Procs \ {p} : proc'[q] = proc[q]
    BY <1>1, <1>10 DEF Scan
  <2> QED
    BY <1>7, <1>10, <2>1 DEF Scan, At
<1>11. ASSUME NEW n \in Names, \/ Delete(p, n)
                               \/ \E layers \in Manifest : Pull(p, n, layers)
                               \/ \E from \in Names : Copy(p, from, n)
       PROVE  WrongIsFresh'
  <2>1. \A q \in Procs \ {p} : proc'[q] = proc[q]
    BY <1>1, <1>11 DEF Delete, Pull, Copy
  <2> QED
    BY <1>7, <1>11, <2>1 DEF Delete, Pull, Copy, Begin
<1>12. ASSUME NEW n \in Names, NEW from \in Names, NEW drop \in SUBSET Layers, NEW new \in Layers,
              Create(p, n, from, drop, new)
       PROVE  WrongIsFresh'
  <2>1. \A q \in Procs \ {p} : proc'[q] = proc[q]
    BY <1>1, <1>12 DEF Create
  <2> QED
    BY <1>7, <1>12, <2>1 DEF Create, Begin
<1>13. ASSUME DeleteManifest(p) PROVE WrongIsFresh'
  <2>1. proc[p].pc = "delete" /\ proc[p].name \in Names
    BY <1>13 DEF DeleteManifest, At, TypeInv, Shapes, Shape
  <2>2. \A q \in Procs \ {p} : proc'[q].fresh = proc[q].fresh
    <3> SUFFICES ASSUME NEW q \in Procs \ {p} PROVE proc'[q].fresh = proc[q].fresh
      OBVIOUS
    <3>1. proc'[q] = Detached(q, proc[p].name)
      BY <1>13, Unlinked
    <3>2. Detached(q, proc[p].name).fresh = proc[q].fresh
      BY <2>1, DetachedIs
    <3> QED
      BY <3>1, <3>2
  <2> QED
    BY <1>7, <1>13, <2>1, <2>2 DEF DeleteManifest
<1> QED
  BY <1>2, <1>3, <1>4, <1>5, <1>6, <1>8, <1>9, <1>10, <1>11, <1>12, <1>13 DEF Step

\* A restart ends every operation.
LEMMA RestartFresh ==
    ASSUME TypeInv, TypeInv', WrongIsFresh, Restart
    PROVE  WrongIsFresh'
<1> SUFFICES ASSUME ~abandoned', NEW l \in Layers, blob'[l] = "bad" PROVE FALSE
  BY DEF WrongIsFresh
<1>1. ~abandoned /\ ~Abandons
  BY DEF Restart, History
<1>2. blob[l] = "bad"
  BY StoreConstants DEF Restart
<1>3. PICK q \in Procs : l \in proc[q].fresh
  BY <1>1, <1>2 DEF WrongIsFresh
<1>4. proc'[q].pc = "idle"
  BY DEF Restart, NoProc
<1> QED
  BY <1>1, <1>3, <1>4 DEF Abandons

\* Nothing is lost in a step without a race.
LEMMA StepKept ==
    ASSUME TypeInv, TypeInv', Safe, Recorded', ~raced, ~raced', NEW p \in Procs, Step(p)
    PROVE  LostOnlyByRace' /\ HeldThere' /\ ScanSees'
<1>1. CASE \E n \in Names, layers \in Manifest : Pull(p, n, layers)
  BY <1>1, PullKept
<1>2. CASE \E l \in Layers : \/ PullStat(p, l) \/ PullDownload(p, l) \/ PullVerify(p, l)
                             \/ RemoveLayer(p, l) \/ CreateDrop(p, l) \/ CreateLayer(p, l)
  BY <1>2, PullStatKept, PullDownloadKept, PullVerifyKept, RemoveLayerKept, CreateDropKept,
     CreateLayerKept
<1>3. CASE PullDownloadFail(p) \/ PullVerified(p)
  BY <1>3, PullDownloadFailKept, PullVerifiedKept
<1>4. CASE Truncate(p) \/ WriteContents(p) \/ WriteFail(p)
  BY <1>4, TruncateKept, WriteContentsKept, WriteFailKept
<1>5. CASE Glob(p) \/ Scan(p) \/ RemoveDone(p)
  BY <1>5, GlobKept, ScanKept, RemoveDoneKept
<1>6. CASE \E n, from \in Names : Copy(p, from, n)
  BY <1>6, CopyKept
<1>7. CASE \E n, from \in Names : \E new \in Layers, drop \in SUBSET Layers :
              Create(p, n, from, drop, new)
  BY <1>7, CreateKept
<1>8. CASE CopyCreate(p) \/ CopyContents(p)
  BY <1>8, CopyCreateKept, CopyContentsKept
<1>9. CASE DeleteManifest(p) \/ \E n \in Names : Delete(p, n)
  BY <1>9, DeleteKept, DeleteManifestKept
<1> QED
  BY <1>1, <1>2, <1>3, <1>4, <1>5, <1>6, <1>7, <1>8, <1>9 DEF Step

\* Every step keeps the record of races and of unverified blobs.
LEMMA NextHistory == Next => History
<1>1. ASSUME NEW p \in Procs, NEW l \in Layers,
             \/ PullStat(p, l) \/ PullDownload(p, l) \/ PullVerify(p, l)
             \/ RemoveLayer(p, l) \/ CreateDrop(p, l) \/ CreateLayer(p, l)
      PROVE  History
  BY <1>1 DEF PullStat, PullDownload, PullVerify, RemoveLayer, CreateDrop, CreateLayer
<1>2. ASSUME NEW p \in Procs, \/ PullDownloadFail(p) \/ PullVerified(p) \/ Truncate(p)
                              \/ WriteContents(p) \/ WriteFail(p)
      PROVE  History
  BY <1>2 DEF PullDownloadFail, PullVerified, Truncate, WriteContents, WriteFail
<1>3. ASSUME NEW p \in Procs, \/ Glob(p) \/ Scan(p) \/ RemoveDone(p) \/ CopyCreate(p)
                              \/ CopyContents(p) \/ DeleteManifest(p)
      PROVE  History
  BY <1>3 DEF Glob, Scan, RemoveDone, CopyCreate, CopyContents, DeleteManifest
<1>4. ASSUME NEW p \in Procs, NEW n \in Names,
             \/ Delete(p, n)
             \/ \E layers \in Manifest : Pull(p, n, layers)
             \/ \E from \in Names : Copy(p, from, n)
             \/ \E from \in Names : \E new \in Layers, drop \in SUBSET Layers :
                    Create(p, n, from, drop, new)
      PROVE  History
  BY <1>4 DEF Delete, Pull, Copy, Create
<1>5. Restart => History
  BY DEF Restart
<1>6. ASSUME NEW p \in Procs, Step(p) PROVE History
  BY <1>1, <1>2, <1>3, <1>4, <1>6 DEF Step
<1> QED
  BY <1>5, <1>6 DEF Next

StoreInv == TypeInv /\ Safe /\ WrongIsFresh

\* Initially exactly the named layers are there, and good.
LEMMA InitStore == Init => StoreInv
<1> SUFFICES ASSUME Init PROVE StoreInv
  OBVIOUS
<1>1. TypeInv
  BY InitType
<1>2. /\ \A p \in Procs : /\ proc[p].pc = "idle" /\ proc[p].held = {} /\ proc[p].cand = {}
                          /\ proc[p].fresh = {}
      /\ \A l \in Layers : Named(l) <=> blob[l] = "good"
      /\ \A l \in Layers : blob[l] # "bad"
  BY StoreConstants DEF Init, NoProc, Named
<1>3. LostOnlyByRace
  BY <1>2, StoreConstants DEF LostOnlyByRace
<1>4. HeldThere /\ ScanSees /\ Recorded
  BY <1>2 DEF HeldThere, Held, ScanSees, At, Recorded, Overlap
<1>5. WrongIsFresh
  BY <1>2 DEF WrongIsFresh
<1> QED
  BY <1>1, <1>3, <1>4, <1>5 DEF StoreInv, Safe

\* The invariant is inductive.
LEMMA NextStore == StoreInv /\ [Next]_vars => StoreInv'
<1> SUFFICES ASSUME StoreInv, [Next]_vars PROVE StoreInv'
  OBVIOUS
<1>1. TypeInv'
  BY NextType DEF StoreInv
<1>2. CASE UNCHANGED vars
  <2>1. Safe'
    BY <1>2 DEF vars, StoreInv, Safe, LostOnlyByRace, HeldThere, ScanSees, Recorded, Overlap, Held,
                Opened, Named, Content, Whole, At
  <2>2. WrongIsFresh'
    BY <1>2 DEF vars, StoreInv, WrongIsFresh
  <2> QED
    BY <1>1, <2>1, <2>2 DEF StoreInv
<1>3. CASE Next
  <2>1. Recorded'
    BY <1>3, NextHistory DEF History, Recorded
  <2>2. raced => raced'
    BY <1>3, NextHistory DEF History
  <2>3. LostOnlyByRace' /\ HeldThere' /\ ScanSees'
    <3>1. CASE raced'
      BY <3>1 DEF LostOnlyByRace, HeldThere, ScanSees
    <3>2. CASE ~raced'
      BY <1>1, <1>3, <2>1, <2>2, <3>2, StepKept, RestartKept DEF Next, StoreInv
    <3> QED
      BY <3>1, <3>2
  <2>4. WrongIsFresh'
    BY <1>1, <1>3, StepFresh, RestartFresh DEF Next, StoreInv
  <2> QED
    BY <1>1, <2>1, <2>3, <2>4 DEF StoreInv, Safe
<1> QED
  BY <1>2, <1>3

\* A model loses a layer only to a race: the four operations that have no lock
\* between them, their failures, crashes and the pruning at startup lose none
\* otherwise, for any number of operations, names and layers.
THEOREM LostByRace == Spec => []LostOnlyByRace
<1>1. StoreInv => LostOnlyByRace
  BY DEF StoreInv, Safe
<1> QED
  BY <1>1, InitStore, NextStore, PTL DEF Spec

\* A model names a wrong blob only after a race, or after a pull that ended
\* between a download and its verification.
THEOREM WrongIfAbandoned == Spec => []WrongOnlyIfAbandoned
<1>1. ASSUME StoreInv PROVE WrongOnlyIfAbandoned
  <2> SUFFICES ASSUME ~raced, ~abandoned, NEW l \in Layers, Named(l), blob[l] = "bad" PROVE FALSE
    BY DEF WrongOnlyIfAbandoned
  <2>1. PICK p \in Procs : l \in proc[p].fresh
    BY <1>1 DEF StoreInv, WrongIsFresh
  <2> QED
    BY <1>1, <2>1 DEF StoreInv, Safe, Recorded, Overlap
<1> QED
  BY <1>1, InitStore, NextStore, PTL DEF Spec
=============================================================================
