----------------------------- MODULE ModelStore -----------------------------
(***************************************************************************)
(* The models on disk: a manifest for each name, which lists layers, and a *)
(* blob for each layer, which several manifests may share.  No lock is     *)
(* held by the operations that change them: PullModel, CopyModel,          *)
(* deleteUnusedLayers and PruneLayers (server/images.go), CreateHandler    *)
(* (server/create.go), DeleteHandler (server/routes.go), and what they use *)
(* of manifest/manifest.go and manifest/layer.go.                          *)
(*                                                                         *)
(* A manifest is written in two steps, truncation and contents, and a      *)
(* removal of layers reads the manifests one after the other before it     *)
(* removes anything.  A file that is removed while it is open stays with   *)
(* those who opened it.                                                    *)
(***************************************************************************)
EXTENDS Integers, FiniteSets, FiniteSetsExt

CONSTANTS
    Procs,          \* operations that run at the same time
    Names,          \* names of models, in the order of the directory
    Layers,         \* digests
    NoPrune,        \* OLLAMA_NOPRUNE
    MaxOps, MaxFaults, MaxCrashes,      \* bounds
    Torn,           \* a manifest that was truncated
    None

ASSUME StoreConstants ==
    /\ Names \subseteq Nat
    /\ NoPrune \in BOOLEAN
    /\ {MaxOps, MaxFaults, MaxCrashes} \subseteq Nat
    /\ None \notin Names /\ None \notin {"good", "bad"}
    /\ None # Torn /\ \A layers \in SUBSET Layers : layers # None /\ layers # Torn

VARIABLES
    mf,             \* the manifest of a name: None, Torn, or its layers
    blob,           \* the blob of a layer: None, "good", or "bad"
    proc,           \* the operations in progress
    ops, faults, crashes,
    raced,          \* a layer was in the way of a removal while it was needed
    abandoned       \* a pull ended before it verified a wrong blob it has left

vars == <<mf, blob, proc, ops, faults, crashes, raced, abandoned>>

Manifest == (SUBSET Layers) \ {{}}
Whole(n) == mf[n] \notin {None, Torn}
Content(n) == IF Whole(n) THEN mf[n] ELSE {}

\* name: the model written or deleted.   want: the layers of its new manifest.
\* todo: layers yet to be dealt with.    held: layers relied on but not named.
\* fresh: layers downloaded, not yet verified.   old: layers to remove at the end.
\* cand: layers to remove if unused.     left: manifests to read before that.
\* then: what follows the removal.       src: the manifest copied, or None if
\* it was removed since.                 linked: whether the file is still there.
\* drop: layers of the base that a creation leaves out, and tries to remove.
NoProc == [pc |-> "idle", name |-> None, want |-> {}, todo |-> {}, held |-> {}, fresh |-> {},
           old |-> {}, cand |-> {}, left |-> {}, then |-> "idle", src |-> None, linked |-> TRUE,
           drop |-> {}]

Init ==
    /\ mf \in [Names -> Manifest \cup {None}]
    /\ blob = [l \in Layers |-> IF \E n \in Names : l \in Content(n) THEN "good" ELSE None]
    /\ proc = [p \in Procs |-> NoProc]
    /\ ops = 0 /\ faults = 0 /\ crashes = 0
    /\ raced = FALSE /\ abandoned = FALSE

Begin(p) == proc[p].pc = "idle" /\ ops < MaxOps /\ ops' = ops + 1
At(p, s) == proc[p].pc = s
Fault    == faults < MaxFaults /\ faults' = faults + 1
End(p)   == proc' = [proc EXCEPT ![p] = NoProc]

\* What is copied is what the file that was opened holds now.
Opened(p) == IF proc[p].src = None THEN proc[p].want ELSE mf[proc[p].src]

\* One operation may remove a layer that another one relies on: it has looked,
\* or is looking, at the manifests, or it has downloaded a wrong blob and not
\* verified it yet, perhaps over a good one that is in use since it began.
Held(p) == IF proc[p].pc \in {"copy", "copying"} /\ Opened(p) \notin {None, Torn} THEN Opened(p)
           ELSE proc[p].held
Named(l) == \E n \in Names : l \in Content(n)
Overlap == \E p \in Procs, l \in Layers :
              \/ At(p, "scan") /\ l \in proc[p].cand /\ \E q \in Procs \ {p} : l \in Held(q)
              \/ /\ l \in proc[p].fresh /\ blob[l] = "bad"
                 /\ Named(l) \/ \E q \in Procs \ {p} : l \in Held(q)

\* A pull that ends early, for one layer that failed, leaves the others it has
\* downloaded as they are.
Abandons == \E p \in Procs : \E l \in proc[p].fresh : blob'[l] = "bad" /\ proc'[p].pc = "idle"

History == /\ raced' = (raced \/ Overlap')
           /\ abandoned' = (abandoned \/ Abandons)

-----------------------------------------------------------------------------
(* PullModel *)

\* The layers of the manifest that is there are remembered, the new manifest
\* comes from the registry.
Pull(p, n, layers) ==
    /\ Begin(p)
    /\ proc' = [proc EXCEPT ![p] = [NoProc EXCEPT !.pc = "fetch", !.name = n, !.want = layers,
                                                  !.todo = layers, !.old = Content(n)]]
    /\ UNCHANGED <<mf, blob, faults, crashes>>
    /\ History

\* downloadBlob: a blob that is there is used as it is.
PullStat(p, l) ==
    /\ At(p, "fetch") /\ l \in proc[p].todo
    /\ proc' = IF blob[l] # None
               THEN [proc EXCEPT ![p].todo = @ \ {l}, ![p].held = @ \cup {l}]
               ELSE [proc EXCEPT ![p].pc = "download", ![p].left = {l}]
    /\ UNCHANGED <<mf, blob, ops, faults, crashes>>
    /\ History

\* The download ends: it was shared with another pull that has finished it, or
\* it puts a blob in place, or it fails.
PullDownload(p, l) ==
    /\ At(p, "download") /\ l \in proc[p].left
    /\ \/ blob[l] # None /\ UNCHANGED <<blob, faults>>
       \/ blob' = [blob EXCEPT ![l] = "good"] /\ UNCHANGED faults
       \/ blob' = [blob EXCEPT ![l] = "bad"] /\ Fault
    /\ proc' = [proc EXCEPT ![p].pc = "fetch", ![p].left = {}, ![p].todo = @ \ {l},
                            ![p].held = @ \cup {l}, ![p].fresh = @ \cup {l}]
    /\ UNCHANGED <<mf, ops, crashes>>
    /\ History

PullDownloadFail(p) ==
    /\ At(p, "download")
    /\ Fault /\ End(p)
    /\ UNCHANGED <<mf, blob, ops, crashes>>
    /\ History

\* verifyBlob, for what was downloaded: a wrong blob is removed.
PullVerify(p, l) ==
    /\ At(p, "fetch") /\ proc[p].todo = {} /\ l \in proc[p].fresh
    /\ blob' = [blob EXCEPT ![l] = IF @ = "bad" THEN None ELSE @]
    /\ IF blob[l] = "good" THEN proc' = [proc EXCEPT ![p].fresh = @ \ {l}] ELSE End(p)
    /\ UNCHANGED <<mf, ops, faults, crashes>>
    /\ History

\* Mutant: the manifest is written before everything is verified.
PullVerifiedEarly(p) ==
    /\ At(p, "fetch") /\ proc[p].todo = {}
    /\ proc' = [proc EXCEPT ![p].pc = "write", ![p].old = @ \ proc[p].want, ![p].fresh = {}]
    /\ UNCHANGED <<mf, blob, ops, faults, crashes>>
    /\ History

PullVerified(p) ==
    /\ At(p, "fetch") /\ proc[p].todo = {} /\ proc[p].fresh = {}
    /\ proc' = [proc EXCEPT ![p].pc = "write", ![p].old = @ \ proc[p].want]
    /\ UNCHANGED <<mf, blob, ops, faults, crashes>>
    /\ History

-----------------------------------------------------------------------------
(* A manifest is written: WriteFile, WriteManifest, and the target of a copy *)

Truncate(p) ==
    /\ At(p, "write")
    /\ mf' = [mf EXCEPT ![proc[p].name] = Torn]
    /\ proc' = [proc EXCEPT ![p].pc = "contents", ![p].linked = TRUE]
    /\ UNCHANGED <<blob, ops, faults, crashes>>
    /\ History

\* Mutant: the manifest lists only the layers that are left to do: none.
WriteContentsEmpty(p) ==
    /\ At(p, "contents")
    /\ mf' = IF proc[p].linked THEN [mf EXCEPT ![proc[p].name] = proc[p].todo] ELSE mf
    /\ IF NoPrune \/ proc[p].old = {} THEN End(p)
       ELSE proc' = [proc EXCEPT ![p] = [NoProc EXCEPT !.pc = "glob", !.cand = proc[p].old]]
    /\ UNCHANGED <<blob, ops, faults, crashes>>
    /\ History

\* PullModel and CreateHandler then remove what only the old manifest used.
WriteContents(p) ==
    /\ At(p, "contents")
    /\ mf' = IF proc[p].linked THEN [mf EXCEPT ![proc[p].name] = proc[p].want] ELSE mf
    /\ IF NoPrune \/ proc[p].old = {} THEN End(p)
       ELSE proc' = [proc EXCEPT ![p] = [NoProc EXCEPT !.pc = "glob", !.cand = proc[p].old]]
    /\ UNCHANGED <<blob, ops, faults, crashes>>
    /\ History

WriteFail(p) ==
    /\ At(p, "contents")
    /\ Fault /\ End(p)
    /\ UNCHANGED <<mf, blob, ops, crashes>>
    /\ History

-----------------------------------------------------------------------------
(* Layers are removed: deleteUnusedLayers, RemoveLayers and Layer.Remove *)

Glob(p) ==
    /\ At(p, "glob")
    /\ proc' = [proc EXCEPT ![p].pc = "scan", ![p].left = {n \in Names : mf[n] # None}]
    /\ UNCHANGED <<mf, blob, ops, faults, crashes>>
    /\ History

\* Mutant: only the first manifest is read.
ScanFirst(p) ==
    /\ At(p, "scan") /\ proc[p].left # {}
    /\ \E n \in {Min(proc[p].left)} :
        proc' = IF mf[n] = None
                THEN [proc EXCEPT ![p].left = {}, ![p].cand = {}]
                ELSE [proc EXCEPT ![p].left = {}, ![p].cand = @ \ Content(n)]
    /\ UNCHANGED <<mf, blob, ops, faults, crashes>>
    /\ History

\* The next manifest is read.  A corrupt one is passed over, and so is one that
\* is removed after os.Stat has seen it; one that os.Stat does not find any more
\* is an error, and then nothing is removed.
Scan(p) ==
    /\ At(p, "scan") /\ proc[p].left # {}
    /\ \E n \in {Min(proc[p].left)} :
        \/ proc' = [proc EXCEPT ![p].left = @ \ {n}, ![p].cand = @ \ Content(n)]
        \/ mf[n] = None /\ proc' = [proc EXCEPT ![p].left = {}, ![p].cand = {}]
    /\ UNCHANGED <<mf, blob, ops, faults, crashes>>
    /\ History

RemoveLayer(p, l) ==
    /\ At(p, "scan") /\ proc[p].left = {} /\ l \in proc[p].cand
    /\ blob' = [blob EXCEPT ![l] = None]
    /\ proc' = [proc EXCEPT ![p].cand = @ \ {l}]
    /\ UNCHANGED <<mf, ops, faults, crashes>>
    /\ History

RemoveDone(p) ==
    /\ At(p, "scan") /\ proc[p].left = {} /\ proc[p].cand = {}
    /\ IF proc[p].then = "idle" THEN End(p)
       ELSE proc' = [proc EXCEPT ![p].pc = proc[p].then, ![p].then = "idle"]
    /\ UNCHANGED <<mf, blob, ops, faults, crashes>>
    /\ History

-----------------------------------------------------------------------------
(* CreateHandler, CopyModel, DeleteHandler *)

\* A model is created from another that is there, without some layers of it and
\* with a new one.  If a layer of the base is missing or its manifest is corrupt,
\* the error is reported, which ends the answer, but the creation goes on without
\* a base: it makes the new layers, and blocks for ever on its next report.
Create(p, n, from, drop, new) ==
    /\ Begin(p)
    /\ mf[from] # None
    /\ \E ok \in {Whole(from) /\ \A l \in Content(from) : blob[l] # None} :
       \E base \in {IF ok THEN Content(from) ELSE {}} :
        /\ drop \subseteq base
        /\ proc' = [proc EXCEPT ![p] =
              [NoProc EXCEPT !.pc = "new", !.name = IF ok THEN n ELSE None,
                             !.want = (base \ drop) \cup {new}, !.todo = {new},
                             !.held = base \ drop, !.drop = drop, !.old = Content(n)]]
    /\ UNCHANGED <<mf, blob, faults, crashes>>
    /\ History

\* removeLayer: the manifests are read again for every layer that is left out.
CreateDrop(p, l) ==
    /\ At(p, "new") /\ l \in proc[p].drop
    /\ proc' = [proc EXCEPT ![p].pc = "glob", ![p].then = "new", ![p].cand = {l}, ![p].drop = @ \ {l}]
    /\ UNCHANGED <<mf, blob, ops, faults, crashes>>
    /\ History

\* NewLayer: a blob that is there is used as it is.
CreateLayer(p, l) ==
    /\ At(p, "new") /\ proc[p].drop = {} /\ l \in proc[p].todo
    /\ blob' = [blob EXCEPT ![l] = IF @ = None THEN "good" ELSE @]
    /\ IF proc[p].name = None THEN End(p)
       ELSE proc' = [proc EXCEPT ![p].pc = "write", ![p].todo = {}, ![p].held = @ \cup {l}]
    /\ UNCHANGED <<mf, ops, faults, crashes>>
    /\ History

Copy(p, from, n) ==
    /\ Begin(p)
    /\ from # n /\ mf[from] # None
    /\ proc' = [proc EXCEPT ![p] = [NoProc EXCEPT !.pc = "copy", !.name = n, !.src = from,
                                                  !.want = Content(from)]]
    /\ UNCHANGED <<mf, blob, faults, crashes>>
    /\ History

CopyCreate(p) ==
    /\ At(p, "copy")
    /\ mf' = [mf EXCEPT ![proc[p].name] = Torn]
    /\ proc' = [proc EXCEPT ![p].pc = "copying", ![p].linked = TRUE]
    /\ UNCHANGED <<blob, ops, faults, crashes>>
    /\ History

CopyContents(p) ==
    /\ At(p, "copying")
    /\ mf' = IF proc[p].linked THEN [mf EXCEPT ![proc[p].name] = Opened(p)] ELSE mf
    /\ End(p)
    /\ UNCHANGED <<blob, ops, faults, crashes>>
    /\ History

\* ParseNamedManifest: a model that is not there, or corrupt, is not deleted.
Delete(p, n) ==
    /\ Begin(p)
    /\ Whole(n)
    /\ proc' = [proc EXCEPT ![p] = [NoProc EXCEPT !.pc = "delete", !.name = n, !.cand = mf[n]]]
    /\ UNCHANGED <<mf, blob, faults, crashes>>
    /\ History

\* The manifest is removed; those who have it open keep the file.
DeleteManifest(p) ==
    \E n \in {proc[p].name} :
        /\ At(p, "delete")
        /\ mf' = [mf EXCEPT ![n] = None]
        /\ proc' = [q \in Procs |->
              IF q = p THEN IF mf[n] = None THEN NoProc ELSE [proc[p] EXCEPT !.pc = "glob"]
              ELSE [proc[q] EXCEPT !.linked = @ /\ ~(proc[q].pc \in {"contents", "copying"} /\ proc[q].name = n),
                                   !.want = IF proc[q].src = n THEN mf[n] ELSE @,
                                   !.src = IF @ = n THEN None ELSE @]]
        /\ UNCHANGED <<blob, ops, faults, crashes>>
        /\ History

-----------------------------------------------------------------------------
\* The server dies and starts again.  Serve prunes the layers that no manifest
\* names, unless it is told not to or a manifest is corrupt.
Restart ==
    /\ crashes < MaxCrashes
    /\ crashes' = crashes + 1
    /\ proc' = [p \in Procs |-> NoProc]
    /\ blob' = IF NoPrune \/ \E n \in Names : mf[n] = Torn THEN blob
               ELSE [l \in Layers |-> IF \E n \in Names : l \in Content(n) THEN blob[l] ELSE None]
    /\ UNCHANGED <<mf, ops, faults>>
    /\ History

Step(p) ==
    \/ \E n \in Names, layers \in Manifest : Pull(p, n, layers)
    \/ \E l \in Layers : \/ PullStat(p, l) \/ PullDownload(p, l) \/ PullVerify(p, l)
                         \/ RemoveLayer(p, l) \/ CreateDrop(p, l) \/ CreateLayer(p, l)
    \/ PullDownloadFail(p) \/ PullVerified(p)
    \/ Truncate(p) \/ WriteContents(p) \/ WriteFail(p)
    \/ Glob(p) \/ Scan(p) \/ RemoveDone(p)
    \/ \E n, from \in Names : \/ Copy(p, from, n)
                              \/ \E new \in Layers, drop \in SUBSET Layers : Create(p, n, from, drop, new)
    \/ CopyCreate(p) \/ CopyContents(p)
    \/ \E n \in Names : Delete(p, n)
    \/ DeleteManifest(p)

Next == (\E p \in Procs : Step(p)) \/ Restart

Spec == Init /\ [][Next]_vars

-----------------------------------------------------------------------------
(* Properties *)

ProcType ==
    [pc : {"idle", "fetch", "download", "write", "contents", "glob", "scan", "new",
           "copy", "copying", "delete"},
     name : {None} \cup Names, want : {Torn} \cup SUBSET Layers,
     todo : SUBSET Layers, held : SUBSET Layers, fresh : SUBSET Layers,
     old : SUBSET Layers, cand : SUBSET Layers, left : SUBSET (Names \cup Layers),
     then : {"idle", "new"}, src : {None} \cup Names, linked : BOOLEAN,
     drop : SUBSET Layers]

\* Types: what the files and the operations in progress can hold.
TypeOK ==
    /\ mf \in [Names -> {None, Torn} \cup Manifest]
    /\ blob \in [Layers -> {None, "good", "bad"}]
    /\ proc \in [Procs -> ProcType]
    /\ ops \in 0 .. MaxOps /\ faults \in 0 .. MaxFaults /\ crashes \in 0 .. MaxCrashes
    /\ raced \in BOOLEAN /\ abandoned \in BOOLEAN

\* A model loses a layer only to a race: if no removal was looking for unused
\* layers, or was about to remove a wrong one, while another operation relied
\* on the same layer, then every layer that a manifest names is there, after
\* any failure, crash, pruning, or truncated manifest.
LostOnlyByRace == ~raced => \A l \in Layers : Named(l) => blob[l] # None

\* A manifest names a blob that was not verified only after a race, or after a
\* pull that ended, on an error or with the server, between the download of a
\* wrong blob and its verification: a blob that is there is not verified again.
WrongOnlyIfAbandoned ==
    ~raced /\ ~abandoned => \A l \in Layers : Named(l) => blob[l] # "bad"

\* A blob whose digest is wrong is downloaded again before a model uses it
\* ("digest mismatch, file must be downloaded again").
WrongDownloadedAgain == \A l \in Layers : Named(l) => blob[l] # "bad"

\* Layers are removed only if no manifest uses them ("Remove layers not used by
\* any other manifest", "something is using this layer").
LayersExist == \A l \in Layers : Named(l) => blob[l] # None
=============================================================================
