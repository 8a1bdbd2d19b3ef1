----------------------- MODULE SchedulerRunnersProofs -----------------------
(***************************************************************************)
(* Theorems about the runners of the scheduler: what is in the map, which  *)
(* processes run, and who counts on a runner: its reference count, the     *)
(* unload of a runner in use, and the wakeup of the pending loop.  Each    *)
(* names what it needs of the constants: Deletable = {} (no model is       *)
(* deleted while a load is retried), MLXKeys = {} (every runner records    *)
(* its pid), ~CanShutDown; those about counts hold through a shutdown.     *)
(***************************************************************************)
EXTENDS SchedulerProofs

USE DEF clientVars, answerVars, mapVars, runnerVars, taskVars, chanVars, pendVars,
        compVars, envVars

-----------------------------------------------------------------------------
(* The process being loaded.  That it is the pending request's own needs to  *)
(* know where the pending loop is: it never serves a request on a loaded     *)
(* runner, and never drops it, while a process is left from an earlier try,  *)
(* unless the model was deleted since.                                       *)

\* Places at which a process may be left in activeLoading.
AtLoading == {"decide", "open", "free", "start", "load", "find", "scan", "expire",
              "send", "wait", "exit", "panic"}

Own ==
    /\ activeLoading = preq /\ ppc \in AtLoading
    /\ loaded[Key(preq)] = None /\ Key(preq) \notin MLXKeys

ActiveOrDeleted == activeLoading # None => Own \/ Key(activeLoading) \notin files
LoadsOrDeleted ==
    /\ ppc \in {"open", "free", "start", "load"} => Key(preq) \notin MLXKeys
    /\ ppc = "load" => prun = preq \/ Key(prun) \notin files

\* The inductive invariant.
LeftInv == RoomInv /\ ActiveOrDeleted /\ LoadsOrDeleted

\* What it comes to when no model is deleted.
ActiveOwn ==
    activeLoading # None =>
        /\ activeLoading = preq /\ ppc \in AtLoading
        /\ loaded[Key(preq)] = None /\ Key(preq) \notin MLXKeys
LoadsOwn ==
    /\ ppc \in {"open", "free", "start", "load"} => Key(preq) \notin MLXKeys
    /\ ppc = "load" => prun = preq

ActiveInv == RoomInv /\ files = Keys /\ ActiveOwn /\ LoadsOwn

\* A step that does not move the pending loop and adds nothing to the map.
LEMMA LeftKept ==
    ASSUME LeftInv, RoomInv', UNCHANGED <<req, pendVars>>, files' \subseteq files,
           activeLoading' \in {None, activeLoading},
           \A k \in Keys : loaded'[k] \in {None, loaded[k]}
    PROVE  LeftInv'
<1>1. activeLoading # None => activeLoading \in Requests /\ Key(activeLoading) \in Keys
  BY RequestTypes DEF LeftInv, RoomInv, TypeOK, MapTypeOK
<1>2. ActiveOrDeleted'
  BY <1>1 DEF LeftInv, ActiveOrDeleted, Own, Key
<1>3. LoadsOrDeleted'
  BY DEF LeftInv, LoadsOrDeleted, Key
<1> QED BY <1>2, <1>3 DEF LeftInv

\* The pending loop goes on with the same request.
LEMMA LeftMoves ==
    ASSUME LeftInv, RoomInv', UNCHANGED <<req, files, loaded, preq>>,
           activeLoading' \in {None, activeLoading},
           activeLoading' = None \/ ppc' \in AtLoading,
           /\ ppc' \in {"open", "free", "start", "load"} => Key(preq) \notin MLXKeys
           /\ ppc' = "load" => prun' = preq \/ Key(prun') \notin files
    PROVE  LeftInv'
<1>1. ActiveOrDeleted'
  BY DEF LeftInv, ActiveOrDeleted, Own, Key
<1>2. LoadsOrDeleted'
  BY DEF LoadsOrDeleted, Key
<1> QED BY <1>1, <1>2 DEF LeftInv

\* The pending loop is done with a request, and leaves at most the process of a
\* model that was deleted.
LEMMA LeftNone ==
    ASSUME LeftInv, RoomInv', UNCHANGED <<req, files>>,
           activeLoading' = None \/ (activeLoading' = activeLoading /\ Key(activeLoading) \notin files),
           ppc' \notin {"open", "free", "start", "load"}
    PROVE  LeftInv'
BY DEF LeftInv, ActiveOrDeleted, LoadsOrDeleted, Key

\* processPending keeps the invariant.
LEMMA PendingLeft ==
    ASSUME LeftInv, RoomInv', PendingStep
    PROVE  LeftInv'
<1>0. UNCHANGED <<req, files>>
  BY DEF PendingStep, PendFrame
<1>a. activeLoading # None => Own \/ Key(activeLoading) \notin files
  BY DEF LeftInv, ActiveOrDeleted
<1>d. ppc \in {"open", "free", "start", "load"} => Key(preq) \notin MLXKeys
  BY DEF LeftInv, LoadsOrDeleted
<1> USE DEF PendLocal, AtLoading
<1>1. CASE PendReceive \/ PendDrain \/ PendUse \/ PendMLX \/ PendMLXInsert \/ PendMLXTimer \/ PendCheck
  <2>1. /\ UNCHANGED activeLoading /\ ppc \notin AtLoading
        /\ ppc' \notin {"open", "free", "start", "load"}
    BY <1>1 DEF PendReceive, PendDrain, PendUse, PendMLX, PendMLXInsert, PendMLXTimer, PendCheck,
                PendAt, PendDone
  <2> QED BY <1>0, <1>a, <2>1, LeftNone DEF Own
<1>3. CASE PendDecide
  <2>1. UNCHANGED <<loaded, preq, activeLoading>> /\ ppc' # "load"
    BY <1>3 DEF PendDecide, PendAt
  <2>2. Own => ppc' \in {"find", "open"}
    BY <1>3 DEF PendDecide, PendAt, Own
  <2>3. ppc' \in {"open", "free", "start", "load"} => Key(preq) \notin MLXKeys
    BY <1>3 DEF PendDecide, PendAt
  <2>4. CASE activeLoading = None \/ Own
    BY <1>0, <2>1, <2>2, <2>3, <2>4, LeftMoves
  <2>5. CASE Key(activeLoading) \notin files
    BY <1>0, <2>1, <2>3, <2>5 DEF LeftInv, ActiveOrDeleted, LoadsOrDeleted, Key
  <2> QED BY <1>a, <2>4, <2>5
<1>4. CASE PendOpen
  <2>1. CASE Key(preq) \in files
    <3>1. UNCHANGED <<loaded, preq, activeLoading>> /\ ppc' = "free" /\ ppc = "open"
      BY <1>4, <2>1 DEF PendOpen
    <3> QED BY <1>0, <1>d, <3>1, LeftMoves
  <2>2. CASE Key(preq) \notin files
    <3>1. UNCHANGED activeLoading /\ ppc' \notin {"open", "free", "start", "load"}
      BY <1>4, <2>2 DEF PendOpen, PendDone
    <3> QED BY <1>0, <1>a, <2>2, <3>1, LeftNone DEF Own
  <2> QED BY <2>1, <2>2
<1>5. CASE PendFree
  <2>1. UNCHANGED <<loaded, preq, activeLoading>> /\ ppc' \in {"free", "start"} /\ ppc = "free"
    BY <1>5 DEF PendFree, PendAt
  <2> QED BY <1>0, <1>d, <2>1, LeftMoves
<1>6. CASE PendLoadFull \/ PendFind \/ PendScan \/ PendExpire \/ PendWaitUnload \/ PendExit
  <2>1. /\ UNCHANGED <<loaded, preq, activeLoading>>
        /\ ppc' \in AtLoading \ {"open", "free", "start", "load"}
    BY <1>6 DEF PendLoadFull, PendFind, PendScan, PendExpire, PendWaitUnload, PendExit, PendAt
  <2> QED BY <1>0, <2>1, LeftMoves
<1>7. CASE PendStart
  <2>1. CASE activeLoading = None /\ PendDone /\ UNCHANGED activeLoading
    BY <1>0, <2>1, LeftNone DEF PendDone
  <2>2. CASE activeLoading' = preq /\ PendAt("load", preq)
    <3>1. loaded[Key(preq)] = None /\ UNCHANGED loaded /\ Key(preq) \notin MLXKeys
      BY <1>7, <1>d DEF PendStart, LeftInv, RoomInv, RoomReserved, PendHasRoom
    <3>2. ActiveOrDeleted' /\ LoadsOrDeleted'
      BY <1>0, <2>2, <3>1 DEF ActiveOrDeleted, Own, LoadsOrDeleted, PendAt, Key
    <3> QED BY <3>2 DEF LeftInv
  <2>3. CASE /\ activeLoading # None /\ UNCHANGED activeLoading
             /\ PendAt(IF Key(activeLoading) = Key(preq) THEN "load" ELSE "panic",
                       activeLoading)
    <3>1. /\ UNCHANGED <<loaded, preq>> /\ ppc' \in {"load", "panic"} /\ prun' = activeLoading
          /\ ppc = "start"
      BY <1>7, <2>3 DEF PendStart, PendAt
    <3>2. prun' = preq \/ Key(prun') \notin files
      BY <1>a, <2>3, <3>1 DEF Own
    <3> QED BY <1>0, <1>d, <2>3, <3>1, <3>2, LeftMoves
  <2> QED BY <1>7, <2>1, <2>2, <2>3 DEF PendStart
<1>8. CASE PendLoaded \/ PendLoadFailed
  <2>1. activeLoading' = None /\ ppc' \notin {"open", "free", "start", "load"}
    BY <1>8 DEF PendLoaded, PendLoadFailed, PendDone, PendAt
  <2> QED BY <1>0, <2>1, LeftNone
<1> QED
  BY <1>1, <1>3, <1>4, <1>5, <1>6, <1>7, <1>8 DEF PendingStep

\* Every step keeps the invariant.
LEMMA NextLeft ==
    ASSUME LeftInv, [Next]_vars
    PROVE  LeftInv'
<1>a. RoomInv' /\ RoomInv /\ MapTypeOK /\ ServerTypeOK
  BY NextRoom DEF LeftInv, RoomInv, TypeOK
<1>1. CASE UNCHANGED <<req, files, pendVars, mapVars>>
  BY <1>a, <1>1, LeftKept
<1>2. CASE UNCHANGED vars
  BY <1>1, <1>2 DEF vars
<1>3. CASE \E q \in Requests : HandlerStep(q) \/ ClientStep(q) \/ WatcherStep(q)
  BY <1>1, <1>3 DEF HandlerStep, ClientStep, WatcherStep, HandlerFrame
<1>4. CASE \E q \in Requests : \/ LoaderStep(q) \/ TimerStep(q) \/ CallbackStep(q)
                               \/ ResendStep(q)
  BY <1>1, <1>4 DEF LoaderStep, TimerStep, CallbackStep, ResendStep, RunnerFrame
<1>5. CASE StopStep \/ ServerStep
  <2>1. UNCHANGED <<req, pendVars, loaded>>
    BY <1>5 DEF StopStep, ServerStep, ServerFrame, StopExpire, StopLookup, DeleteModel,
                Shutdown, UnloadAllRunners
  <2>2. activeLoading' \in {None, activeLoading} /\ files' \subseteq files
    BY <1>5 DEF StopStep, ServerStep, StopExpire, StopLookup, DeleteModel,
                Shutdown, UnloadAllRunners
  <2> QED BY <1>a, <2>1, <2>2, LeftKept
<1>6. CASE CompletedStep
  <2>1. UNCHANGED <<req, files, pendVars, activeLoading>>
    BY <1>6 DEF CompletedStep, FinishedStep, CompFrame
  <2>2. UNCHANGED loaded \/ loaded' = [loaded EXCEPT ![Key(crun)] = None]
    BY <1>6 DEF CompletedStep, FinishedStep, CompReceiveFinished, CompFinish,
                CompReceiveExpired, CompBusy, CompDuplicate, CompOrphan, CompUnload,
                CompRecovered, CompNotify, CompExit
  <2>3. \A k \in Keys : loaded'[k] \in {None, loaded[k]}
    BY <1>a, <2>2 DEF MapTypeOK
  <2> QED BY <1>a, <2>1, <2>3, LeftKept
<1>7. CASE PendingStep
  BY <1>a, <1>7, PendingLeft
<1> QED
  BY <1>2, <1>3, <1>4, <1>5, <1>6, <1>7 DEF Next

\* If no model is deleted, the files stay.
LEMMA FilesStay ==
    ASSUME Deletable = {}, [Next]_vars
    PROVE  UNCHANGED files
BY DEF Next, vars, HandlerStep, ClientStep, WatcherStep, HandlerFrame, LoaderStep, TimerStep,
       CallbackStep, ResendStep, RunnerFrame, StopStep, ServerStep, StopExpire, StopLookup,
       DeleteModel, Shutdown, UnloadAllRunners, CompletedStep, FinishedStep, CompFrame,
       PendingStep, PendFrame

\* If no model was deleted, the process is the pending request's own.
LEMMA NotDeleted == LeftInv /\ files = Keys <=> ActiveInv
<1>1. ActiveInv => LeftInv /\ files = Keys
  BY DEF ActiveInv, ActiveOwn, LoadsOwn, LeftInv, ActiveOrDeleted, Own, LoadsOrDeleted
<1>2. ASSUME LeftInv, files = Keys PROVE ActiveInv
  <2>1. activeLoading # None => Key(activeLoading) \in Keys
    BY <1>2, RequestTypes DEF LeftInv, RoomInv, TypeOK, MapTypeOK
  <2>2. ppc = "load" => Key(prun) \in Keys
    BY <1>2, RequestTypes DEF LeftInv, RoomInv, TypeOK, PendTypeOK, PendHasRunner
  <2> QED
    BY <1>2, <2>1, <2>2
       DEF ActiveInv, ActiveOwn, LoadsOwn, LeftInv, ActiveOrDeleted, Own, LoadsOrDeleted
<1> QED BY <1>1, <1>2

\* Then every step keeps it so.
LEMMA NextActive ==
    ASSUME Deletable = {}, ActiveInv, [Next]_vars
    PROVE  ActiveInv'
<1>1. LeftInv /\ files = Keys
  BY NotDeleted
<1>2. (LeftInv /\ files = Keys)'
  BY <1>1, NextLeft, FilesStay
<1> QED BY <1>2, NotDeleted, PTL

\* InitScheduler starts with no process.
LEMMA InitActive == Init => ActiveInv
BY InitRoom DEF Init, ActiveInv, ActiveOwn, LoadsOwn

\* The process left in activeLoading is the pending request's own, through
\* evictions, image models and a shutdown, unless its model was deleted under a
\* load that was being retried: load() never panics over another model's process
\* (sched.go 481-483) for any other reason.
THEOREM OwnProcess == Spec => []ActiveLoadingIsPending
<1>1. LeftInv => ActiveLoadingIsPending
  BY DEF LeftInv, ActiveOrDeleted, Own, ActiveLoadingIsPending
<1>2. LeftInv /\ [Next]_vars => LeftInv'
  BY NextLeft
<1>3. Init => LeftInv
  BY InitActive, NotDeleted
<1> QED BY <1>1, <1>2, <1>3, PTL DEF Spec

-----------------------------------------------------------------------------
(* The life of a runner.  A runner is created by the load of one request,  *)
(* enters the map at that moment, and leaves it when it is unloaded: as    *)
(* long as every runner records its pid, the orphan branch of              *)
(* processCompleted meets only runners that were unloaded before.          *)

\* The runners that were created: their process is the one that was started
\* for the same request.
Runners == {r \in Requests : llama[r] = r}

InMap(r) == loaded[Key(r)] = r

\* What is in the map is exactly what was created and not yet unloaded.
MapRunners ==
    /\ \A k \in Keys : loaded[k] # None =>
          loaded[k] \in Runners \ unloaded /\ Key(loaded[k]) = k
    /\ \A r \in Runners \ unloaded : InMap(r)

\* Nothing is known of a runner before it is created.
Unborn ==
    \A r \in Requests \ Runners :
        /\ llama[r] = None /\ r \notin unloaded
        /\ timer[r] = "nil" /\ refMu[r] = "free" /\ loader[r] = "none"
        /\ firing[r] = 0 /\ resend[r] = 0

\* A request on its way to a load.
Early(q) == HandlerOwns(q) \/ QueueOwns(q) \/ PendingOwns(q)
EarlyUnborn == \A q \in Requests : Early(q) => q \notin Runners

\* Where the goroutines keep a runner, it was created, and for the model they
\* were asked for.
AtRunner == {"check", "use", "scan", "expire", "send", "wait"}
ExpiredRefs == Range(expiredCh) \subseteq Runners
PendRefs ==
    /\ Range(plist) \subseteq Runners
    /\ ppc \in AtRunner => prun \in Runners
    /\ ppc \in {"check", "use"} => Key(prun) = Key(preq)
    /\ ppc \notin {"mlx", "mlxInsert", "mlxTimer"}
TaskRefs == {crun, srun} \subseteq Runners \cup {None}
ClientRefs ==
    \A q \in Requests :
        /\ hpc[q] \in {"check", "use"} => found[q] # None
        /\ found[q] # None => found[q] \in Runners /\ Key(found[q]) = Key(q)
        /\ granted[q] # None => granted[q] \in Runners /\ Key(granted[q]) = Key(q)

\* The inductive invariant.
LifeInv ==
    /\ AnswerInv /\ ActiveInv
    /\ MapRunners /\ Unborn /\ EarlyUnborn
    /\ ExpiredRefs /\ PendRefs /\ TaskRefs /\ ClientRefs

\* What a step that creates no runner leaves as it was.
SameRunners == UNCHANGED <<req, llama>>

\* A step that touches only runners that were created.
TouchesRunners ==
    \A r \in Requests \ Runners :
        /\ timer'[r] = timer[r] /\ refMu'[r] = refMu[r] /\ loader'[r] = loader[r]
        /\ firing'[r] = firing[r] /\ resend'[r] = resend[r]

\* No request comes back to the handlers, the queue or the pending loop.
NoneEarlier == \A q \in Requests : Early(q)' => Early(q)

\* The parts that a step leaves alone.
LEMMA LifeFrame ==
    ASSUME LifeInv, SameRunners
    PROVE  /\ Runners' = Runners
           /\ UNCHANGED <<loaded, unloaded>> => MapRunners'
           /\ TouchesRunners /\ UNCHANGED unloaded => Unborn'
           /\ NoneEarlier => EarlyUnborn'
           /\ UNCHANGED expiredCh => ExpiredRefs'
           /\ UNCHANGED <<ppc, preq, prun, plist>> => PendRefs'
           /\ UNCHANGED <<crun, srun>> => TaskRefs'
           /\ UNCHANGED <<hpc, found, granted>> => ClientRefs'
<1>1. Runners' = Runners /\ \A r : Key(r)' = Key(r)
  BY DEF SameRunners, Runners, Key
<1>2. UNCHANGED <<loaded, unloaded>> => MapRunners'
  BY <1>1 DEF LifeInv, MapRunners, InMap
<1>3. TouchesRunners /\ UNCHANGED unloaded => Unborn'
  BY <1>1 DEF LifeInv, Unborn, TouchesRunners, SameRunners
<1>4. NoneEarlier => EarlyUnborn'
  BY <1>1 DEF LifeInv, EarlyUnborn, NoneEarlier
<1>5. UNCHANGED expiredCh => ExpiredRefs'
  BY <1>1 DEF LifeInv, ExpiredRefs
<1>6. UNCHANGED <<ppc, preq, prun, plist>> => PendRefs'
  BY <1>1 DEF LifeInv, PendRefs, Key, SameRunners
<1>7. UNCHANGED <<crun, srun>> => TaskRefs'
  BY <1>1 DEF LifeInv, TaskRefs
<1>8. UNCHANGED <<hpc, found, granted>> => ClientRefs'
  BY <1>1 DEF LifeInv, ClientRefs, Key, SameRunners
<1> QED BY <1>1, <1>2, <1>3, <1>4, <1>5, <1>6, <1>7, <1>8

\* The variables that say where a request is, left alone.
LEMMA EarlyFrame ==
    ASSUME UNCHANGED <<hpc, pendingReqCh, ppc, preq>>
    PROVE  NoneEarlier
BY DEF NoneEarlier, Early, HandlerOwns, QueueOwns, PendingOwns

\* The types that the proofs below need.
LEMMA LifeTypes ==
    ASSUME LifeInv
    PROVE  /\ TypeOK /\ ClientTypeOK /\ AnswerTypeOK /\ MapTypeOK /\ RunnerTypeOK
           /\ TaskTypeOK /\ ChannelTypeOK /\ PendTypeOK /\ CompTypeOK /\ ServerTypeOK
           /\ Runners \subseteq Requests /\ None \notin Runners
           /\ LoadedRunners \subseteq Runners
<1>1. TypeOK
  BY DEF LifeInv, AnswerInv
<1>2. Runners \subseteq Requests /\ None \notin Runners
  BY RequestsAssumption DEF Runners
<1>3. LoadedRunners \subseteq Runners
  BY DEF LifeInv, MapRunners, LoadedRunners, LoadedKeys
<1> QED BY <1>1, <1>2, <1>3 DEF TypeOK

\* A listing of runners names only those, and begins with one of them.
LEMMA ListingRefs ==
    ASSUME NEW S \in SUBSET Requests, NEW s \in Listings(S)
    PROVE  Range(s) \subseteq S /\ (S # {} => Head(s) \in S)
<1>1. IsFiniteSet(S) /\ Cardinality(S) \in Nat
  BY RequestsAssumption, FS_Subset, FS_CardinalityType
<1>2. s \in [1..Cardinality(S) -> S]
  BY DEF Listings, Bijection, Injection
<1>3. Range(s) \subseteq S
  BY <1>2 DEF Range
<1>4. S # {} => Cardinality(S) # 0
  BY <1>1, FS_EmptySet
<1>5. S # {} => Head(s) = s[1] /\ 1 \in 1..Cardinality(S)
  BY <1>1, <1>2, <1>4
<1> QED BY <1>2, <1>3, <1>5

\* A send on expiredCh names a runner that was created, and takes or leaves
\* its lock only.
LEMMA SendRefs ==
    ASSUME LifeInv, SameRunners, NEW r \in Runners, NEW g, SendExpired(r, g) \/ SendHeld(r, g)
    PROVE  ExpiredRefs' /\ \A x \in Requests : x # r => refMu'[x] = refMu[x]
<1>1. expiredCh \in Seq(Requests) /\ r \in Requests /\ refMu \in [Requests -> Holding \cup {"free"}]
  BY LifeTypes DEF ChannelTypeOK, RunnerTypeOK, Holding
<1>2. expiredCh' = expiredCh \/ expiredCh' = Append(expiredCh, r)
  BY DEF SendExpired, SendHeld
<1>3. Range(expiredCh') \subseteq Range(expiredCh) \cup {r}
  BY <1>1, <1>2, SendRange
<1>4. \A x \in Requests : x # r => refMu'[x] = refMu[x]
  BY <1>1 DEF SendExpired, SendHeld
<1> QED BY <1>3, <1>4, LifeFrame DEF LifeInv, ExpiredRefs

\* Expiring a runner touches nothing else.
LEMMA ExpireRefs ==
    ASSUME LifeInv, SameRunners, NEW r \in Runners, NEW g, ExpireRunner(r, g) \/ SendHeld(r, g)
    PROVE  /\ ExpiredRefs' /\ UNCHANGED unloaded
           /\ \A x \in Requests : x # r => refMu'[x] = refMu[x] /\ timer'[x] = timer[x]
<1>1. CASE SendHeld(r, g)
  BY <1>1, SendRefs DEF SendHeld
<1>2. CASE ExpireRunner(r, g)
  <2>1. ExpiredRefs' /\ \A x \in Requests : x # r => refMu'[x] = refMu[x]
    <3>1. CASE UNCHANGED <<refMu, expiredCh>>
      BY <3>1, LifeFrame
    <3>2. CASE SendExpired(r, g)
      BY <3>2, SendRefs
    <3> QED BY <1>2, <3>1, <3>2 DEF ExpireRunner
  <2>2. \A x \in Requests : x # r => timer'[x] = timer[x]
    BY <1>2, LifeTypes DEF ExpireRunner, RunnerTypeOK
  <2> QED BY <1>2, <2>1, <2>2 DEF ExpireRunner
<1> QED BY <1>1, <1>2

\* useLoadedRunner hands out a runner that was created, for the same model.
LEMMA UseRefs ==
    ASSUME LifeInv, SameRunners, NEW q \in Requests, NEW r \in Runners, Key(r) = Key(q),
           UseLoadedRunner(q, r)
    PROVE  /\ UNCHANGED <<refMu, unloaded>>
           /\ \A x \in Requests : x # r => timer'[x] = timer[x]
           /\ granted' = [granted EXCEPT ![q] = r]
BY LifeTypes DEF UseLoadedRunner, AnswerRunner, RunnerTypeOK

\* A step of a handler or of a context watcher.
LEMMA HandlerLife ==
    ASSUME LifeInv, AnswerInv', ActiveInv', NEW q \in Requests, HandlerFrame,
           \/ Arrive(q) \/ CheckReload(q) \/ UseFound(q) \/ Enqueue(q)
           \/ Receive(q) \/ Finish(q) \/ Disconnect(q) \/ WatchDone(q)
    PROVE  LifeInv'
<1> USE DEF HandlerFrame, HandlerLocal, HandlerAt
<1>t. /\ ClientTypeOK /\ AnswerTypeOK /\ MapTypeOK /\ pendingReqCh \in Seq(Requests)
      /\ ClientRefs /\ Runners \subseteq Requests /\ None \notin Runners
  BY LifeTypes DEF LifeInv, ChannelTypeOK
<1>a. SameRunners /\ UNCHANGED <<loaded, unloaded, expiredCh, loader, firing, resend>>
  BY DEF SameRunners, Arrive, CheckReload, UseFound, UseLoadedRunner, Enqueue, Receive, Finish,
         Disconnect, WatchDone
<1>b. Runners' = Runners /\ MapRunners' /\ ExpiredRefs' /\ PendRefs' /\ TaskRefs'
  BY <1>a, LifeFrame
<1>c. TouchesRunners
  <2>1. CASE UseFound(q)
    BY <1>a, <1>t, <2>1, UseRefs DEF UseFound, ClientRefs, TouchesRunners
  <2>2. CASE ~UseFound(q)
    BY <1>a, <2>2 DEF Arrive, CheckReload, Enqueue, Receive, Finish, Disconnect, WatchDone,
                      TouchesRunners
  <2> QED BY <2>1, <2>2
<1>d. NoneEarlier
  <2>1. UNCHANGED <<ppc, preq>>
    OBVIOUS
  <2>2. CASE Enqueue(q)
    <3>1. \A x \in Requests : QueueOwns(x)' => QueueOwns(x) \/ x = q
      BY <1>t, <2>2, SendRange DEF Enqueue, QueueOwns
    <3>2. HandlerOwns(q) /\ \A x \in Requests \ {q} : HandlerOwns(x)' = HandlerOwns(x)
      BY <1>t, <2>2 DEF Enqueue, HandlerOwns, ClientTypeOK
    <3> QED BY <2>1, <3>1, <3>2 DEF NoneEarlier, Early, PendingOwns
  <2>3. CASE ~Enqueue(q)
    <3>1. UNCHANGED pendingReqCh
      BY <2>3 DEF Arrive, CheckReload, UseFound, Receive, Finish, Disconnect, WatchDone
    <3>2. \A x \in Requests : HandlerOwns(x)' => HandlerOwns(x)
      BY <1>t, <2>3 DEF Arrive, CheckReload, UseFound, Receive, Finish, Disconnect, WatchDone,
                        HandlerOwns, ClientTypeOK
    <3> QED BY <2>1, <3>1, <3>2 DEF NoneEarlier, Early, PendingOwns, QueueOwns
  <2> QED BY <2>2, <2>3
<1>e. ClientRefs'
  <2>0. \A r : Key(r)' = Key(r)
    BY DEF Key
  <2>1. CASE Arrive(q)
    <3>1. /\ UNCHANGED granted /\ found'[q] = loaded[Key(q)]
          /\ hpc'[q] \in {"check", "use"} => found'[q] # None
          /\ \A x \in Requests \ {q} : hpc'[x] = hpc[x] /\ found'[x] = found[x]
      BY <1>t, <2>1 DEF Arrive, ClientTypeOK
    <3>2. loaded[Key(q)] # None => loaded[Key(q)] \in Runners /\ Key(loaded[Key(q)]) = Key(q)
      BY <1>t, RequestTypes DEF LifeInv, MapRunners
    <3> QED BY <1>b, <1>t, <2>0, <3>1, <3>2 DEF ClientRefs
  <2>2. CASE CheckReload(q)
    <3>1. /\ UNCHANGED granted /\ hpc[q] = "check"
          /\ \A x \in Requests : found'[x] = found[x] /\ (x # q => hpc'[x] = hpc[x])
      BY <1>t, <2>2 DEF CheckReload, ClientTypeOK
    <3> QED BY <1>b, <1>t, <2>0, <3>1 DEF ClientRefs
  <2>3. CASE UseFound(q)
    <3>1. found[q] \in Runners /\ Key(found[q]) = Key(q)
      BY <1>t, <2>3 DEF UseFound, ClientRefs
    <3>2. /\ granted' = [granted EXCEPT ![q] = found[q]]
          /\ hpc'[q] = "wait" /\ found'[q] = None
          /\ \A x \in Requests \ {q} : hpc'[x] = hpc[x] /\ found'[x] = found[x]
      BY <1>a, <1>t, <2>3, <3>1, UseRefs DEF UseFound, ClientTypeOK
    <3>3. granted'[q] = found[q] /\ \A x \in Requests \ {q} : granted'[x] = granted[x]
      BY <1>t, <3>2 DEF AnswerTypeOK
    <3> QED BY <1>b, <1>t, <2>0, <3>1, <3>2, <3>3 DEF ClientRefs
  <2>4. CASE Enqueue(q) \/ Receive(q) \/ Finish(q)
    <3>1. /\ UNCHANGED granted /\ hpc'[q] \notin {"check", "use"} /\ found'[q] = None
          /\ \A x \in Requests \ {q} : hpc'[x] = hpc[x] /\ found'[x] = found[x]
      BY <1>t, <2>4 DEF Enqueue, Receive, Finish, AnswerError, ClientTypeOK
    <3> QED BY <1>b, <1>t, <2>0, <3>1 DEF ClientRefs
  <2>5. CASE Disconnect(q) \/ WatchDone(q)
    BY <1>a, <2>5, LifeFrame DEF Disconnect, WatchDone
  <2> QED BY <2>1, <2>2, <2>3, <2>4, <2>5
<1> QED BY <1>a, <1>b, <1>c, <1>d, <1>e, LifeFrame DEF LifeInv

\* A step of a loader or of a timer.
LEMMA RunnerLife ==
    ASSUME LifeInv, AnswerInv', ActiveInv', NEW r \in Requests, RunnerFrame,
           \/ LoaderOK(r) \/ LoaderFail(r) \/ LoaderExpire(r) \/ TimerFire(r)
           \/ TimerSend(r) \/ TimerSendHeld(r) \/ Resend(r)
    PROVE  LifeInv'
<1> USE DEF RunnerFrame
<1>t. /\ AnswerTypeOK /\ RunnerTypeOK /\ TaskTypeOK /\ expiredCh \in Seq(Requests)
      /\ ClientRefs /\ ExpiredRefs /\ Unborn /\ None \notin Runners
  BY LifeTypes DEF LifeInv, ChannelTypeOK
<1>a. SameRunners /\ UNCHANGED unloaded
  BY DEF SameRunners, LoaderOK, LoaderFail, LoaderExpire, TimerFire, TimerSend, TimerSendHeld,
         Resend, SendHeld
<1>b. /\ Runners' = Runners /\ MapRunners' /\ EarlyUnborn' /\ PendRefs' /\ TaskRefs'
  BY <1>a, LifeFrame, EarlyFrame
<1>c. r \in Runners
  BY <1>t DEF Unborn, LoaderOK, LoaderFail, LoaderExpire, TimerFire, TimerSend, TimerSendHeld,
              SendHeld, Resend
<1>d. \A x \in Requests : x # r => refMu'[x] = refMu[x]
  BY <1>a, <1>c, <1>t, SendRefs DEF LoaderOK, LoaderFail, LoaderExpire, TimerFire, TimerSend,
     TimerSendHeld, Resend, RunnerTypeOK
<1>e. TouchesRunners
  <2>1. \A x \in Requests : x # r => timer'[x] = timer[x] /\ loader'[x] = loader[x]
    BY <1>t DEF LoaderOK, LoaderFail, LoaderExpire, TimerFire, TimerSend, TimerSendHeld, Resend,
                SendHeld, RunnerTypeOK, TaskTypeOK
  <2>2. \A x \in Requests : x # r => firing'[x] = firing[x] /\ resend'[x] = resend[x]
    BY <1>t DEF LoaderOK, LoaderFail, LoaderExpire, TimerFire, TimerSend, TimerSendHeld, Resend,
                SendHeld, TaskTypeOK
  <2> QED BY <1>c, <1>d, <2>1, <2>2 DEF TouchesRunners
<1>f. ExpiredRefs'
  <2>1. CASE UNCHANGED expiredCh
    BY <1>a, <2>1, LifeFrame
  <2>2. CASE expiredCh' = Append(expiredCh, r)
    BY <1>b, <1>c, <1>t, <2>2, SendRange DEF ExpiredRefs
  <2> QED BY <2>1, <2>2 DEF LoaderOK, LoaderFail, LoaderExpire, TimerFire, TimerSend,
                            TimerSendHeld, Resend, SendHeld, SendExpired
<1>g. ClientRefs'
  <2>1. CASE UNCHANGED granted
    BY <1>a, <2>1, LifeFrame
  <2>2. CASE granted' = [granted EXCEPT ![r] = r]
    BY <1>b, <1>c, <1>t, <2>2 DEF ClientRefs, AnswerTypeOK, Key
  <2> QED BY <2>1, <2>2 DEF LoaderOK, AnswerRunner, LoaderFail, AnswerError, LoaderExpire,
                            TimerFire, TimerSend, TimerSendHeld, Resend
<1> QED BY <1>a, <1>b, <1>e, <1>f, <1>g, LifeFrame DEF LifeInv

\* Expirations that processCompleted handles: the runner it unloads is the one
\* in the map, and an orphan was unloaded before.
LEMMA ExpiredRunner ==
    ASSUME MLXKeys = {}, LifeInv, cpc = "expired"
    PROVE  /\ crun \in Runners /\ crun \in Requests /\ Key(crun) \in Keys
           /\ crun \notin unloaded => InMap(crun)
           /\ loaded[Key(crun)] # None /\ PID(crun) = PID(loaded[Key(crun)]) => InMap(crun)
           /\ InMap(crun) => PID(crun) = PID(loaded[Key(crun)])
<1>1. crun \in Requests
  BY LifeTypes DEF CompTypeOK
<1>2. crun \in Runners
  BY <1>1, RequestsAssumption DEF LifeInv, TaskRefs
<1>3. Key(crun) \in Keys
  BY <1>1, LifeTypes, RequestTypes
<1>4. \A x \in Runners : PID(x) = x
  BY DEF PID, Runners
<1>5. loaded[Key(crun)] # None => loaded[Key(crun)] \in Runners
  BY <1>3 DEF LifeInv, MapRunners
<1> QED BY <1>1, <1>2, <1>3, <1>4, <1>5 DEF InMap, LifeInv, MapRunners

\* A step of processCompleted.
LEMMA CompletedLife ==
    ASSUME MLXKeys = {}, LifeInv, AnswerInv', ActiveInv', CompletedStep
    PROVE  LifeInv'
<1>t. /\ MapTypeOK /\ RunnerTypeOK /\ TaskTypeOK /\ CompTypeOK /\ ClientTypeOK
      /\ expiredCh \in Seq(Requests) /\ finishedReqCh \in Seq(Requests)
      /\ Runners \subseteq Requests /\ None \notin Runners
      /\ ExpiredRefs /\ TaskRefs /\ MapRunners /\ Unborn
  BY LifeTypes DEF LifeInv, ChannelTypeOK
<1>0. CompFrame
  BY DEF CompletedStep, FinishedStep
<1>a. SameRunners
  BY <1>0 DEF CompFrame, SameRunners
<1>b. Runners' = Runners /\ EarlyUnborn' /\ PendRefs' /\ ClientRefs'
  BY <1>0, <1>a, LifeFrame, EarlyFrame DEF CompFrame
<1>c. ASSUME UNCHANGED <<loaded, unloaded>>, TouchesRunners, ExpiredRefs', TaskRefs'
      PROVE  LifeInv'
  BY <1>a, <1>b, <1>c, LifeFrame DEF LifeInv
<1>d. ASSUME UNCHANGED <<timer, refMu, resend>> PROVE TouchesRunners
  BY <1>0, <1>d DEF CompFrame, TouchesRunners
<1>e. UNCHANGED srun /\ crun' \in Runners \cup {None} => TaskRefs'
  BY <1>b, <1>t DEF TaskRefs
<1>f. UNCHANGED expiredCh => ExpiredRefs'
  BY <1>a, LifeFrame
<1>1. CASE CompReceiveFinished
  <2>1. loaded[Key(Head(finishedReqCh))] \in Runners \cup {None}
    BY <1>1, <1>t, RequestTypes DEF CompReceiveFinished, MapRunners
  <2> QED BY <1>0, <1>1, <1>c, <1>d, <1>e, <1>f, <2>1 DEF CompReceiveFinished, CompAt, CompFrame
<1>2. CASE CompFinish
  <2>1. crun \in Runners /\ crun \in Requests
    BY <1>2, <1>t, RequestsAssumption DEF CompFinish, CompTypeOK, TaskRefs
  <2>2. \A x \in Requests : x # crun => timer'[x] = timer[x]
    BY <1>2, <1>t, <2>1 DEF CompFinish, RunnerTypeOK
  <2>3. ExpiredRefs' /\ \A x \in Requests : x # crun => refMu'[x] = refMu[x]
    BY <1>2, <1>a, <1>f, <2>1, SendRefs DEF CompFinish
  <2>4. TouchesRunners
    BY <1>0, <1>2, <2>1, <2>2, <2>3 DEF CompFinish, CompFrame, TouchesRunners
  <2>5. crun' \in Runners \cup {None}
    BY <1>2, <2>1 DEF CompFinish, CompAt
  <2> QED BY <1>0, <1>2, <1>c, <1>e, <2>3, <2>4, <2>5 DEF CompFinish, CompFrame
<1>3. CASE CompReceiveExpired
  <2>1. Range(expiredCh') \subseteq Range(expiredCh) /\ Head(expiredCh) \in Range(expiredCh)
    BY <1>3, <1>t, ReceiveRange DEF CompReceiveExpired
  <2>2. ExpiredRefs' /\ Head(expiredCh) \in Runners
    BY <1>b, <1>t, <2>1 DEF ExpiredRefs
  <2> QED BY <1>0, <1>3, <1>c, <1>d, <1>e, <2>2 DEF CompReceiveExpired, CompAt, CompFrame
<1>4. CASE CompBusy
  <2>1. crun \in Runners
    BY <1>4, ExpiredRunner DEF CompBusy
  <2>2. TouchesRunners
    BY <1>0, <1>4, <1>t, <2>1 DEF CompBusy, CompFrame, TouchesRunners, TaskTypeOK
  <2> QED BY <1>0, <1>4, <1>c, <1>e, <1>f, <2>2 DEF CompBusy, CompAt, CompFrame
<1>5. CASE CompDuplicate \/ CompNotify \/ CompExit
  BY <1>0, <1>5, <1>c, <1>d, <1>e, <1>f DEF CompDuplicate, CompNotify, CompExit, CompAt, CompFrame
<1>6. CASE CompOrphan
  <2>1. crun \in Runners /\ crun \in Requests /\ unloaded' = unloaded
    BY <1>6, ExpiredRunner DEF CompOrphan, Unload, InMap
  <2>2. TouchesRunners
    BY <1>0, <1>6, <1>t, <2>1 DEF CompOrphan, Unload, CompFrame, TouchesRunners, RunnerTypeOK
  <2> QED BY <1>0, <1>6, <1>c, <1>e, <1>f, <2>1, <2>2 DEF CompOrphan, CompAt, CompFrame
<1>7. CASE CompUnload
  <2>0. PICK r \in Runners : r = crun
    BY <1>7, ExpiredRunner DEF CompUnload
  <2>1. /\ r \in Requests /\ InMap(r) /\ Key(r) \in Keys /\ unloaded' = unloaded \cup {r}
        /\ loaded' = [loaded EXCEPT ![Key(r)] = None]
    BY <1>7, <2>0, ExpiredRunner DEF CompUnload, Unload, InMap
  <2>2. /\ loaded'[Key(r)] = None /\ \A k \in Keys \ {Key(r)} : loaded'[k] = loaded[k]
        /\ \A x : Key(x)' = Key(x)
    BY <1>a, <1>t, <2>1 DEF MapTypeOK, Key, SameRunners
  <2>3. MapRunners'
    <3>1. ASSUME NEW k \in Keys, loaded'[k] # None
          PROVE  loaded'[k] \in Runners \ unloaded' /\ Key(loaded'[k]) = k
      BY <1>t, <2>1, <2>2, <3>1 DEF MapRunners
    <3>2. ASSUME NEW x \in Runners, x \notin unloaded' PROVE loaded'[Key(x)] = x
      <4>1. x \in Requests /\ Key(x) \in Keys /\ loaded[Key(x)] = x /\ x # r
        BY <1>t, <2>1, <3>2, RequestTypes DEF MapRunners, InMap
      <4> QED BY <2>1, <2>2, <4>1 DEF InMap
    <3> QED BY <1>b, <2>2, <3>1, <3>2 DEF MapRunners, InMap
  <2>4. TouchesRunners /\ TaskRefs'
    <3>1. TouchesRunners
      BY <1>0, <1>7, <1>t, <2>0, <2>1 DEF CompUnload, Unload, CompFrame, TouchesRunners,
                                         RunnerTypeOK
    <3> QED BY <1>0, <1>7, <1>e, <2>0, <3>1 DEF CompUnload, CompAt, CompFrame
  <2>5. Unborn'
    BY <1>a, <1>b, <1>t, <2>1, <2>4 DEF Unborn, TouchesRunners, SameRunners
  <2>6. ExpiredRefs'
    BY <1>7, <1>f DEF CompUnload
  <2> QED BY <1>b, <2>3, <2>4, <2>5, <2>6 DEF LifeInv
<1>8. CASE CompRecovered
  <2>1. crun \in Runners /\ crun \in Requests
    BY <1>8, <1>t, RequestsAssumption DEF CompRecovered, CompTypeOK, TaskRefs
  <2>2. TouchesRunners
    BY <1>0, <1>8, <1>t, <2>1 DEF CompRecovered, CompFrame, TouchesRunners, RunnerTypeOK
  <2> QED BY <1>0, <1>8, <1>c, <1>e, <1>f, <2>2 DEF CompRecovered, CompAt, CompFrame
<1> QED
  BY <1>1, <1>2, <1>3, <1>4, <1>5, <1>6, <1>7, <1>8 DEF CompletedStep, FinishedStep

\* A step of the rest of the server.
LEMMA ServerLife ==
    ASSUME LifeInv, AnswerInv', ActiveInv', StopStep \/ ServerStep
    PROVE  LifeInv'
<1>t. /\ MapTypeOK /\ RunnerTypeOK /\ ServerTypeOK /\ TaskRefs /\ MapRunners
      /\ Runners \subseteq Requests /\ None \notin Runners
  BY LifeTypes DEF LifeInv
<1>0. ServerFrame
  BY DEF StopStep, ServerStep
<1>a. SameRunners
  BY <1>0 DEF StopStep, ServerStep, ServerFrame, SameRunners, StopExpire, ExpireRunner, SendHeld,
              StopLookup, DeleteModel, Shutdown, UnloadAllRunners
<1>b. Runners' = Runners /\ EarlyUnborn' /\ PendRefs' /\ ClientRefs'
  BY <1>0, <1>a, LifeFrame, EarlyFrame DEF ServerFrame
<1>1. CASE StopStep
  <2>1. srun \in Runners /\ (ExpireRunner(srun, "stop") \/ SendHeld(srun, "stop"))
    BY <1>1, <1>t, RequestsAssumption DEF StopStep, StopExpire, ServerTypeOK, TaskRefs
  <2>2. /\ ExpiredRefs' /\ UNCHANGED unloaded
        /\ \A x \in Requests : x # srun => refMu'[x] = refMu[x] /\ timer'[x] = timer[x]
    BY <1>a, <2>1, ExpireRefs
  <2>3. TouchesRunners
    BY <1>0, <2>1, <2>2 DEF ServerFrame, TouchesRunners
  <2>4. TaskRefs'
    BY <1>0, <1>1, <1>b, <1>t DEF StopStep, StopExpire, ServerFrame, TaskRefs
  <2> QED BY <1>0, <1>a, <1>b, <2>2, <2>3, <2>4, LifeFrame DEF ServerFrame, LifeInv
<1>2. CASE ServerStep
  <2>1. UNCHANGED <<timer, refMu, unloaded, expiredCh>>
    BY <1>2 DEF ServerStep, StopLookup, DeleteModel, Shutdown, UnloadAllRunners
  <2>2. UNCHANGED srun \/ \E k \in Keys : loaded[k] # None /\ srun' = loaded[k]
    BY <1>2 DEF ServerStep, StopLookup, DeleteModel, Shutdown, UnloadAllRunners
  <2>3. TaskRefs'
    BY <1>0, <1>b, <1>t, <2>2 DEF ServerFrame, TaskRefs, MapRunners
  <2>4. TouchesRunners
    BY <1>0, <2>1 DEF ServerFrame, TouchesRunners
  <2> QED BY <1>0, <1>a, <1>b, <2>1, <2>3, <2>4, LifeFrame DEF ServerFrame, LifeInv
<1> QED BY <1>1, <1>2

\* A step of processPending that creates no runner.
LEMMA PendingLifeKept ==
    ASSUME MLXKeys = {}, LifeInv, AnswerInv', ActiveInv', PendingStep, ~PendLoaded
    PROVE  LifeInv'
<1>t. /\ MapTypeOK /\ RunnerTypeOK /\ AnswerTypeOK /\ PendTypeOK /\ ClientTypeOK
      /\ pendingReqCh \in Seq(Requests)
      /\ Runners \subseteq Requests /\ None \notin Runners
      /\ PendRefs /\ MapRunners /\ ClientRefs
  BY LifeTypes DEF LifeInv, ChannelTypeOK
<1>0. PendFrame /\ ppc \notin {"mlx", "mlxInsert", "mlxTimer"}
  BY <1>t DEF PendingStep, PendRefs
<1> USE DEF PendLocal
<1>a. SameRunners /\ UNCHANGED <<loaded, unloaded, loader>>
  BY <1>0 DEF PendingStep, PendFrame, SameRunners, PendReceive, PendDrain, PendDecide, PendCheck,
              PendUse, UseLoadedRunner, PendMLX, PendMLXInsert, PendMLXTimer, PendOpen, PendFree, PendStart,
              PendLoadFull, PendLoadFailed, PendFind, PendScan, PendExpire, ExpireRunner,
              SendHeld, PendWaitUnload, PendExit
<1>b. /\ Runners' = Runners /\ MapRunners' /\ TaskRefs' /\ \A r : Key(r)' = Key(r)
  BY <1>0, <1>a, LifeFrame DEF PendFrame, Key
<1>c. PendUse => prun \in Runners /\ preq \in Requests /\ Key(prun) = Key(preq)
  BY <1>t DEF PendUse, PendRefs, AtRunner, PendTypeOK, PendHasRequest, PendPlaces
<1>d. PendExpire => prun \in Runners /\ (ExpireRunner(prun, "pending") \/ SendHeld(prun, "pending"))
  BY <1>t DEF PendExpire, PendRefs, AtRunner
<1>e. TouchesRunners /\ ExpiredRefs'
  <2>1. CASE PendUse
    BY <1>0, <1>a, <1>c, <2>1, UseRefs, LifeFrame DEF PendUse, PendFrame, TouchesRunners
  <2>2. CASE PendExpire
    BY <1>0, <1>a, <1>d, <2>2, ExpireRefs DEF PendFrame, TouchesRunners
  <2>3. CASE ~PendUse /\ ~PendExpire
    <3>1. UNCHANGED <<timer, refMu, expiredCh>>
      BY <1>0, <2>3 DEF PendingStep, PendReceive, PendDrain, PendDecide, PendCheck, PendMLX,
              PendMLXInsert, PendMLXTimer, PendOpen, PendFree, PendStart, PendLoadFull, PendLoadFailed,
              PendFind, PendScan, PendWaitUnload, PendExit
    <3> QED BY <1>0, <1>a, <3>1, LifeFrame DEF PendFrame, TouchesRunners
  <2> QED BY <2>1, <2>2, <2>3
<1>f. NoneEarlier
  <2>1. UNCHANGED hpc
    BY <1>0 DEF PendFrame
  <2>2. CASE PendReceive
    <3>1. /\ \A q \in Requests : QueueOwns(q)' => QueueOwns(q)
          /\ QueueOwns(Head(pendingReqCh))
      BY <1>t, <2>2, ReceiveRange DEF PendReceive, QueueOwns
    <3>2. \A q \in Requests : PendingOwns(q)' => q = Head(pendingReqCh)
      BY <2>2 DEF PendReceive, PendDone, PendingOwns, PendHasRequest
    <3> QED BY <2>1, <3>1, <3>2 DEF NoneEarlier, Early, HandlerOwns
  <2>3. CASE ~PendReceive
    <3>1. UNCHANGED pendingReqCh
      BY <1>0, <2>3 DEF PendingStep, PendDrain, PendDecide, PendCheck, PendUse, PendMLX,
              PendMLXInsert, PendMLXTimer, PendOpen, PendFree, PendStart, PendLoadFull, PendLoadFailed,
              PendFind, PendScan, PendExpire, PendWaitUnload, PendExit
    <3>2. \/ ppc' \notin PendHasRequest
          \/ ppc \in PendHasRequest /\ UNCHANGED preq
      BY <1>0, <2>3 DEF PendingStep, PendDrain, PendDecide, PendCheck, PendUse, PendMLX,
              PendMLXInsert, PendMLXTimer, PendOpen, PendFree, PendStart, PendLoadFull, PendLoadFailed,
              PendFind, PendScan, PendExpire, PendWaitUnload, PendExit, PendAt, PendDone,
              PendHasRequest, PendPlaces
    <3> QED BY <2>1, <3>1, <3>2 DEF NoneEarlier, Early, HandlerOwns, QueueOwns, PendingOwns
  <2> QED BY <2>2, <2>3
<1>g. ClientRefs'
  <2>1. CASE PendUse
    <3>1. granted'[preq] = prun /\ \A x \in Requests : x # preq => granted'[x] = granted[x]
      BY <1>a, <1>c, <1>t, <2>1, UseRefs DEF PendUse, AnswerTypeOK
    <3> QED BY <1>0, <1>b, <1>c, <1>t, <2>1, <3>1 DEF ClientRefs, PendFrame
  <2>2. CASE ~PendUse
    <3>1. UNCHANGED granted
      BY <1>0, <2>2 DEF PendingStep, PendReceive, PendDrain, PendDecide, PendCheck, PendMLX,
              PendMLXInsert, PendMLXTimer, PendOpen, PendFree, PendStart, PendLoadFull, PendLoadFailed,
              PendFind, PendScan, PendExpire, PendWaitUnload, PendExit, AnswerError
    <3> QED BY <1>0, <1>a, <3>1, LifeFrame DEF PendFrame
  <2> QED BY <2>1, <2>2
<1>h. PendRefs'
  <2>0. Range(<<>>) = {}
    BY DEF Range
  <2>a. ASSUME plist' = <<>> \/ plist' = plist, ppc' \in AtRunner => prun' \in Runners,
               ppc' \notin {"check", "use", "mlx", "mlxInsert", "mlxTimer"}
        PROVE  PendRefs'
    BY <1>b, <1>t, <2>0, <2>a DEF PendRefs
  <2>b. ppc \in PendHasRequest => preq \in Requests /\ Key(preq) \in Keys
    BY <1>t, RequestTypes DEF PendTypeOK
  <2> USE DEF AtRunner
  <2>1. CASE PendReceive \/ PendDrain \/ PendUse \/ PendStart \/ PendLoadFailed
    BY <1>0, <2>1, <2>a DEF PendReceive, PendDrain, PendUse, PendStart, PendLoadFailed, PendAt,
                            PendDone
  <2>2. CASE PendLoadFull \/ PendWaitUnload \/ PendExit
    BY <1>0, <2>2, <2>a DEF PendLoadFull, PendWaitUnload, PendExit, PendAt
  <2>3. CASE PendDecide
    <3>1. CASE loaded[Key(preq)] # None /\ PendAt("check", loaded[Key(preq)])
      <4>1. loaded[Key(preq)] \in Runners /\ Key(loaded[Key(preq)]) = Key(preq)
        BY <1>t, <2>3, <2>b, <3>1 DEF PendDecide, MapRunners, PendHasRequest, PendPlaces
      <4> QED BY <1>b, <2>0, <3>1, <4>1 DEF PendAt, PendRefs
    <3>2. CASE PendAt("find", None)
      BY <2>a, <3>2 DEF PendAt
    <3>3. CASE ppc' = "open" /\ UNCHANGED plist
      BY <2>a, <3>3
    <3> QED BY <2>3, <3>1, <3>2, <3>3 DEF PendDecide
  <2>4. CASE PendCheck
    <3>1. /\ ppc' \in {"use", "expire"} /\ prun' = prun /\ preq' = preq /\ plist' = <<>>
          /\ prun \in Runners /\ Key(prun) = Key(preq)
      BY <1>t, <2>4 DEF PendCheck, PendAt, PendRefs
    <3> QED BY <1>b, <2>0, <3>1 DEF PendRefs
  <2>5. CASE PendOpen
    <3>1. CASE PendDone
      BY <2>a, <3>1 DEF PendDone
    <3>2. CASE ppc' = "free" /\
              plist' \in Listings(IF req[preq].opts = 0 \/ GPUs = 0 THEN {} ELSE LoadedRunners)
      <4>1. Range(plist') \subseteq Runners
        BY <3>2, ListingRefs, LifeTypes
      <4> QED BY <1>b, <3>2, <4>1 DEF PendRefs
    <3> QED BY <2>5, <3>1, <3>2 DEF PendOpen
  <2>6. CASE PendFree
    <3>1. CASE PendAt("start", None)
      BY <2>a, <3>1 DEF PendAt
    <3>2. CASE plist # <<>> /\ plist' = Tail(plist) /\ UNCHANGED ppc
      <4>1. Range(plist') \subseteq Runners /\ ppc' = "free"
        BY <1>t, <2>6, <3>2, ReceiveRange DEF PendFree, PendTypeOK, PendRefs
      <4> QED BY <1>b, <4>1 DEF PendRefs
    <3> QED BY <2>6, <3>1, <3>2 DEF PendFree
  <2>7. CASE PendFind
    <3>1. CASE PendAt("decide", None)
      BY <2>a, <3>1 DEF PendAt
    <3>2. CASE /\ LoadedKeys # {} /\ plist' \in Listings(LoadedRunners)
               /\ prun' = Head(plist') /\ ppc' = "scan"
      <4>1. Range(plist') \subseteq Runners /\ prun' \in Runners
        BY <1>t, <3>2, ListingRefs, LifeTypes, LoadedTypes
      <4> QED BY <1>b, <3>2, <4>1 DEF PendRefs
    <3> QED BY <2>7, <3>1, <3>2 DEF PendFind
  <2>8. CASE PendScan
    <3>1. CASE plist = <<>> /\ PendAt("expire", prun)
      BY <1>t, <2>8, <2>a, <3>1 DEF PendScan, PendAt, PendRefs
    <3>2. CASE plist # <<>> /\ PendAt("expire", Head(plist))
      <4>1. Head(plist) \in Runners
        BY <1>t, <3>2, ReceiveRange DEF PendTypeOK, PendRefs
      <4> QED BY <2>a, <3>2, <4>1 DEF PendAt
    <3>3. CASE plist # <<>> /\ plist' = Tail(plist) /\ UNCHANGED <<ppc, prun>>
      <4>1. Range(plist') \subseteq Runners /\ ppc' = "scan" /\ prun' \in Runners
        BY <1>t, <2>8, <3>3, ReceiveRange DEF PendScan, PendTypeOK, PendRefs
      <4> QED BY <1>b, <4>1 DEF PendRefs
    <3> QED BY <2>8, <3>1, <3>2, <3>3 DEF PendScan
  <2>9. CASE PendExpire
    BY <1>d, <2>9, <2>a DEF PendExpire, PendAt
  <2> QED BY <1>0, <2>1, <2>2, <2>3, <2>4, <2>5, <2>6, <2>7, <2>8, <2>9
         DEF PendingStep, PendMLX, PendMLXInsert, PendMLXTimer
<1> QED BY <1>a, <1>b, <1>e, <1>f, <1>g, <1>h, LifeFrame DEF LifeInv

\* A load is done: the pending request becomes a runner, in the map and locked
\* by its loader.
LEMMA PendingLifeLoaded ==
    ASSUME LifeInv, AnswerInv', ActiveInv', PendFrame, PendLoaded
    PROVE  LifeInv'
<1>t. /\ MapTypeOK /\ RunnerTypeOK /\ TaskTypeOK /\ PendTypeOK /\ ClientTypeOK
      /\ Runners \subseteq Requests /\ None \notin Runners
      /\ MapRunners /\ Unborn /\ EarlyUnborn /\ ExpiredRefs /\ TaskRefs /\ ClientRefs
  BY LifeTypes DEF LifeInv
<1>1. PICK q \in Requests : q = preq /\ PendingOwns(q)
  BY <1>t DEF PendLoaded, PendTypeOK, PendHasRequest, PendPlaces, PendingOwns
<1>2. q \notin Runners /\ llama[q] = None /\ q \notin unloaded /\ Key(q) \in Keys
  BY <1>1, <1>t, RequestTypes DEF EarlyUnborn, Early, Unborn
<1>3. prun = q /\ loaded[Key(q)] = None
  BY <1>1 DEF PendLoaded, LifeInv, ActiveInv, LoadsOwn, RoomInv, RoomReserved, PendHasRoom
<1>4. /\ llama' = [llama EXCEPT ![q] = q] /\ loaded' = [loaded EXCEPT ![Key(q)] = q]
      /\ refMu' = [refMu EXCEPT ![q] = "loader"] /\ loader' = [loader EXCEPT ![q] = "loading"]
      /\ UNCHANGED <<req, unloaded, timer, firing, resend, expiredCh, granted, hpc, found,
                     crun, srun, pendingReqCh>>
      /\ ppc' = "idle" /\ plist' = <<>>
  BY <1>1, <1>3 DEF PendLoaded, PendDone, PendFrame
<1>5. Runners' = Runners \cup {q} /\ \A x : Key(x)' = Key(x)
  BY <1>4, <1>t DEF Runners, RunnerTypeOK, Key
<1>6. MapRunners'
  <2>1. loaded'[Key(q)] = q /\ \A k \in Keys \ {Key(q)} : loaded'[k] = loaded[k]
    BY <1>2, <1>4, <1>t DEF MapTypeOK
  <2>2. ASSUME NEW k \in Keys, loaded'[k] # None
        PROVE  loaded'[k] \in Runners' \ unloaded' /\ Key(loaded'[k]) = k
    BY <1>2, <1>4, <1>5, <1>t, <2>1, <2>2 DEF MapRunners
  <2>3. ASSUME NEW x \in Runners', x \notin unloaded' PROVE loaded'[Key(x)] = x
    <3>1. CASE x = q
      BY <2>1, <3>1
    <3>2. CASE x # q
      <4>1. x \in Requests /\ Key(x) \in Keys /\ loaded[Key(x)] = x /\ x # None
        BY <1>4, <1>5, <1>t, <2>3, <3>2, RequestTypes DEF MapRunners, InMap
      <4> QED BY <1>3, <2>1, <4>1
    <3> QED BY <3>1, <3>2
  <2> QED BY <1>5, <2>2, <2>3 DEF MapRunners, InMap
<1>7. Unborn'
  <2>1. \A x \in Requests \ {q} : /\ llama'[x] = llama[x] /\ refMu'[x] = refMu[x]
                                  /\ loader'[x] = loader[x]
    BY <1>4, <1>t DEF RunnerTypeOK, TaskTypeOK
  <2> QED BY <1>4, <1>5, <1>t, <2>1 DEF Unborn
<1>8. EarlyUnborn'
  <2>1. ~Early(q)'
    <3>1. ~HandlerOwns(q) /\ ~QueueOwns(q)
      BY <1>1 DEF LifeInv, AnswerInv, OneOwner
    <3> QED BY <1>4, <3>1 DEF Early, HandlerOwns, QueueOwns, PendingOwns, PendHasRequest
  <2>2. NoneEarlier
    BY <1>4 DEF NoneEarlier, Early, HandlerOwns, QueueOwns, PendingOwns, PendHasRequest
  <2> QED BY <1>5, <1>t, <2>1, <2>2 DEF EarlyUnborn, NoneEarlier
<1>9. ExpiredRefs' /\ TaskRefs' /\ ClientRefs'
  BY <1>4, <1>5, <1>t DEF ExpiredRefs, TaskRefs, ClientRefs
<1>10. PendRefs'
  <2>1. Range(<<>>) = {}
    BY DEF Range
  <2> QED BY <1>4, <2>1 DEF PendRefs, AtRunner
<1> QED BY <1>6, <1>7, <1>8, <1>9, <1>10 DEF LifeInv

\* Every step keeps the invariant.
LEMMA NextLife ==
    ASSUME MLXKeys = {}, Deletable = {}, LifeInv, [Next]_vars
    PROVE  LifeInv'
<1>a. AnswerInv' /\ ActiveInv'
  BY NextOwners, NextActive DEF LifeInv
<1>1. CASE UNCHANGED vars
  <2>1. SameRunners /\ TouchesRunners /\ NoneEarlier
    BY <1>1, EarlyFrame DEF vars, SameRunners, TouchesRunners
  <2> QED BY <1>1, <1>a, <2>1, LifeFrame DEF vars, LifeInv
<1>2. ASSUME NEW q \in Requests, HandlerStep(q) \/ ClientStep(q) \/ WatcherStep(q)
      PROVE  LifeInv'
  BY <1>a, <1>2, HandlerLife DEF HandlerStep, ClientStep, WatcherStep
<1>3. ASSUME NEW q \in Requests,
             LoaderStep(q) \/ TimerStep(q) \/ CallbackStep(q) \/ ResendStep(q)
      PROVE  LifeInv'
  BY <1>a, <1>3, RunnerLife DEF LoaderStep, TimerStep, CallbackStep, ResendStep
<1>4. CASE PendingStep
  BY <1>a, <1>4, PendingLifeKept, PendingLifeLoaded DEF PendingStep
<1> QED
  BY <1>a, <1>1, <1>2, <1>3, <1>4, CompletedLife, ServerLife DEF Next

\* InitScheduler starts with no runner and no reference to one.
LEMMA InitLife == Init => LifeInv
<1> SUFFICES ASSUME Init PROVE LifeInv
  OBVIOUS
<1>0. AnswerInv /\ ActiveInv /\ MapTypeOK
  BY InitOwners, InitActive DEF AnswerInv, TypeOK
<1>1. Runners = {} /\ \A r \in Requests : llama[r] = None
  BY RequestsAssumption DEF Init, Runners
<1>2. Range(<<>>) = {}
  BY DEF Range
<1>3. MapRunners /\ Unborn /\ EarlyUnborn
  BY <1>1 DEF Init, MapRunners, Unborn, EarlyUnborn
<1>4. ExpiredRefs /\ PendRefs /\ TaskRefs
  BY <1>1, <1>2 DEF Init, ExpiredRefs, PendRefs, TaskRefs, AtRunner
<1>5. ClientRefs
  BY DEF Init, ClientRefs
<1> QED BY <1>0, <1>3, <1>4, <1>5 DEF LifeInv

\* The contents of a request never change, and a runner keeps its process.
LEMMA RunnersStay ==
    ASSUME LifeInv, LifeInv', [Next]_vars
    PROVE  UNCHANGED req /\ Runners \subseteq Runners'
<1>1. UNCHANGED req
  BY DEF Next, vars, HandlerStep, ClientStep, WatcherStep, HandlerFrame, LoaderStep, TimerStep,
         CallbackStep, ResendStep, RunnerFrame, PendingStep, PendFrame, CompletedStep,
         FinishedStep, CompFrame, StopStep, ServerStep, ServerFrame
<1>2. UNCHANGED llama \/ \E q \in Requests : llama' = [llama EXCEPT ![q] = q]
  <2>1. CASE UNCHANGED vars
    BY <2>1 DEF vars
  <2>2. CASE \E q \in Requests : HandlerStep(q) \/ ClientStep(q) \/ WatcherStep(q)
    BY <2>2 DEF HandlerStep, ClientStep, WatcherStep, HandlerLocal, Arrive, CheckReload, UseFound,
                UseLoadedRunner, Enqueue, Receive, Finish, Disconnect, WatchDone
  <2>3. CASE \E q \in Requests : \/ LoaderStep(q) \/ TimerStep(q) \/ CallbackStep(q)
                                 \/ ResendStep(q)
    BY <2>3 DEF LoaderStep, TimerStep, CallbackStep, ResendStep, LoaderOK, LoaderFail,
                LoaderExpire, TimerFire, TimerSend, TimerSendHeld, Resend, SendHeld
  <2>4. CASE CompletedStep
    BY <2>4 DEF CompletedStep, FinishedStep, CompFrame
  <2>5. CASE StopStep \/ ServerStep
    BY <2>5 DEF StopStep, ServerStep, StopExpire, ExpireRunner, SendHeld, StopLookup, DeleteModel,
                Shutdown, UnloadAllRunners
  <2>6. CASE PendingStep
    <3>1. ppc \notin {"mlx", "mlxInsert", "mlxTimer"} /\ (ppc = "load" => preq \in Requests /\ prun = preq)
      BY LifeTypes DEF LifeInv, PendRefs, ActiveInv, LoadsOwn, PendTypeOK, PendHasRequest,
                       PendPlaces
    <3> QED BY <2>6, <3>1 DEF PendingStep, PendLocal, PendReceive, PendDrain, PendDecide,
              PendCheck, PendUse, UseLoadedRunner, PendMLX, PendMLXInsert, PendMLXTimer, PendOpen, PendFree,
              PendStart, PendLoaded, PendLoadFull, PendLoadFailed, PendFind, PendScan,
              PendExpire, ExpireRunner, SendHeld, PendWaitUnload, PendExit
  <2> QED BY <2>1, <2>2, <2>3, <2>4, <2>5, <2>6 DEF Next
<1>3. Runners \subseteq Runners'
  BY <1>2, LifeTypes DEF Runners, RunnerTypeOK
<1> QED BY <1>1, <1>3

\* An entry leaves the map only when its own runner is unloaded, whatever
\* expirations are duplicated, delayed or re-queued: the runner that has the
\* key now is never deleted in place of an older one (sched.go 385-404).
THEOREM DeletedIsUnloaded ==
    ASSUME MLXKeys = {}, Deletable = {}
    PROVE  Spec => DeletesOnlyUnloaded
<1>1. LifeInv /\ [Next]_vars => LifeInv'
  BY NextLife
<1>2. LifeInv /\ LifeInv' /\ [Next]_vars =>
         [\A k \in Keys : loaded[k] # None /\ loaded'[k] = None => loaded[k] \in unloaded']_vars
  <2> SUFFICES ASSUME LifeInv, LifeInv', [Next]_vars, NEW k \in Keys,
                      loaded[k] # None, loaded'[k] = None
               PROVE  loaded[k] \in unloaded'
    OBVIOUS
  <2>1. PICK r : r = loaded[k]
    OBVIOUS
  <2>2. r \in Runners /\ Key(r) = k
    BY <2>1 DEF LifeInv, MapRunners
  <2>3. Key(r)' = k /\ r # None
    BY <2>2, RunnersStay, RequestsAssumption DEF Key, Runners
  <2>4. r \in Runners'
    BY <2>2, RunnersStay
  <2> QED BY <2>1, <2>3, <2>4 DEF LifeInv, MapRunners, InMap
<1> QED BY <1>1, <1>2, InitLife, PTL DEF Spec, DeletesOnlyUnloaded

-----------------------------------------------------------------------------
(* The processes.  Without a shutdown, which closes processes behind the    *)
(* scheduler's back, the running ones are exactly the one being loaded and  *)
(* those of the runners in the map.                                         *)

\* The inductive invariant.
ProcInv ==
    /\ LifeInv /\ down = "up" /\ ppc \notin {"exit", "panic"}
    /\ ppc = "load" => activeLoading = preq
    /\ \A p \in Requests : proc[p] = "running" <=> activeLoading = p \/ InMap(p)

\* A step that changes none of this.
LEMMA ProcKept ==
    ASSUME ProcInv, LifeInv', UNCHANGED <<req, proc, down, loaded, activeLoading>>,
           \/ UNCHANGED <<ppc, preq>>
           \/ ppc' \notin {"load", "exit", "panic"}
    PROVE  ProcInv'
<1>1. \A p : InMap(p)' = InMap(p)
  BY DEF InMap, Key
<1> QED BY <1>1 DEF ProcInv

\* A step of processPending.
LEMMA PendingProc ==
    ASSUME ProcInv, LifeInv', PendingStep
    PROVE  ProcInv'
<1>t. /\ MapTypeOK /\ RunnerTypeOK /\ PendTypeOK /\ ClientTypeOK /\ LifeInv
      /\ ppc \notin {"mlx", "mlxInsert", "mlxTimer"} /\ down = "up"
  BY LifeTypes DEF ProcInv, LifeInv, PendRefs
<1>0. UNCHANGED <<req, down>>
  BY DEF PendingStep, PendFrame
<1>a. \A p : InMap(p)' = (loaded'[Key(p)] = p)
  BY <1>0 DEF InMap, Key
<1>b. ppc \in {"start", "load"} => /\ preq \in Requests /\ preq # None /\ Key(preq) \in Keys
                                   /\ loaded[Key(preq)] = None
  BY <1>t, RequestTypes, RequestsAssumption DEF PendTypeOK, PendHasRequest, PendPlaces, LifeInv,
     ActiveInv, RoomInv, RoomReserved, PendHasRoom
<1> USE DEF PendLocal
<1>1. CASE PendStart
  <2>1. CASE activeLoading = None /\ PendDone /\ UNCHANGED <<activeLoading, proc>>
    BY <1>0, <1>1, <2>1, ProcKept DEF PendStart, PendDone
  <2>2. CASE /\ activeLoading = None /\ PendAt("load", preq) /\ activeLoading' = preq
             /\ proc' = [proc EXCEPT ![preq] = "running"]
    <3>1. UNCHANGED <<loaded, preq>> /\ ppc' = "load"
      BY <1>1, <2>2 DEF PendStart, PendAt
    <3>2. ASSUME NEW p \in Requests
          PROVE  proc'[p] = "running" <=> activeLoading' = p \/ loaded'[Key(p)] = p
      <4>1. proc[p] = "running" <=> loaded[Key(p)] = p
        BY <2>2, RequestsAssumption DEF ProcInv, InMap
      <4>2. proc'[p] = IF p = preq THEN "running" ELSE proc[p]
        BY <1>t, <2>2 DEF RunnerTypeOK
      <4> QED BY <2>2, <3>1, <4>1, <4>2
    <3> QED BY <1>0, <1>a, <1>t, <2>2, <3>1, <3>2 DEF ProcInv
  <2>3. CASE /\ activeLoading # None /\ UNCHANGED <<activeLoading, proc>>
             /\ PendAt(IF Key(activeLoading) = Key(preq) THEN "load" ELSE "panic",
                       activeLoading)
    <3>1. activeLoading = preq /\ UNCHANGED <<loaded, preq>> /\ ppc' = "load"
      BY <1>1, <1>t, <2>3 DEF PendStart, PendAt, LifeInv, ActiveInv, ActiveOwn
    <3>2. \A p : InMap(p)' = InMap(p)
      BY <1>a, <3>1 DEF InMap
    <3> QED BY <1>0, <1>t, <2>3, <3>1, <3>2 DEF ProcInv
  <2> QED BY <1>1, <2>1, <2>2, <2>3 DEF PendStart
<1>2. CASE PendLoaded
  <2>1. /\ activeLoading = preq /\ activeLoading' = None /\ UNCHANGED proc /\ ppc' = "idle"
        /\ loaded' = [loaded EXCEPT ![Key(preq)] = preq]
    BY <1>2 DEF PendLoaded, PendDone, ProcInv
  <2>2. loaded'[Key(preq)] = preq /\ \A k \in Keys \ {Key(preq)} : loaded'[k] = loaded[k]
    BY <1>2, <1>b, <1>t, <2>1 DEF PendLoaded, MapTypeOK
  <2>3. ASSUME NEW p \in Requests
        PROVE  proc'[p] = "running" <=> activeLoading' = p \/ loaded'[Key(p)] = p
    <3>1. Key(p) \in Keys /\ p # None
      BY <1>t, RequestTypes, RequestsAssumption
    <3>2. proc[p] = "running" <=> p = preq \/ loaded[Key(p)] = p
      BY <2>1 DEF ProcInv, InMap
    <3>3. CASE p = preq
      BY <2>1, <2>2, <3>2, <3>3
    <3>4. CASE p # preq
      BY <1>2, <1>b, <2>1, <2>2, <3>1, <3>2, <3>4 DEF PendLoaded
    <3> QED BY <3>3, <3>4
  <2> QED BY <1>0, <1>a, <1>t, <2>1, <2>3 DEF ProcInv
<1>3. CASE PendLoadFailed
  <2>1. /\ activeLoading = preq /\ activeLoading' = None /\ ppc' = "idle" /\ UNCHANGED loaded
        /\ proc' = [proc EXCEPT ![preq] = "closed"]
    BY <1>3, <1>b DEF PendLoadFailed, PendDone, ProcInv
  <2>2. ASSUME NEW p \in Requests
        PROVE  proc'[p] = "running" <=> activeLoading' = p \/ loaded'[Key(p)] = p
    <3>1. proc'[p] = IF p = preq THEN "closed" ELSE proc[p]
      BY <1>t, <2>1 DEF RunnerTypeOK
    <3>2. proc[p] = "running" <=> p = preq \/ loaded[Key(p)] = p
      BY <2>1 DEF ProcInv, InMap
    <3> QED BY <1>3, <1>b, <2>1, <3>1, <3>2, RequestsAssumption DEF PendLoadFailed
  <2> QED BY <1>0, <1>a, <1>t, <2>1, <2>2 DEF ProcInv
<1>4. CASE PendReceive \/ PendDrain \/ PendDecide \/ PendCheck \/ PendUse \/ PendOpen
  <2>1. UNCHANGED <<proc, loaded, activeLoading>> /\ ppc' \notin {"load", "exit", "panic"}
    BY <1>4 DEF PendReceive, PendDrain, PendDecide, PendCheck, PendUse, UseLoadedRunner, PendOpen,
                PendAt, PendDone
  <2> QED BY <1>0, <2>1, ProcKept
<1>5. CASE \/ PendFree \/ PendLoadFull \/ PendFind \/ PendScan \/ PendExpire \/ PendWaitUnload
  <2>1. UNCHANGED <<proc, loaded, activeLoading>> /\ ppc' \notin {"load", "exit", "panic"}
    BY <1>5 DEF PendFree, PendLoadFull, PendFind, PendScan, PendExpire, ExpireRunner, SendHeld,
                PendWaitUnload, PendAt
  <2> QED BY <1>0, <2>1, ProcKept
<1> QED BY <1>t, <1>1, <1>2, <1>3, <1>4, <1>5 DEF PendingStep, PendMLX, PendMLXInsert, PendMLXTimer, PendExit

\* A step of processCompleted: it closes the process of the runner it takes out
\* of the map, and otherwise only what was closed before.
LEMMA CompletedProc ==
    ASSUME MLXKeys = {}, ProcInv, LifeInv', CompletedStep
    PROVE  ProcInv'
<1>t. /\ MapTypeOK /\ RunnerTypeOK /\ LifeInv /\ ClientTypeOK
  BY LifeTypes DEF ProcInv
<1>0. CompFrame
  BY DEF CompletedStep, FinishedStep
<1>a. \A p : InMap(p)' = (loaded'[Key(p)] = p)
  BY <1>0 DEF InMap, Key, CompFrame
<1>b. ASSUME NEW r \in Runners PROVE r # activeLoading
  <2>1. ASSUME r = activeLoading PROVE FALSE
    <3>1. activeLoading # None
      BY <1>b, <2>1, RequestsAssumption DEF Runners
    <3>2. activeLoading = preq /\ ppc \in PendHasRequest
      BY <3>1 DEF ProcInv, LifeInv, ActiveInv, ActiveOwn, AtLoading, PendHasRequest, PendPlaces
    <3>3. PendingOwns(r) /\ r \in Requests
      BY <1>b, <2>1, <3>2 DEF PendingOwns, Runners
    <3> QED BY <1>b, <1>t, <3>3 DEF LifeInv, EarlyUnborn, Early
  <2> QED BY <2>1
<1>1. CASE CompOrphan
  <2>1. crun \in Runners /\ crun \in Requests /\ ~InMap(crun) /\ crun # activeLoading
    BY <1>1, <1>b, <1>t, ExpiredRunner DEF CompOrphan
  <2>2. UNCHANGED loaded /\ proc' = [proc EXCEPT ![crun] = "closed"]
    BY <1>1, <2>1 DEF CompOrphan, Unload, Runners
  <2>3. \A p \in Requests : proc'[p] = "running" <=> proc[p] = "running"
    BY <1>t, <2>1, <2>2 DEF ProcInv, RunnerTypeOK
  <2> QED BY <1>0, <1>a, <1>t, <2>2, <2>3 DEF ProcInv, CompFrame, InMap
<1>2. CASE CompUnload
  <2>1. PICK r \in Runners : /\ r = crun /\ r \in Requests /\ InMap(r) /\ r # activeLoading
                             /\ Key(r) \in Keys
    BY <1>2, <1>b, <1>t, ExpiredRunner DEF CompUnload
  <2>2. loaded' = [loaded EXCEPT ![Key(r)] = None] /\ proc' = [proc EXCEPT ![r] = "closed"]
    BY <1>2, <2>1 DEF CompUnload, Unload, Runners
  <2>3. /\ loaded'[Key(r)] = None /\ \A k \in Keys \ {Key(r)} : loaded'[k] = loaded[k]
        /\ \A p \in Requests : proc'[p] = IF p = r THEN "closed" ELSE proc[p]
    BY <1>t, <2>1, <2>2 DEF MapTypeOK, RunnerTypeOK
  <2>4. ASSUME NEW p \in Requests
        PROVE  proc'[p] = "running" <=> activeLoading = p \/ loaded'[Key(p)] = p
    <3>1. Key(p) \in Keys /\ p # None
      BY <1>t, RequestTypes, RequestsAssumption
    <3>2. proc[p] = "running" <=> activeLoading = p \/ loaded[Key(p)] = p
      BY DEF ProcInv, InMap
    <3>3. CASE p = r
      BY <2>1, <2>3, <3>1, <3>3
    <3>4. CASE p # r
      BY <2>1, <2>3, <3>1, <3>2, <3>4 DEF InMap
    <3> QED BY <3>3, <3>4
  <2> QED BY <1>0, <1>a, <1>t, <2>4 DEF ProcInv, CompFrame
<1>3. CASE ~CompOrphan /\ ~CompUnload
  <2>1. UNCHANGED <<proc, loaded>>
    BY <1>3 DEF CompletedStep, FinishedStep, CompReceiveFinished, CompFinish, CompReceiveExpired,
                CompBusy, CompDuplicate, CompRecovered, CompNotify, CompExit
  <2> QED BY <1>0, <2>1, ProcKept DEF CompFrame
<1> QED BY <1>1, <1>2, <1>3

\* Every step keeps the invariant.
LEMMA NextProc ==
    ASSUME MLXKeys = {}, Deletable = {}, ~CanShutDown, ProcInv, [Next]_vars
    PROVE  ProcInv'
<1>a. LifeInv'
  BY NextLife DEF ProcInv
<1>1. CASE UNCHANGED <<req, proc, down, loaded, activeLoading, ppc, preq>>
  BY <1>a, <1>1, ProcKept
<1>2. CASE UNCHANGED vars
  BY <1>1, <1>2 DEF vars
<1>3. CASE \E q \in Requests : HandlerStep(q) \/ ClientStep(q) \/ WatcherStep(q)
  BY <1>1, <1>3 DEF HandlerStep, ClientStep, WatcherStep, HandlerFrame, HandlerLocal, Arrive,
     CheckReload, UseFound, UseLoadedRunner, Enqueue, Receive, Finish, Disconnect, WatchDone
<1>4. CASE \E q \in Requests : \/ LoaderStep(q) \/ TimerStep(q) \/ CallbackStep(q)
                               \/ ResendStep(q)
  BY <1>1, <1>4 DEF LoaderStep, TimerStep, CallbackStep, ResendStep, RunnerFrame, LoaderOK,
     LoaderFail, LoaderExpire, TimerFire, TimerSend, TimerSendHeld, Resend, SendHeld
<1>5. CASE StopStep \/ ServerStep
  BY <1>1, <1>5 DEF StopStep, ServerStep, ServerFrame, StopExpire, ExpireRunner, SendHeld,
     StopLookup, DeleteModel, Shutdown, UnloadAllRunners, ProcInv
<1> QED
  BY <1>a, <1>2, <1>3, <1>4, <1>5, PendingProc, CompletedProc DEF Next

\* InitScheduler starts with no process.
LEMMA InitProc == Init => ProcInv
<1> SUFFICES ASSUME Init PROVE ProcInv
  OBVIOUS
<1>1. LifeInv /\ ClientTypeOK
  BY InitLife, LifeTypes
<1>2. \A p \in Requests : proc[p] # "running" /\ activeLoading # p /\ ~InMap(p)
  BY <1>1, RequestTypes, RequestsAssumption DEF Init, InMap
<1> QED BY <1>1, <1>2 DEF Init, ProcInv

\* A runner in the map has not been unloaded and its process runs: later
\* requests for its model never find a runner that was shut down.
THEOREM MapIsAlive ==
    ASSUME MLXKeys = {}, Deletable = {}, ~CanShutDown
    PROVE  Spec => []LoadedIsAlive
<1>1. ProcInv => LoadedIsAlive
  <2> SUFFICES ASSUME ProcInv, NEW k \in Keys, loaded[k] # None
               PROVE  loaded[k] \notin unloaded /\ proc[llama[loaded[k]]] = "running"
    BY DEF LoadedIsAlive, LoadedKeys
  <2>1. loaded[k] \in Runners \ unloaded /\ Key(loaded[k]) = k
    BY DEF ProcInv, LifeInv, MapRunners
  <2> QED BY <2>1 DEF ProcInv, Runners, InMap
<1>2. ProcInv /\ [Next]_vars => ProcInv'
  BY NextProc
<1> QED BY <1>1, <1>2, InitProc, PTL DEF Spec

\* No process is left running with nobody to unload it, after failed loads,
\* evictions and disconnects.
THEOREM NoneStranded ==
    ASSUME MLXKeys = {}, Deletable = {}, ~CanShutDown
    PROVE  Spec => []NoStrandedProcess
<1>1. ProcInv => NoStrandedProcess
  <2> SUFFICES ASSUME ProcInv, NEW p \in Requests, proc[p] = "running", activeLoading # p
               PROVE  \E k \in LoadedKeys : llama[loaded[k]] = p
    BY DEF NoStrandedProcess
  <2>1. loaded[Key(p)] = p /\ Key(p) \in Keys /\ p # None
    BY LifeTypes, RequestTypes, RequestsAssumption DEF ProcInv, InMap
  <2>2. llama[p] = p
    BY <2>1 DEF ProcInv, LifeInv, MapRunners, Runners
  <2> QED BY <2>1, <2>2 DEF LoadedKeys
<1>2. ProcInv /\ [Next]_vars => ProcInv'
  BY NextProc
<1> QED BY <1>1, <1>2, InitProc, PTL DEF Spec

-----------------------------------------------------------------------------
(* The reference counts.  The count and the map depend on each other: a    *)
(* finished request is counted out of the runner that has its key now,     *)
(* which is the one it was counted into because that one cannot have been  *)
(* unloaded, because its count was not zero.                               *)

\* The requests that hold some runner.
Held == watching \cup Range(finishedReqCh)

\* A request processCompleted has received and not yet counted out.
Leaving(r) == IF cpc = "finish" /\ crun = r THEN 1 ELSE 0

\* A request is in one place on its way out.
HeldOnce ==
    /\ IsInjective(finishedReqCh) /\ watching \cap Range(finishedReqCh) = {}
    /\ \A q \in Held : sent[q] > 0 /\ granted[q] # None

\* A runner that is held is not unloaded.
HeldLive == dead = {} => \A q \in Held : granted[q] \notin unloaded

\* The inductive invariant.
CountInv == LifeInv /\ HeldOnce /\ HeldLive /\ RefCountExact

\* The holders of a runner can be counted.
LEMMA HoldersFinite ==
    ASSUME NEW r
    PROVE  /\ IsFiniteSet(Holders(r)) /\ Cardinality(Holders(r)) \in Nat
           /\ Holders(r) \in SUBSET Requests
BY RequestsAssumption, FS_Subset, FS_CardinalityType DEF Holders

\* What is received from a queue and what is left is all there was.
LEMMA ReceiveSplit ==
    ASSUME NEW s \in Seq(Requests), s # <<>>, NEW x \in Range(s), x # Head(s)
    PROVE  x \in Range(Tail(s))
<1> DEFINE t == Tail(s)
<1>1. /\ DOMAIN s = 1..Len(s) /\ Len(s) \in Nat \ {0} /\ Head(s) = s[1]
      /\ DOMAIN t = 1..(Len(s) - 1)
      /\ \A i \in DOMAIN t : t[i] = s[i + 1] /\ i + 1 \in DOMAIN s
  OBVIOUS
<1> HIDE DEF t
<1>2. PICK i \in DOMAIN s : x = s[i]
  BY DEF Range
<1>3. i - 1 \in DOMAIN t /\ t[i - 1] = s[i]
  BY <1>1, <1>2
<1> QED BY <1>2, <1>3 DEF Range, t

\* What is left in a queue of distinct elements.
LEMMA ReceiveRest ==
    ASSUME NEW s \in Seq(Requests), s # <<>>, IsInjective(s)
    PROVE  Range(Tail(s)) = Range(s) \ {Head(s)}
BY ReceiveSplit, ReceiveRange

\* A step after which everybody holds what he held.
LEMMA CountKept ==
    ASSUME CountInv, LifeInv', UNCHANGED <<granted, watching, finishedReqCh, dead>>,
           UNCHANGED <<refCount, unloaded>>,
           \A q \in Requests : sent'[q] >= sent[q],
           \A r \in Requests : Leaving(r)' = Leaving(r)
    PROVE  CountInv'
<1>1. \A r : Holders(r)' = Holders(r)
  BY DEF Holders
<1>2. RefCountExact'
  BY <1>1 DEF CountInv, RefCountExact, Leaving
<1>3. HeldOnce'
  <2>1. Held' = Held /\ Held \subseteq Requests /\ sent \in [Requests -> Nat]
        /\ sent' \in [Requests -> Nat]
    BY LifeTypes DEF CountInv, Held, AnswerTypeOK, ChannelTypeOK, Range, LifeInv, AnswerInv, TypeOK
  <2> QED BY <2>1 DEF CountInv, HeldOnce
<1>4. HeldLive'
  BY DEF CountInv, HeldLive, Held
<1> QED BY <1>2, <1>3, <1>4 DEF CountInv

\* A request that was not answered before is granted a runner and counted in.
LEMMA CountIn ==
    ASSUME CountInv, LifeInv', NEW q \in Requests, NEW r \in Requests, sent[q] = 0,
           AnswerRunner(q, r), refCount' = [refCount EXCEPT ![r] = Inc(@)],
           UNCHANGED <<unloaded, finishedReqCh, compVars>>
    PROVE  CountInv' /\ (dead' = {} => refCount'[r] > 0)
<1>t. /\ AnswerTypeOK /\ refCount \in [Requests -> 0..RefMax]
      /\ q \notin Held /\ r # None /\ Held \subseteq Requests
  BY LifeTypes, RequestsAssumption
     DEF CountInv, HeldOnce, RunnerTypeOK, Held, AnswerTypeOK, ChannelTypeOK, Range
<1>1. /\ granted'[q] = r /\ \A x \in Requests \ {q} : granted'[x] = granted[x]
      /\ sent'[q] = sent[q] + 1 /\ \A x \in Requests \ {q} : sent'[x] = sent[x]
      /\ watching' = watching \cup {q}
  BY <1>t DEF AnswerRunner, AnswerTypeOK
<1>2. Held' = Held \cup {q}
  BY <1>1 DEF Held
<1>3. HeldOnce'
  BY <1>1, <1>2, <1>t DEF CountInv, HeldOnce, Held
<1>4. HeldLive'
  <2> SUFFICES ASSUME dead' = {}, NEW x \in Held' PROVE granted'[x] \notin unloaded'
    BY DEF HeldLive
  <2>1. dead = {} /\ r \notin unloaded
    BY DEF AnswerRunner
  <2>2. CASE x = q
    BY <1>1, <2>1, <2>2
  <2>3. CASE x # q
    BY <1>1, <1>2, <1>t, <2>1, <2>3 DEF CountInv, HeldLive
  <2> QED BY <2>2, <2>3
<1>5. RefCountExact'
  <2> SUFFICES ASSUME dead' = {}, NEW x \in Requests
               PROVE  refCount'[x] = Cardinality(Holders(x)') + Leaving(x)'
    BY DEF RefCountExact, Leaving
  <2>1. Leaving(x)' = Leaving(x) /\ Leaving(x) \in {0, 1}
    BY DEF Leaving
  <2>2. refCount[x] = Cardinality(Holders(x)) + Leaving(x)
    BY DEF AnswerRunner, CountInv, RefCountExact, Leaving
  <2>3. CASE x # r
    <3>1. Holders(x)' = Holders(x)
      BY <1>1, <1>t, <2>3 DEF Holders, Held
    <3> QED BY <1>t, <2>1, <2>2, <2>3, <3>1
  <2>4. CASE x = r
    <3>1. Holders(x)' = Holders(x) \cup {q} /\ q \notin Holders(x)
      BY <1>1, <1>t, <2>4 DEF Holders, Held
    <3>2. Cardinality(Holders(x)') = Cardinality(Holders(x)) + 1 /\ Cardinality(Holders(x)) \in Nat
      BY <3>1, HoldersFinite, FS_AddElement
    <3>3. Cardinality(Holders(x)') <= Cardinality(Requests) /\ Cardinality(Requests) \in Nat
      <4>1. Holders(x)' \in SUBSET Requests
        BY <3>1, HoldersFinite
      <4> QED BY <4>1, RequestsAssumption, FS_Subset, FS_CardinalityType
    <3>4. refCount[x] < RefMax
      BY <2>1, <2>2, <3>2, <3>3, RefAssumption
    <3>5. refCount'[x] = refCount[x] + 1
      BY <1>t, <2>4, <3>4 DEF Inc
    <3> QED BY <2>1, <2>2, <3>2, <3>5
  <2> QED BY <2>3, <2>4
<1>6. dead' = {} => refCount'[r] > 0
  <2>1. q \in Holders(r)'
    BY <1>1 DEF Holders
  <2>2. Holders(r)' \in SUBSET Requests
    BY DEF Holders
  <2>3. Cardinality(Holders(r)') \in Nat \ {0}
    BY <2>1, <2>2, RequestsAssumption, FS_Subset, FS_CardinalityType, FS_EmptySet
  <2>4. dead' = {} => refCount'[r] = Cardinality(Holders(r)') + Leaving(r)'
    BY <1>5 DEF RefCountExact, Leaving
  <2>5. Leaving(r)' \in {0, 1}
    BY DEF Leaving
  <2> QED BY <2>3, <2>4, <2>5
<1> QED BY <1>3, <1>4, <1>5, <1>6 DEF CountInv

\* The watcher of a request hands it to finishedReqCh.
LEMMA CountReported ==
    ASSUME CountInv, LifeInv', NEW q \in Requests, HandlerFrame, WatchDone(q)
    PROVE  CountInv'
<1>t. finishedReqCh \in Seq(Requests) /\ q \in watching /\ q \notin Range(finishedReqCh)
  BY LifeTypes DEF CountInv, ChannelTypeOK, WatchDone, HeldOnce
<1>1. /\ Range(finishedReqCh') = Range(finishedReqCh) \cup {q} /\ IsInjective(finishedReqCh')
      /\ watching' = watching \ {q}
  BY <1>t, SendRange DEF WatchDone, CountInv, HeldOnce
<1>2. Held' = Held /\ UNCHANGED <<granted, sent, dead, unloaded, refCount, cpc, crun>>
  BY <1>1, <1>t DEF Held, WatchDone, HandlerFrame
<1>3. \A r : Holders(r)' = Holders(r)
  BY <1>2 DEF Holders, Held
<1>4. HeldOnce' /\ HeldLive'
  BY <1>1, <1>2 DEF CountInv, HeldOnce, HeldLive
<1>5. RefCountExact'
  BY <1>2, <1>3 DEF CountInv, RefCountExact
<1> QED BY <1>4, <1>5 DEF CountInv

\* processCompleted receives a finished request: the runner it finds under the
\* request's key is the one the request holds.
LEMMA CountReceived ==
    ASSUME CountInv, LifeInv', CompFrame, CompReceiveFinished
    PROVE  CountInv'
<1>t. /\ finishedReqCh \in Seq(Requests) /\ finishedReqCh # <<>> /\ ClientTypeOK
      /\ IsInjective(finishedReqCh) /\ LifeInv
  BY LifeTypes DEF CountInv, ChannelTypeOK, CompReceiveFinished, HeldOnce
<1>1. PICK h \in Requests : h = Head(finishedReqCh)
  BY <1>t
<1>2. /\ Range(finishedReqCh') = Range(finishedReqCh) \ {h} /\ IsInjective(finishedReqCh')
      /\ h \in Range(finishedReqCh)
  BY <1>1, <1>t, ReceiveRest, ReceiveRange DEF CompReceiveFinished
<1>3. h \in Held /\ h \notin watching
  BY <1>2 DEF CountInv, HeldOnce, Held
<1>4. UNCHANGED <<watching, granted, sent, dead, unloaded, refCount>> /\ Held' = Held \ {h}
  BY <1>2, <1>3 DEF CompReceiveFinished, CompFrame, Held
<1>5. HeldOnce' /\ HeldLive'
  BY <1>2, <1>4 DEF CountInv, HeldOnce, HeldLive
<1>6. RefCountExact'
  <2> SUFFICES ASSUME dead' = {}, NEW x \in Requests
               PROVE  refCount'[x] = Cardinality(Holders(x)') + Leaving(x)'
    BY DEF RefCountExact, Leaving
  <2>1. PICK g : g = granted[h]
    OBVIOUS
  <2>2. g \in Runners /\ g \notin unloaded /\ Key(g) = Key(h) /\ g # None
    <3>1. g # None /\ g \notin unloaded
      BY <1>3, <1>4, <2>1 DEF CountInv, HeldOnce, HeldLive
    <3> QED BY <1>t, <2>1, <3>1 DEF LifeInv, ClientRefs
  <2>3. loaded[Key(h)] = g
    BY <1>t, <2>2 DEF LifeInv, MapRunners, InMap
  <2>4. cpc' = "finish" /\ crun' = g
    BY <1>1, <2>2, <2>3 DEF CompReceiveFinished, CompAt
  <2>5. refCount[x] = Cardinality(Holders(x)) /\ UNCHANGED refCount
    <3>1. refCount[x] = Cardinality(Holders(x)) + 0
      BY <1>4 DEF CountInv, RefCountExact, CompReceiveFinished
    <3> QED BY <1>4, <3>1, HoldersFinite
  <2>6. CASE x # g
    <3>1. Holders(x)' = Holders(x)
      BY <1>4, <2>1, <2>6 DEF Holders, Held
    <3> QED BY <2>4, <2>5, <2>6, <3>1, HoldersFinite DEF Leaving
  <2>7. CASE x = g
    <3>1. Holders(x)' = Holders(x) \ {h} /\ h \in Holders(x)
      BY <1>3, <1>4, <2>1, <2>7 DEF Holders, Held
    <3>2. Cardinality(Holders(x)') = Cardinality(Holders(x)) - 1
      BY <3>1, HoldersFinite, FS_RemoveElement
    <3> QED BY <2>4, <2>5, <2>7, <3>2, HoldersFinite DEF Leaving
  <2> QED BY <2>6, <2>7
<1> QED BY <1>5, <1>6 DEF CountInv

\* processCompleted counts it out.
LEMMA CountOut ==
    ASSUME CountInv, LifeInv', CompFrame, CompFinish
    PROVE  CountInv'
<1>t. crun \in Requests /\ refCount \in [Requests -> 0..RefMax]
  BY LifeTypes DEF CountInv, CompTypeOK, RunnerTypeOK, CompFinish
<1>1. UNCHANGED <<watching, granted, sent, dead, unloaded, finishedReqCh>> /\ cpc' # "finish"
  BY DEF CompFinish, CompFrame, CompAt
<1>2. \A r : Holders(r)' = Holders(r)
  BY <1>1 DEF Holders
<1>3. HeldOnce' /\ HeldLive'
  BY <1>1 DEF CountInv, HeldOnce, HeldLive, Held
<1>4. RefCountExact'
  <2> SUFFICES ASSUME dead' = {}, NEW x \in Requests
               PROVE  refCount'[x] = Cardinality(Holders(x))
    <3>1. \A x \in Requests : Cardinality(Holders(x)) + 0 = Cardinality(Holders(x))
      BY HoldersFinite
    <3> QED BY <1>1, <1>2, <3>1 DEF RefCountExact
  <2>1. refCount[x] = Cardinality(Holders(x)) + (IF crun = x THEN 1 ELSE 0)
    BY <1>1 DEF CountInv, RefCountExact, CompFinish
  <2>2. refCount'[x] = IF x = crun THEN Dec(refCount[x]) ELSE refCount[x]
    BY <1>t DEF CompFinish
  <2> QED BY <1>t, <2>1, <2>2, HoldersFinite DEF Dec
<1> QED BY <1>3, <1>4 DEF CountInv

\* A step of processCompleted.
LEMMA CompletedCounts ==
    ASSUME MLXKeys = {}, CountInv, LifeInv', CompletedStep
    PROVE  CountInv'
<1>0. CompFrame
  BY DEF CompletedStep, FinishedStep
<1>t. LifeInv /\ sent \in [Requests -> Nat]
  BY LifeTypes DEF CountInv, AnswerTypeOK
<1>1. CASE CompReceiveFinished \/ CompFinish
  BY <1>0, <1>1, CountReceived, CountOut
<1>2. CASE \/ CompReceiveExpired \/ CompBusy \/ CompDuplicate \/ CompRecovered \/ CompNotify
           \/ CompExit
  <2>1. /\ UNCHANGED <<granted, watching, finishedReqCh, dead, refCount, unloaded, sent>>
        /\ cpc # "finish" /\ cpc' # "finish"
    BY <1>0, <1>2 DEF CompReceiveExpired, CompBusy, CompDuplicate, CompRecovered, CompNotify,
                      CompExit, CompAt, CompFrame
  <2> QED BY <1>t, <2>1, CountKept DEF Leaving
<1>3. CASE CompOrphan
  <2>1. /\ UNCHANGED <<granted, watching, finishedReqCh, dead, refCount, unloaded, sent>>
        /\ cpc # "finish" /\ cpc' # "finish"
    BY <1>0, <1>3, <1>t, ExpiredRunner DEF CompOrphan, Unload, CompAt, CompFrame, InMap
  <2> QED BY <1>t, <2>1, CountKept DEF Leaving
<1>4. CASE CompUnload
  <2>1. /\ UNCHANGED <<granted, watching, finishedReqCh, dead, refCount, sent>>
        /\ cpc # "finish" /\ cpc' # "finish" /\ unloaded' = unloaded \cup {crun}
        /\ crun \in Requests /\ refCount[crun] = 0
    BY <1>0, <1>4, <1>t, ExpiredRunner DEF CompUnload, Unload, CompAt, CompFrame
  <2>2. \A r : Holders(r)' = Holders(r)
    BY <2>1 DEF Holders
  <2>3. HeldOnce' /\ RefCountExact'
    BY <2>1, <2>2 DEF CountInv, HeldOnce, RefCountExact, Held
  <2>4. dead = {} => Holders(crun) = {}
    <3>1. dead = {} => Cardinality(Holders(crun)) + 0 = 0
      BY <2>1 DEF CountInv, RefCountExact
    <3> QED BY <3>1, HoldersFinite, FS_EmptySet
  <2>5. HeldLive'
    BY <1>t, <2>1, <2>4, LifeTypes DEF CountInv, HeldLive, Held, Holders, AnswerTypeOK,
                                       ChannelTypeOK, Range
  <2> QED BY <2>3, <2>5 DEF CountInv
<1> QED BY <1>1, <1>2, <1>3, <1>4 DEF CompletedStep, FinishedStep

\* A step that hands no runner out and counts nobody.
LEMMA CountElsewhere ==
    ASSUME CountInv, LifeInv', UNCHANGED <<granted, watching, finishedReqCh, dead, refCount>>,
           UNCHANGED <<unloaded, compVars>>,
           UNCHANGED sent \/ \E q \in Requests : AnswerError(q)
    PROVE  CountInv'
<1>1. \A q \in Requests : sent'[q] >= sent[q]
  BY LifeTypes DEF CountInv, AnswerTypeOK, AnswerError
<1> QED BY <1>1, CountKept DEF Leaving

\* Every step keeps the invariant.
LEMMA NextCounts ==
    ASSUME MLXKeys = {}, Deletable = {}, CountInv, [Next]_vars
    PROVE  CountInv'
<1>a. LifeInv' /\ LifeInv
  BY NextLife DEF CountInv
<1>b. ClientRefs /\ PendRefs /\ PendTypeOK /\ OneOwner /\ Runners \subseteq Requests
  BY <1>a, LifeTypes DEF LifeInv, AnswerInv
<1>1. CASE UNCHANGED vars
  BY <1>a, <1>1, CountElsewhere DEF vars
<1>2. ASSUME NEW q \in Requests, HandlerStep(q) \/ ClientStep(q) \/ WatcherStep(q)
      PROVE  CountInv'
  <2>0. HandlerFrame
    BY <1>2 DEF HandlerStep, ClientStep, WatcherStep
  <2>1. CASE UseFound(q)
    <3>1. found[q] \in Requests /\ sent[q] = 0
      BY <1>b, <2>1 DEF UseFound, ClientRefs, OneOwner, HandlerOwns
    <3> QED BY <1>a, <2>0, <2>1, <3>1, CountIn DEF UseFound, UseLoadedRunner, HandlerFrame
  <2>2. CASE WatchDone(q)
    BY <1>a, <2>0, <2>2, CountReported
  <2>3. CASE Arrive(q) \/ CheckReload(q) \/ Enqueue(q) \/ Receive(q) \/ Finish(q) \/ Disconnect(q)
    BY <1>a, <2>0, <2>3, CountElsewhere DEF Arrive, CheckReload, Enqueue, Receive, Finish,
       Disconnect, HandlerLocal, HandlerFrame, AnswerError
  <2> QED BY <1>2, <2>1, <2>2, <2>3 DEF HandlerStep, ClientStep, WatcherStep
<1>3. ASSUME NEW r \in Requests,
             LoaderStep(r) \/ TimerStep(r) \/ CallbackStep(r) \/ ResendStep(r)
      PROVE  CountInv'
  <2>0. RunnerFrame
    BY <1>3 DEF LoaderStep, TimerStep, CallbackStep, ResendStep
  <2>1. CASE LoaderOK(r)
    <3>1. sent[r] = 0
      BY <1>b, <2>1 DEF LoaderOK, OneOwner, LoaderOwns
    <3> QED BY <1>a, <2>0, <2>1, <3>1, CountIn DEF LoaderOK, RunnerFrame
  <2>2. CASE \/ LoaderFail(r) \/ LoaderExpire(r) \/ TimerFire(r) \/ TimerSend(r)
             \/ TimerSendHeld(r) \/ Resend(r)
    BY <1>a, <2>0, <2>2, CountElsewhere DEF LoaderFail, LoaderExpire, TimerFire, TimerSend,
       TimerSendHeld, Resend, SendHeld, RunnerFrame, AnswerError
  <2> QED BY <1>3, <2>1, <2>2 DEF LoaderStep, TimerStep, CallbackStep, ResendStep
<1>4. CASE PendingStep
  <2>0. PendFrame /\ ppc \notin {"mlx", "mlxInsert", "mlxTimer"}
    BY <1>4, <1>b DEF PendingStep, PendRefs
  <2>1. CASE PendUse
    <3>1. prun \in Requests /\ preq \in Requests /\ PendingOwns(preq)
      BY <1>b, <2>1 DEF PendUse, PendTypeOK, PendHasRequest, PendHasRunner, PendPlaces, PendingOwns
    <3>2. sent[preq] = 0
      BY <1>b, <3>1 DEF OneOwner
    <3> QED BY <1>a, <2>0, <2>1, <3>1, <3>2, CountIn DEF PendUse, UseLoadedRunner, PendFrame
  <2>2. CASE PendOpen \/ PendStart \/ PendLoadFailed
    <3>1. preq \in Requests
      BY <1>b, <2>2 DEF PendOpen, PendStart, PendLoadFailed, PendTypeOK, PendHasRequest, PendPlaces
    <3> QED BY <1>a, <2>0, <2>2, <3>1, CountElsewhere DEF PendOpen, PendStart, PendLoadFailed,
               PendFrame, AnswerError
  <2>3. CASE \/ PendReceive \/ PendDrain \/ PendDecide \/ PendCheck \/ PendFree \/ PendLoaded
             \/ PendLoadFull \/ PendFind \/ PendScan \/ PendExpire \/ PendWaitUnload \/ PendExit
    BY <1>a, <2>0, <2>3, CountElsewhere DEF PendReceive, PendDrain, PendDecide, PendCheck,
       PendFree, PendLoaded, PendLoadFull, PendFind, PendScan, PendExpire, ExpireRunner, SendHeld,
       PendWaitUnload, PendExit, PendLocal, PendFrame
  <2> QED BY <1>4, <2>0, <2>1, <2>2, <2>3 DEF PendingStep, PendMLX, PendMLXInsert, PendMLXTimer
<1>5. CASE CompletedStep
  BY <1>a, <1>5, CompletedCounts
<1>6. CASE StopStep \/ ServerStep
  BY <1>a, <1>6, CountElsewhere DEF StopStep, ServerStep, ServerFrame, StopExpire, ExpireRunner,
     SendHeld, StopLookup, DeleteModel, Shutdown, UnloadAllRunners
<1> QED
  BY <1>1, <1>2, <1>3, <1>4, <1>5, <1>6 DEF Next

\* InitScheduler: nobody holds a runner.
LEMMA InitCounts == Init => CountInv
<1> SUFFICES ASSUME Init PROVE CountInv
  OBVIOUS
<1>1. Range(finishedReqCh) = {} /\ IsInjective(finishedReqCh) /\ Held = {}
  BY DEF Init, Range, IsInjective, Held
<1>2. \A r : Holders(r) = {}
  BY <1>1 DEF Holders, Held
<1>3. RefCountExact
  <2>1. \A r \in Requests : refCount[r] = 0 /\ Cardinality(Holders(r)) = 0
    BY <1>2, FS_EmptySet DEF Init
  <2>2. cpc = "idle"
    BY DEF Init
  <2> QED BY <2>1, <2>2 DEF RefCountExact
<1> QED BY <1>1, <1>3, InitLife DEF Init, CountInv, HeldOnce, HeldLive

\* refCount of every runner is the number of requests that hold it, through the
\* fast path, the loaders, the watchers and the lookup by key, and it never
\* wraps, as long as no request was granted an unloaded runner.
THEOREM CountsAreExact ==
    ASSUME MLXKeys = {}, Deletable = {}
    PROVE  Spec => []RefCountExact
<1>1. CountInv => RefCountExact
  BY DEF CountInv
<1>2. CountInv /\ [Next]_vars => CountInv'
  BY NextCounts
<1> QED BY <1>1, <1>2, InitCounts, PTL DEF Spec

\* A runner that a request holds is not unloaded, as long as no request was
\* granted an unloaded runner: the count does prevent it (sched.go 697).
THEOREM HeldIsKept ==
    ASSUME MLXKeys = {}, Deletable = {}
    PROVE  Spec => []InUseNotUnloaded
<1>1. CountInv => InUseNotUnloaded
  BY DEF CountInv, HeldLive, Held, InUseNotUnloaded
<1>2. CountInv /\ [Next]_vars => CountInv'
  BY NextCounts
<1> QED BY <1>1, <1>2, InitCounts, PTL DEF Spec

-----------------------------------------------------------------------------
(* The wakeup of the pending loop.  It waits for any unload; that one will *)
(* come is seen from the runner it expired, which stays the runner in the  *)
(* map until the unload, and always has somebody who will expire it again. *)

\* An unload was announced or is about to be.
Told == unloadedCh > 0 \/ cpc \in {"recover", "notify"}

\* Something will send runner r on expiredCh, or has.
Expected(r) ==
    \/ refCount[r] > 0
    \/ timer[r] \in {"armed", "mlxArmed"}
    \/ firing[r] > 0
    \/ resend[r] > 0
    \/ refMu[r] # "free"
    \/ crun = r
    \/ r \in Range(expiredCh)

\* Places at which processPending has runners it may expire.
AtVictim == {"check", "scan", "expire", "send", "wait"}

\* If one of them was unloaded meanwhile, that is an unload to be announced.
VictimsTold ==
    ppc \in AtVictim /\ ({prun} \cup Range(plist)) \cap unloaded # {} => Told

\* The runner that was expired has a finite keep-alive.
VictimFinite == ppc \in {"send", "wait"} => session[prun] < Forever

\* processCompleted has a runner only where it works on one.
CompIdle == cpc \in {"idle", "notify", "exit"} => crun = None

Waiting == ppc = "wait" /\ dead = {} => Told \/ Expected(prun)

\* The inductive invariant.
WakeInv == CountInv /\ CompIdle /\ VictimsTold /\ VictimFinite /\ Waiting

\* The runner that processPending waits for.
LEMMA Victim ==
    ASSUME WakeInv, ppc = "wait"
    PROVE  /\ prun \in Requests /\ prun \in Runners
           /\ ~Told => prun \notin unloaded /\ InMap(prun)
<1>1. prun \in Runners
  BY DEF WakeInv, CountInv, LifeInv, PendRefs, AtRunner
<1>2. ~Told => prun \notin unloaded
  BY DEF WakeInv, VictimsTold, AtVictim
<1> QED BY <1>1, <1>2 DEF WakeInv, CountInv, LifeInv, MapRunners, Runners

\* A step of another goroutine that unloads nothing without announcing it, and
\* leaves an expiration on its way or adds one.
LEMMA WakeKept ==
    ASSUME WakeInv, CountInv', CompIdle', UNCHANGED <<ppc, prun, plist>>,
           dead \subseteq dead', Told => Told', unloaded' = unloaded \/ Told',
           ppc \in {"send", "wait"} => session'[prun] < Forever,
           ppc = "wait" /\ dead = {} /\ dead' = {} /\ ~Told /\ Expected(prun) =>
               Told' \/ Expected(prun)'
    PROVE  WakeInv'
<1>1. VictimsTold'
  BY DEF WakeInv, VictimsTold
<1>2. VictimFinite'
  BY DEF VictimFinite
<1>3. dead' = {} => dead = {}
  OBVIOUS
<1>4. Waiting'
  BY <1>3 DEF WakeInv, Waiting
<1> QED BY <1>1, <1>2, <1>4 DEF WakeInv

\* useLoadedRunner takes a keep-alive that is finite and counts the request in.
LEMMA UseWakes ==
    ASSUME \A d \in KeepAlives \ {None} : d < Forever,
           WakeInv, NEW q \in Requests, NEW x \in Requests, UseLoadedRunner(q, x),
           dead' = {} => refCount'[x] > 0, UNCHANGED <<firing, resend, crun, expiredCh>>
    PROVE  /\ ppc \in {"send", "wait"} => session'[prun] < Forever
           /\ \A r \in Requests : dead' = {} /\ Expected(r) => Expected(r)'
<1>t. ClientTypeOK /\ RunnerTypeOK /\ PendTypeOK
  BY LifeTypes DEF WakeInv, CountInv
<1>1. req[q].keep # None => req[q].keep < Forever
  BY <1>t DEF ClientTypeOK, RequestType
<1>2. ASSUME ppc \in {"send", "wait"} PROVE session'[prun] < Forever
  <2>1. prun \in Requests /\ session[prun] < Forever
    BY <1>2, <1>t DEF WakeInv, VictimFinite, PendTypeOK, PendHasRunner
  <2> QED BY <1>1, <1>t, <2>1 DEF UseLoadedRunner, RunnerTypeOK
<1>3. ASSUME NEW r \in Requests, dead' = {}, Expected(r) PROVE Expected(r)'
  <2>1. CASE r = x
    BY <1>3, <2>1 DEF Expected
  <2>2. CASE r # x
    BY <1>3, <1>t, <2>2 DEF Expected, UseLoadedRunner, RunnerTypeOK
  <2> QED BY <2>1, <2>2
<1> QED BY <1>2, <1>3

\* Sending a runner on expiredCh, at once or with the lock held, is expecting it.
LEMMA SendWakes ==
    ASSUME WakeInv, NEW x \in Requests, NEW g \in Holding, SendExpired(x, g) \/ SendHeld(x, g)
    PROVE  /\ Range(expiredCh) \subseteq Range(expiredCh')
           /\ x \in Range(expiredCh') \/ refMu'[x] # "free"
           /\ \A r \in Requests : r # x => refMu'[r] = refMu[r]
<1>1. expiredCh \in Seq(Requests) /\ refMu \in [Requests -> Holding \cup {"free"}]
  BY LifeTypes DEF WakeInv, CountInv, ChannelTypeOK, RunnerTypeOK, Holding
<1>2. Range(Append(expiredCh, x)) = Range(expiredCh) \cup {x}
  BY <1>1, SendRange
<1>3. g # "free"
  BY DEF Holding
<1>4. CASE expiredCh' = Append(expiredCh, x) /\ (UNCHANGED refMu \/ SendHeld(x, g))
  BY <1>1, <1>2, <1>4 DEF SendHeld
<1>5. CASE refMu' = [refMu EXCEPT ![x] = g] /\ UNCHANGED expiredCh
  BY <1>1, <1>3, <1>5
<1> QED BY <1>4, <1>5 DEF SendExpired, SendHeld

\* So is expiring it: it is in use or sent.
LEMMA ExpireWakes ==
    ASSUME WakeInv, NEW x \in Requests, NEW g \in Holding, ExpireRunner(x, g) \/ SendHeld(x, g),
           UNCHANGED <<firing, resend, crun>>
    PROVE  /\ Expected(x)' /\ \A r \in Requests : Expected(r) => Expected(r)'
           /\ ppc \in {"send", "wait"} => session'[prun] < Forever
<1>t. RunnerTypeOK /\ PendTypeOK
  BY LifeTypes DEF WakeInv, CountInv
<1>1. /\ Range(expiredCh) \subseteq Range(expiredCh')
      /\ refCount[x] > 0 \/ x \in Range(expiredCh') \/ refMu'[x] # "free"
      /\ \A r \in Requests : r # x => refMu'[r] = refMu[r]
    BY SendWakes DEF ExpireRunner
<1>2. UNCHANGED refCount /\ \A r \in Requests : r # x => timer'[r] = timer[r]
  BY <1>t DEF ExpireRunner, SendHeld, RunnerTypeOK
<1>3. Expected(x)' /\ \A r \in Requests : Expected(r) => Expected(r)'
  BY <1>1, <1>2 DEF Expected
<1>4. ASSUME ppc \in {"send", "wait"} PROVE session'[prun] < Forever
  <2>1. prun \in Requests /\ session[prun] < Forever
    BY <1>4, <1>t DEF WakeInv, VictimFinite, PendTypeOK, PendHasRunner
  <2>2. session' = session \/ session' = [session EXCEPT ![x] = 0]
    BY DEF ExpireRunner, SendHeld
  <2> QED BY <1>t, <2>1, <2>2, DurationAssumption DEF RunnerTypeOK
<1> QED BY <1>3, <1>4

\* The hypothesis of the theorem: clients ask for finite keep-alives.
FiniteKeepAlives == \A d \in KeepAlives \ {None} : d < Forever

\* A step of a handler or of a context watcher.
LEMMA HandlerWakes ==
    ASSUME FiniteKeepAlives, WakeInv, CountInv', NEW q \in Requests, HandlerFrame,
           \/ Arrive(q) \/ CheckReload(q) \/ UseFound(q) \/ Enqueue(q)
           \/ Receive(q) \/ Finish(q) \/ Disconnect(q) \/ WatchDone(q)
    PROVE  WakeInv'
<1>t. LifeInv /\ CountInv /\ LifeInv'
  BY DEF WakeInv, CountInv
<1>0. /\ UNCHANGED <<ppc, prun, plist, unloadedCh, cpc, crun, firing, resend, expiredCh>>
      /\ CompIdle' /\ (Told => Told')
  BY DEF HandlerFrame, WakeInv, CompIdle, Told
<1>1. CASE UseFound(q)
  <2>1. found[q] \in Requests /\ sent[q] = 0
    BY <1>1, <1>t DEF UseFound, LifeInv, ClientRefs, AnswerInv, OneOwner, HandlerOwns, Runners
  <2>2. dead' = {} => refCount'[found[q]] > 0
    BY <1>1, <1>t, <2>1, CountIn DEF UseFound, UseLoadedRunner, HandlerFrame
  <2>3. /\ ppc \in {"send", "wait"} => session'[prun] < Forever
        /\ \A r \in Requests : dead' = {} /\ Expected(r) => Expected(r)'
    BY <1>0, <1>1, <2>1, <2>2, UseWakes DEF UseFound, FiniteKeepAlives
  <2>4. UNCHANGED unloaded /\ dead \subseteq dead'
    BY <1>1 DEF UseFound, UseLoadedRunner, AnswerRunner
  <2>5. ppc = "wait" => prun \in Requests
    BY Victim
  <2> QED BY <1>0, <2>3, <2>4, <2>5, WakeKept DEF Expected
<1>2. CASE ~UseFound(q)
  <2>1. UNCHANGED <<unloaded, dead, session, refCount, timer, refMu>>
    BY <1>2 DEF Arrive, CheckReload, Enqueue, Receive, Finish, Disconnect, WatchDone,
                HandlerLocal, AnswerError
  <2>2. ppc \in {"send", "wait"} => session'[prun] < Forever
    BY <2>1 DEF WakeInv, VictimFinite
  <2> QED BY <1>0, <2>1, <2>2, WakeKept DEF Expected
<1> QED BY <1>1, <1>2

\* A step of a loader or of a timer.
LEMMA RunnerWakes ==
    ASSUME WakeInv, CountInv', NEW x \in Requests, RunnerFrame,
           \/ LoaderOK(x) \/ LoaderFail(x) \/ LoaderExpire(x) \/ TimerFire(x)
           \/ TimerSend(x) \/ TimerSendHeld(x) \/ Resend(x)
    PROVE  WakeInv'
<1>t. /\ LifeInv /\ CountInv /\ LifeInv' /\ RunnerTypeOK /\ TaskTypeOK
      /\ expiredCh \in Seq(Requests) /\ AnswerInv
  BY LifeTypes DEF WakeInv, CountInv, ChannelTypeOK, LifeInv
<1>0. /\ UNCHANGED <<ppc, prun, plist, unloadedCh, cpc, crun>>
      /\ CompIdle' /\ (Told => Told')
  BY DEF RunnerFrame, WakeInv, CompIdle, Told
<1>1. /\ UNCHANGED <<unloaded, session>> /\ dead \subseteq dead'
      /\ ppc \in {"send", "wait"} => session'[prun] < Forever
  <2>1. UNCHANGED <<unloaded, session>> /\ dead \subseteq dead'
    BY DEF LoaderOK, AnswerRunner, LoaderFail, AnswerError, LoaderExpire, TimerFire, TimerSend,
           TimerSendHeld, Resend, SendHeld
  <2> QED BY <1>0, <2>1 DEF WakeInv, VictimFinite
<1>2. \A r \in Requests : r # x => /\ timer'[r] = timer[r] /\ firing'[r] = firing[r]
                                   /\ resend'[r] = resend[r] /\ refCount'[r] = refCount[r]
  <2>1. \A r \in Requests : r # x => timer'[r] = timer[r] /\ refCount'[r] = refCount[r]
    BY <1>t DEF LoaderOK, LoaderFail, LoaderExpire, TimerFire, TimerSend, TimerSendHeld, Resend,
                SendHeld, RunnerTypeOK
  <2>2. \A r \in Requests : r # x => firing'[r] = firing[r] /\ resend'[r] = resend[r]
    BY <1>t DEF LoaderOK, LoaderFail, LoaderExpire, TimerFire, TimerSend, TimerSendHeld, Resend,
                TaskTypeOK
  <2> QED BY <2>1, <2>2
<1>3. ASSUME dead' = {}, NEW r \in Requests, Expected(r) PROVE Expected(r)'
  <2>1. CASE LoaderOK(x)
    <3>1. sent[x] = 0
      BY <1>t, <2>1 DEF LoaderOK, AnswerInv, OneOwner, LoaderOwns
    <3>2. refCount'[x] > 0
      BY <1>3, <1>t, <2>1, <3>1, CountIn DEF LoaderOK, RunnerFrame
    <3>3. \A y \in Requests : y # x => refMu'[y] = refMu[y]
      BY <1>t, <2>1 DEF LoaderOK, RunnerTypeOK
    <3> QED BY <1>0, <1>2, <1>3, <2>1, <3>2, <3>3 DEF Expected, LoaderOK
  <2>2. CASE LoaderFail(x)
    BY <1>0, <1>3, <2>2 DEF Expected, LoaderFail
  <2>3. CASE LoaderExpire(x) \/ TimerSend(x) \/ TimerSendHeld(x)
    <3>1. PICK g \in Holding : SendExpired(x, g) \/ SendHeld(x, g)
      BY <2>3 DEF LoaderExpire, TimerSend, TimerSendHeld, Holding
    <3>2. /\ Range(expiredCh) \subseteq Range(expiredCh')
          /\ x \in Range(expiredCh') \/ refMu'[x] # "free"
          /\ \A y \in Requests : y # x => refMu'[y] = refMu[y]
      BY <3>1, SendWakes
    <3> QED BY <1>0, <1>2, <1>3, <3>2 DEF Expected
  <2>4. CASE TimerFire(x)
    <3>1. firing'[x] > 0 \/ resend'[x] > 0
      BY <1>t, <2>4 DEF TimerFire, TaskTypeOK
    <3> QED BY <1>0, <1>2, <1>3, <2>4, <3>1 DEF Expected, TimerFire
  <2>5. CASE Resend(x)
    <3>1. Range(expiredCh') = Range(expiredCh) \cup {x}
      BY <1>t, <2>5, SendRange DEF Resend
    <3> QED BY <1>0, <1>2, <1>3, <2>5, <3>1 DEF Expected, Resend
  <2> QED BY <2>1, <2>2, <2>3, <2>4, <2>5
<1>4. ppc = "wait" => prun \in Requests
  BY Victim
<1> QED BY <1>0, <1>1, <1>3, <1>4, WakeKept DEF Expected

\* A step of the rest of the server.
LEMMA ServerWakes ==
    ASSUME WakeInv, CountInv', StopStep \/ ServerStep
    PROVE  WakeInv'
<1>0. ServerFrame
  BY DEF StopStep, ServerStep
<1>a. /\ UNCHANGED <<ppc, prun, plist, unloadedCh, cpc, crun, firing, resend, dead>>
      /\ CompIdle' /\ (Told => Told')
  BY <1>0 DEF ServerFrame, WakeInv, CompIdle, Told
<1>b. ppc = "wait" => prun \in Requests
  BY Victim
<1>1. CASE StopStep
  <2>1. /\ srun \in Requests /\ (ExpireRunner(srun, "stop") \/ SendHeld(srun, "stop"))
    BY <1>1, LifeTypes DEF StopStep, StopExpire, ServerTypeOK, WakeInv, CountInv
  <2>2. /\ \A r \in Requests : Expected(r) => Expected(r)'
        /\ ppc \in {"send", "wait"} => session'[prun] < Forever
    <3>1. "stop" \in Holding
      BY DEF Holding
    <3> QED BY <1>a, <2>1, <3>1, ExpireWakes
  <2>3. UNCHANGED unloaded
    BY <2>1 DEF ExpireRunner, SendHeld
  <2> QED BY <1>a, <1>b, <2>2, <2>3, WakeKept DEF Expected
<1>2. CASE ServerStep
  <2>1. UNCHANGED <<unloaded, session, refCount, timer, refMu, expiredCh>>
    BY <1>2 DEF ServerStep, StopLookup, DeleteModel, Shutdown, UnloadAllRunners
  <2>2. ppc \in {"send", "wait"} => session'[prun] < Forever
    BY <2>1 DEF WakeInv, VictimFinite
  <2> QED BY <1>a, <2>1, <2>2, WakeKept DEF Expected
<1> QED BY <1>1, <1>2

\* A step of processCompleted: an expiration it has received ends in the unload
\* or is sent again.
LEMMA CompletedWakes ==
    ASSUME MLXKeys = {}, WakeInv, CountInv', CompletedStep
    PROVE  WakeInv'
<1>t. /\ LifeInv /\ RunnerTypeOK /\ TaskTypeOK /\ CompTypeOK /\ expiredCh \in Seq(Requests)
      /\ unloadedCh \in 0..MaxQueue
  BY LifeTypes DEF WakeInv, CountInv, ChannelTypeOK
<1>0. CompFrame
  BY DEF CompletedStep, FinishedStep
<1>a. UNCHANGED <<ppc, prun, plist, firing, dead, session>>
  BY <1>0 DEF CompFrame
<1>b. ppc \in {"send", "wait"} => session'[prun] < Forever
  BY <1>a DEF WakeInv, VictimFinite
<1>c. cpc = "idle" => crun = None
  BY DEF WakeInv, CompIdle
<1>d. ppc = "wait" => prun \in Requests /\ (~Told => prun \notin unloaded /\ InMap(prun))
  BY Victim
\* An unload is under way or announced.
<1>e. ASSUME Told', CompIdle' PROVE WakeInv'
  BY <1>a, <1>b, <1>e, WakeKept
\* Nothing is unloaded.
<1>f. ASSUME CompIdle', Told => Told', UNCHANGED unloaded,
             ppc = "wait" /\ dead = {} /\ ~Told /\ Expected(prun) => Expected(prun)'
      PROVE  WakeInv'
  BY <1>a, <1>b, <1>f, WakeKept
<1>1. CASE CompReceiveFinished
  <2>1. CompIdle'
    BY <1>1 DEF CompReceiveFinished, CompAt, CompIdle
  <2>2. Told => Told'
    BY <1>1 DEF CompReceiveFinished, Told
  <2>3. ppc = "wait" => prun # None
    BY <1>d, RequestsAssumption
  <2> QED BY <1>1, <1>a, <1>c, <1>f, <2>1, <2>2, <2>3 DEF CompReceiveFinished, Expected
<1>2. CASE CompFinish
  <2>1. CompIdle'
    BY <1>2 DEF CompFinish, CompAt, CompIdle
  <2>2. (Told => Told') /\ UNCHANGED <<unloaded, resend>>
    BY <1>2 DEF CompFinish, Told
  <2>3. ASSUME ppc = "wait", Expected(prun) PROVE Expected(prun)'
    <3>1. crun \in Requests /\ prun \in Requests /\ session[prun] < Forever
      BY <1>2, <1>d, <1>t, <2>3 DEF CompFinish, CompTypeOK, WakeInv, VictimFinite
    <3>2. CASE SendExpired(crun, "completed") /\ timer' = [timer EXCEPT ![crun] = "nil"]
      <4>1. "completed" \in Holding
        BY DEF Holding
      <4>2. /\ Range(expiredCh) \subseteq Range(expiredCh')
            /\ crun \in Range(expiredCh') \/ refMu'[crun] # "free"
            /\ \A r \in Requests : r # crun => refMu'[r] = refMu[r]
        BY <3>1, <3>2, <4>1, SendWakes
      <4>3. CASE prun = crun
        BY <1>a, <4>2, <4>3 DEF Expected
      <4>4. CASE prun # crun
        <5>1. timer'[prun] = timer[prun] /\ refCount'[prun] = refCount[prun]
          BY <1>2, <1>t, <3>1, <3>2, <4>4 DEF CompFinish, RunnerTypeOK
        <5> QED BY <1>a, <2>2, <2>3, <3>1, <4>2, <4>4, <5>1 DEF Expected
      <4> QED BY <4>3, <4>4
    <3>3. CASE UNCHANGED <<expiredCh, refMu>> /\ prun # crun
      <4>1. timer'[prun] = timer[prun] /\ refCount'[prun] = refCount[prun]
        BY <1>2, <1>t, <3>1, <3>3 DEF CompFinish, RunnerTypeOK
      <4> QED BY <1>a, <2>2, <2>3, <3>3, <4>1 DEF Expected
    <3>4. CASE UNCHANGED <<expiredCh, refMu>> /\ prun = crun /\ refCount'[crun] > 0
      BY <1>a, <3>4 DEF Expected
    <3>5. CASE /\ UNCHANGED <<expiredCh, refMu>> /\ prun = crun
               /\ timer' = [timer EXCEPT ![crun] = IF @ \in {"mlxArmed", "mlxSpent"}
                                                   THEN MLXTimer(session[crun])
                                                   ELSE Timer(session[crun])]
      <4>1. timer'[prun] \in {"armed", "mlxArmed"}
        BY <1>t, <3>1, <3>5 DEF RunnerTypeOK, Timer, MLXTimer
      <4> QED BY <1>a, <4>1 DEF Expected
    <3> QED BY <1>2, <3>2, <3>3, <3>4, <3>5 DEF CompFinish
  <2> QED BY <1>f, <2>1, <2>2, <2>3
<1>3. CASE CompReceiveExpired
  <2>1. CompIdle' /\ (Told => Told')
    BY <1>3 DEF CompReceiveExpired, CompAt, CompIdle, Told
  <2>2. \A r \in Range(expiredCh) : r \in Range(expiredCh') \/ crun' = r
    BY <1>3, <1>t, ReceiveSplit DEF CompReceiveExpired, CompAt
  <2>3. ppc = "wait" => prun # None
    BY <1>d, RequestsAssumption
  <2> QED BY <1>3, <1>a, <1>c, <1>f, <2>1, <2>2, <2>3 DEF CompReceiveExpired, Expected
<1>4. CASE CompBusy
  <2>1. CompIdle' /\ (Told => Told') /\ crun \in Requests
    BY <1>4, <1>t DEF CompBusy, CompAt, CompIdle, Told, CompTypeOK
  <2>2. resend'[crun] > 0 /\ \A r \in Requests : r # crun => resend'[r] = resend[r]
    BY <1>4, <1>t, <2>1 DEF CompBusy, TaskTypeOK
  <2> QED BY <1>4, <1>a, <1>d, <1>f, <2>1, <2>2 DEF CompBusy, Expected
<1>5. CASE CompDuplicate
  <2>1. CompIdle' /\ (Told => Told') /\ crun # None
    BY <1>5, <1>t, RequestsAssumption DEF CompDuplicate, CompAt, CompIdle, Told, CompTypeOK
  <2>2. ppc = "wait" /\ ~Told => prun # crun
    BY <1>5, <1>d, <2>1 DEF CompDuplicate, InMap
  <2> QED BY <1>5, <1>a, <1>f, <2>1, <2>2 DEF CompDuplicate, Expected
<1>6. CASE CompOrphan
  <2>1. /\ CompIdle' /\ (Told => Told') /\ crun \in Requests /\ unloaded' = unloaded
        /\ ~InMap(crun)
    BY <1>6, <1>t, ExpiredRunner DEF CompOrphan, CompAt, CompIdle, Told, Unload
  <2>2. ppc = "wait" /\ ~Told => prun # crun
    BY <1>d, <2>1
  <2>3. \A r \in Requests : r # crun => timer'[r] = timer[r]
    BY <1>6, <1>t DEF CompOrphan, Unload, RunnerTypeOK
  <2> QED BY <1>6, <1>a, <1>d, <1>f, <2>1, <2>2, <2>3 DEF CompOrphan, Expected
<1>7. CASE CompUnload \/ CompRecovered \/ CompNotify
  <2>1. Told' /\ CompIdle'
    BY <1>7, <1>t DEF CompUnload, CompRecovered, CompNotify, CompAt, Told, CompIdle
  <2> QED BY <1>e, <2>1
<1>8. CASE CompExit
  <2>1. CompIdle' /\ (Told => Told') /\ crun' = crun
    BY <1>8, <1>c DEF CompExit, CompAt, CompIdle, Told
  <2> QED BY <1>8, <1>a, <1>f, <2>1 DEF CompExit, Expected
<1> QED
  BY <1>1, <1>2, <1>3, <1>4, <1>5, <1>6, <1>7, <1>8 DEF CompletedStep, FinishedStep

\* A step of processPending: what it may expire is in the map when it is chosen,
\* and what it has expired is in use or on its way to processCompleted.
LEMMA PendingWakes ==
    ASSUME WakeInv, CountInv', PendingStep
    PROVE  WakeInv'
<1>t. /\ LifeInv /\ PendTypeOK /\ MapTypeOK /\ ClientTypeOK /\ RunnerTypeOK
      /\ MapRunners /\ PendRefs /\ LoadedRunners \in SUBSET Requests
  BY LifeTypes, LoadedTypes DEF WakeInv, CountInv, LifeInv
<1>0. UNCHANGED <<req, cpc, crun, firing, resend>> /\ ppc \notin {"mlx", "mlxInsert", "mlxTimer"}
  BY <1>t DEF PendingStep, PendFrame, PendRefs
<1>a. CompIdle' /\ Range(<<>>) = {}
  BY <1>0 DEF WakeInv, CompIdle, Range
<1>b. \A r \in LoadedRunners : r \notin unloaded
  BY <1>t DEF LoadedRunners, LoadedKeys, MapRunners
\* The loop goes where it has no victim.
<1>c. ASSUME ppc' \notin AtVictim PROVE WakeInv'
  BY <1>a, <1>c DEF WakeInv, VictimsTold, VictimFinite, Waiting, AtVictim
\* It goes on with victims it had or that are in the map.
<1>d. ASSUME ppc' \in AtVictim \ {"send", "wait"}, UNCHANGED <<unloaded, unloadedCh>>,
             \/ {prun'} \cup Range(plist') \subseteq LoadedRunners
             \/ ppc \in AtVictim /\ {prun'} \cup Range(plist') \subseteq {prun} \cup Range(plist)
      PROVE  WakeInv'
  <2>1. VictimsTold'
    BY <1>0, <1>b, <1>d DEF WakeInv, VictimsTold, Told
  <2> QED BY <1>a, <1>d, <2>1 DEF WakeInv, VictimFinite, Waiting
<1> USE DEF PendLocal, AtVictim
<1>1. CASE PendReceive \/ PendDrain \/ PendUse \/ PendOpen \/ PendFree \/ PendStart \/ PendLoaded
  BY <1>1, <1>c DEF PendReceive, PendDrain, PendUse, PendOpen, PendFree, PendStart, PendLoaded,
                    PendAt, PendDone
<1>2. CASE PendLoadFull \/ PendLoadFailed \/ PendWaitUnload \/ PendExit
  BY <1>2, <1>c DEF PendLoadFull, PendLoadFailed, PendWaitUnload, PendExit, PendAt, PendDone
<1>3. CASE PendDecide
  <2>1. CASE ppc' \notin AtVictim
    BY <1>c, <2>1
  <2>2. CASE loaded[Key(preq)] # None /\ PendAt("check", loaded[Key(preq)])
    <3>1. Key(preq) \in Keys
      BY <1>3, <1>t, RequestTypes DEF PendDecide, PendTypeOK, PendHasRequest, PendPlaces
    <3>2. loaded[Key(preq)] \in LoadedRunners
      BY <2>2, <3>1 DEF LoadedRunners, LoadedKeys
    <3>3. /\ ppc' = "check" /\ prun' = loaded[Key(preq)] /\ plist' = <<>>
          /\ UNCHANGED <<unloaded, unloadedCh>>
      BY <1>3, <2>2 DEF PendDecide, PendAt
    <3> QED BY <1>a, <1>d, <3>2, <3>3
  <2> QED BY <1>3, <2>1, <2>2 DEF PendDecide, PendAt
<1>4. CASE PendCheck
  <2>1. CASE ppc' \notin AtVictim
    BY <1>c, <2>1
  <2>2. CASE ppc' = "expire"
    <3>1. ppc = "check" /\ prun' = prun /\ plist' = <<>> /\ UNCHANGED <<unloaded, unloadedCh>>
      BY <1>4 DEF PendCheck, PendAt
    <3> QED BY <1>a, <1>d, <2>2, <3>1
  <2> QED BY <1>4, <2>1, <2>2 DEF PendCheck, PendAt
<1>5. CASE PendFind
  <2>1. CASE ppc' \notin AtVictim
    BY <1>c, <2>1
  <2>2. CASE /\ LoadedKeys # {} /\ plist' \in Listings(LoadedRunners)
             /\ prun' = Head(plist') /\ ppc' = "scan"
    <3>1. {prun'} \cup Range(plist') \subseteq LoadedRunners
      BY <1>t, <2>2, ListingRefs, LoadedTypes
    <3>2. UNCHANGED <<unloaded, unloadedCh>>
      BY <1>5 DEF PendFind
    <3> QED BY <1>d, <2>2, <3>1, <3>2
  <2> QED BY <1>5, <2>1, <2>2 DEF PendFind, PendAt
<1>6. CASE PendScan
  <2>1. ppc = "scan" /\ ppc' \in {"scan", "expire"} /\ UNCHANGED <<unloaded, unloadedCh>>
    BY <1>6 DEF PendScan, PendAt
  <2>2. {prun'} \cup Range(plist') \subseteq {prun} \cup Range(plist)
    <3>1. CASE plist = <<>>
      BY <1>6, <1>a, <3>1 DEF PendScan, PendAt
    <3>2. CASE plist # <<>>
      <4>1. Head(plist) \in Range(plist) /\ Range(Tail(plist)) \subseteq Range(plist)
        BY <1>t, <3>2, ReceiveRange DEF PendTypeOK
      <4> QED BY <1>6, <1>a, <3>2, <4>1 DEF PendScan, PendAt
    <3> QED BY <3>1, <3>2
  <2> QED BY <1>d, <2>1, <2>2
<1>7. CASE PendExpire
  <2>1. /\ prun \in Requests /\ (ExpireRunner(prun, "pending") \/ SendHeld(prun, "pending"))
        /\ ppc \in {"expire", "send"} /\ ppc' \in {"send", "wait"} /\ prun' = prun
        /\ plist' = <<>> /\ UNCHANGED unloadedCh
    BY <1>7, <1>t DEF PendExpire, PendAt, PendTypeOK, PendHasRunner
  <2>2. Expected(prun)'
    <3>1. "pending" \in Holding
      BY DEF Holding
    <3> QED BY <1>0, <2>1, <3>1, ExpireWakes
  <2>3. session'[prun] < Forever
    <3>1. CASE ppc = "expire"
      BY <1>7, <1>t, <2>1, <3>1, DurationAssumption DEF PendExpire, ExpireRunner, RunnerTypeOK
    <3>2. CASE ppc = "send"
      BY <1>7, <3>2 DEF PendExpire, SendHeld, WakeInv, VictimFinite
    <3> QED BY <2>1, <3>1, <3>2
  <2>4. VictimsTold'
    <3>1. UNCHANGED unloaded
      BY <2>1 DEF ExpireRunner, SendHeld
    <3> QED BY <1>0, <1>a, <2>1, <3>1 DEF WakeInv, VictimsTold, Told
  <2>5. Waiting' /\ VictimFinite'
    BY <2>1, <2>2, <2>3 DEF Waiting, VictimFinite, Expected
  <2> QED BY <1>a, <2>4, <2>5 DEF WakeInv
<1> QED BY <1>0, <1>1, <1>2, <1>3, <1>4, <1>5, <1>6, <1>7 DEF PendingStep, PendMLX, PendMLXInsert, PendMLXTimer

\* Every step keeps the invariant.
LEMMA NextWakes ==
    ASSUME MLXKeys = {}, Deletable = {}, FiniteKeepAlives, WakeInv, [Next]_vars
    PROVE  WakeInv'
<1>a. CountInv'
  BY NextCounts DEF WakeInv
<1>1. CASE UNCHANGED vars
  BY <1>1, <1>a, WakeKept DEF vars, WakeInv, CompIdle, Told, VictimFinite, Expected
<1>2. ASSUME NEW q \in Requests, HandlerStep(q) \/ ClientStep(q) \/ WatcherStep(q)
      PROVE  WakeInv'
  BY <1>a, <1>2, HandlerWakes DEF HandlerStep, ClientStep, WatcherStep
<1>3. ASSUME NEW q \in Requests,
             LoaderStep(q) \/ TimerStep(q) \/ CallbackStep(q) \/ ResendStep(q)
      PROVE  WakeInv'
  BY <1>a, <1>3, RunnerWakes DEF LoaderStep, TimerStep, CallbackStep, ResendStep
<1> QED
  BY <1>a, <1>1, <1>2, <1>3, PendingWakes, CompletedWakes, ServerWakes DEF Next

\* With finite keep-alives the pending loop never waits for an unload that
\* nobody will trigger, as long as no request was granted an unloaded runner.
THEOREM WakeupNotLost ==
    ASSUME MLXKeys = {}, Deletable = {}, FiniteKeepAlives
    PROVE  Spec => []NoLostWakeup
<1>1. WakeInv => NoLostWakeup
  BY Victim DEF WakeInv, Waiting, Expected, Told, NoLostWakeup
<1>2. WakeInv /\ [Next]_vars => WakeInv'
  BY NextWakes
<1>3. Init => WakeInv
  BY InitCounts DEF Init, WakeInv, CompIdle, VictimsTold, VictimFinite, Waiting, AtVictim
<1> QED BY <1>1, <1>2, <1>3, PTL DEF Spec
=============================================================================
