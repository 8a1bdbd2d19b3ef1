----------------------------- MODULE Scheduler -----------------------------
(***************************************************************************)
(* The model scheduler of the server (src/server/sched.go).                *)
(*                                                                         *)
(* HTTP handlers ask for a runner (GetRunner).  A request whose model is   *)
(* loaded is served on the fast path by the handler itself; any other      *)
(* request goes through pendingReqCh to processPending, the only goroutine *)
(* that loads models, which may first have to evict one.  The goroutine    *)
(* processCompleted counts requests out (finishedReqCh) and unloads        *)
(* runners (expiredCh).  Loaders, keep-alive timers, context watchers,     *)
(* re-queued expirations and stop requests run beside them.                *)
(*                                                                         *)
(* A step is one critical section of the code.  loadedMu is never held     *)
(* while waiting for another goroutine, so its sections are single steps.  *)
(* refMu of a runner is held across waits (load, VRAM recovery, a send on  *)
(* a full channel) and is a variable.  A runnerRef is named by the request *)
(* whose load created it, a process by the request whose load started it.  *)
(***************************************************************************)
EXTENDS Integers, Sequences, FiniteSets, Functions

CONSTANTS
    Requests,           \* requests that clients may make
    Leavers,            \* requests whose client may go away
    Keys,               \* schedulerModelKey values; integers, for their order
    MLXKeys,            \* the keys of safetensors and image models
    Opts,               \* runner options, represented by num_gpu
    KeepAlives,         \* keep_alive of a request: a duration, or None
    DefaultKeepAlive,   \* OLLAMA_KEEP_ALIVE
    Forever,            \* a duration no timer reaches
    MaxQueue,           \* OLLAMA_MAX_QUEUE, the capacity of all four channels
    ConfiguredMax,      \* OLLAMA_MAX_LOADED_MODELS, 0 when unset
    ModelsPerGPU,       \* defaultModelsPerGPU
    GPUs,               \* number of GPUs discovered
    RefMax,             \* largest value of the unsigned refCount
    PingFails,          \* whether a health check of a live runner can fail
    StartFails,         \* whether starting a runner process can fail
    LoadOutcomes,       \* what LlamaServer.Load can return
    WaitFails,          \* whether WaitUntilRunning can fail by itself
    Deletable,          \* keys whose model may be deleted while in use
    MaxStops,           \* bound on the number of unload requests
    CanShutDown,        \* whether the server may receive a signal
    None                \* no request, runner, process or keep_alive

ASSUME RequestsAssumption ==
    IsFiniteSet(Requests) /\ None \notin Requests /\ Leavers \subseteq Requests
ASSUME KeysAssumption ==
    Keys \subseteq Int /\ MLXKeys \subseteq Keys /\ Deletable \subseteq Keys
ASSUME OptsAssumption == Opts \subseteq Int
ASSUME DurationAssumption ==
    KeepAlives \subseteq (Nat \cup {None}) /\ DefaultKeepAlive \in Nat /\ Forever \in Nat \ {0}
ASSUME LimitAssumption ==
    /\ MaxQueue \in Nat \ {0} /\ ModelsPerGPU \in Nat \ {0}
    /\ ConfiguredMax \in Nat /\ GPUs \in Nat /\ MaxStops \in Nat
ASSUME RefAssumption == RefMax \in Nat /\ RefMax > Cardinality(Requests)
ASSUME OutcomeAssumption ==
    /\ {PingFails, StartFails, WaitFails, CanShutDown} \subseteq BOOLEAN
    /\ LoadOutcomes \subseteq {"ok", "full", "err"}

VARIABLES
    \* the clients and their HTTP handlers
    req,            \* what each request asks for: key, opts, keep
    hpc,            \* where the handler of each request is
    found,          \* the runner GetRunner found in the map
    ctxDone,        \* requests whose context is cancelled
    \* what a request gets on successCh and errCh
    sent,           \* number of values sent on the two channels
    granted,        \* the runner sent on successCh
    watching,       \* requests with a goroutine that waits for ctx.Done
    dead,           \* history: requests that were granted an unloaded runner
    \* the runners
    loaded,         \* the map from keys to runners
    activeLoading,  \* the process being fitted into memory
    llama, refCount, session, unloaded,
    timer,          \* expireTimer: nil, going to fire ("armed") or not ("spent")
    refMu,          \* who holds the mutex
    proc,           \* state of each process
    loader,         \* the goroutine that waits for the process to come up
    firing,         \* timer callbacks that have started and wait for refMu
    resend,         \* goroutines about to send on expiredCh without a lock
    \* the channels; unloadedCh is a number of events
    pendingReqCh, finishedReqCh, expiredCh, unloadedCh,
    \* processPending: its place, pending, runner or llama, requireFull, the
    \* runners it still has to lock, maxRunners
    ppc, preq, prun, pfull, plist, maxRunners,
    \* processCompleted: its place, runner
    cpc, crun,
    \* the rest of the server
    files,          \* keys whose model file exists
    spc, srun, stops,   \* expireRunner: its place, runner, number of calls
    down            \* shutdown: "up", "cancelled", "stopped"

clientVars == <<hpc, found, ctxDone>>
answerVars == <<sent, granted, watching, dead>>
mapVars    == <<loaded, activeLoading>>
runnerVars == <<llama, proc, refCount, session, timer, refMu, unloaded>>
taskVars   == <<loader, firing, resend>>
chanVars   == <<pendingReqCh, finishedReqCh, expiredCh, unloadedCh>>
pendVars   == <<ppc, preq, prun, pfull, plist, maxRunners>>
compVars   == <<cpc, crun>>
envVars    == <<files, spc, srun, stops, down>>

vars == <<req, clientVars, answerVars, mapVars, runnerVars, taskVars, chanVars,
          pendVars, compVars, envVars>>

RequestType == [key : Keys, opts : Opts, keep : KeepAlives]

-----------------------------------------------------------------------------
(* Helpers *)

Key(r) == req[r].key

\* The keep_alive in force for a runner that q loads.
Duration(q) == IF req[q].keep = None THEN DefaultKeepAlive ELSE req[q].keep

\* refCount is a uint: it wraps.
Inc(n) == IF n = RefMax THEN 0 ELSE n + 1
Dec(n) == IF n = 0 THEN RefMax ELSE n - 1

LoadedKeys    == {k \in Keys : loaded[k] # None}
LoadedRunners == {loaded[k] : k \in LoadedKeys}

\* A slice filled from a map: its elements in some order.
Listings(S) == Bijection(1..Cardinality(S), S)

\* Mutant: no runner records its pid.
PIDUnset(r) == None

\* runner.pid: load() records it, loadMLX leaves it zero.
PID(r) == IF Key(r) \in MLXKeys THEN None ELSE llama[r]

\* ByDurationAndName.Less
Less(a, b) ==
    \/ session[a] < session[b]
    \/ session[a] = session[b] /\ Key(a) < Key(b)

\* A timer set or reset to duration d, with the callback of processCompleted
\* or that of loadMLX.
Timer(d)    == IF d < Forever THEN "armed" ELSE "spent"
MLXTimer(d) == IF d < Forever THEN "mlxArmed" ELSE "mlxSpent"

\* needsReload: the answers it can give to request q about runner r.  noPing
\* says whether the context of the health check is already cancelled.
ReloadAnswers(r, q, noPing) ==
    IF \/ r \in unloaded
       \/ req[q].opts >= 0 /\ req[q].opts # req[r].opts
       \/ proc[llama[r]] # "running"
       \/ noPing
    THEN {TRUE} ELSE {FALSE, PingFails}

\* runnerRef.unload: close the process and drop the references.
Unload(r) ==
    /\ timer' = [timer EXCEPT ![r] = "nil"]
    /\ proc' = [proc EXCEPT ![llama[r]] = "closed"]
    /\ unloaded' = unloaded \cup {r}

AnswerError(q) ==
    /\ sent' = [sent EXCEPT ![q] = @ + 1]
    /\ UNCHANGED <<granted, watching, dead>>

\* Send runner r on successCh, and start the goroutine that reports the end of
\* the request's context.
AnswerRunner(q, r) ==
    /\ sent' = [sent EXCEPT ![q] = @ + 1]
    /\ granted' = [granted EXCEPT ![q] = r]
    /\ watching' = watching \cup {q}
    /\ dead' = IF r \in unloaded THEN dead \cup {q} ELSE dead

\* Mutant: the request is not counted in.
UseLoadedRunnerUncounted(q, r) ==
    /\ refMu[r] = "free"
    /\ timer' = [timer EXCEPT ![r] = "nil"]
    /\ session' = [session EXCEPT ![r] = IF req[q].keep = None THEN @ ELSE req[q].keep]
    /\ AnswerRunner(q, r)
    /\ UNCHANGED <<llama, proc, refCount, refMu, unloaded>>

\* useLoadedRunner: count the request in, stop the timer, take its keep_alive.
UseLoadedRunner(q, r) ==
    /\ refMu[r] = "free"
    /\ refCount' = [refCount EXCEPT ![r] = Inc(@)]
    /\ timer' = [timer EXCEPT ![r] = "nil"]
    /\ session' = [session EXCEPT ![r] = IF req[q].keep = None THEN @ ELSE req[q].keep]
    /\ AnswerRunner(q, r)
    /\ UNCHANGED <<llama, proc, refMu, unloaded>>

\* Send r on expiredCh with refMu held: goroutine g keeps the lock while the
\* channel is full.
SendExpired(r, g) ==
    \/ /\ Len(expiredCh) < MaxQueue
       /\ expiredCh' = Append(expiredCh, r)
       /\ UNCHANGED refMu
    \/ /\ Len(expiredCh) >= MaxQueue
       /\ refMu' = [refMu EXCEPT ![r] = g]
       /\ UNCHANGED expiredCh

\* A send that had to wait goes through, and the lock is released.
SendHeld(r, g) ==
    /\ refMu[r] = g
    /\ Len(expiredCh) < MaxQueue
    /\ expiredCh' = Append(expiredCh, r)
    /\ refMu' = [refMu EXCEPT ![r] = "free"]
    /\ UNCHANGED <<llama, proc, refCount, session, timer, unloaded>>

\* Expire r as soon as it is idle: the common part of an eviction by
\* processPending and of expireRunner.
ExpireRunner(r, g) ==
    /\ refMu[r] = "free"
    /\ timer' = [timer EXCEPT ![r] = "nil"]
    /\ session' = [session EXCEPT ![r] = 0]
    /\ \/ refCount[r] > 0 /\ UNCHANGED <<refMu, expiredCh>>
       \/ refCount[r] = 0 /\ SendExpired(r, g)
    /\ UNCHANGED <<llama, proc, refCount, unloaded>>

-----------------------------------------------------------------------------
(* Handlers: scheduleRunner and GetRunner *)

\* A panic of the pending loop ends the program, in this and in every frame.
HandlerFrame ==
    /\ ppc # "panic"
    /\ UNCHANGED <<req, mapVars, taskVars, expiredCh, unloadedCh, pendVars, compVars,
                   envVars>>

\* A step on the handler's own state alone.
HandlerLocal == UNCHANGED <<answerVars, runnerVars, pendingReqCh, finishedReqCh>>

HandlerAt(q, p, r) ==
    /\ hpc' = [hpc EXCEPT ![q] = p]
    /\ found' = [found EXCEPT ![q] = r]

\* The handler reads the map under loadedMu.  A model that is not on disk is
\* refused by GetModel before the scheduler is asked.
Arrive(q) ==
    /\ hpc[q] = "idle"
    /\ Key(q) \in files
    /\ HandlerAt(q, IF loaded[Key(q)] = None THEN "enqueue" ELSE "check", loaded[Key(q)])
    /\ HandlerLocal /\ UNCHANGED ctxDone

\* needsReload, with the request's own context, under refMu.
CheckReload(q) ==
    /\ hpc[q] = "check"
    /\ refMu[found[q]] = "free"
    /\ \E reload \in ReloadAnswers(found[q], q, q \in ctxDone) :
          HandlerAt(q, IF reload THEN "enqueue" ELSE "use", found[q])
    /\ HandlerLocal /\ UNCHANGED ctxDone

\* Mutant: the request is served on the fast path and queued as well.
UseFoundAndEnqueue(q) ==
    /\ hpc[q] = "use"
    /\ UseLoadedRunner(q, found[q])
    /\ HandlerAt(q, "enqueue", None)
    /\ UNCHANGED <<ctxDone, pendingReqCh, finishedReqCh>>

\* The fast path: refMu was released since needsReload looked at the runner.
UseFound(q) ==
    /\ hpc[q] = "use"
    /\ UseLoadedRunner(q, found[q])
    /\ HandlerAt(q, "wait", None)
    /\ UNCHANGED <<ctxDone, pendingReqCh, finishedReqCh>>

\* Mutant: after ErrMaxQueue the handler tries again.
EnqueueAgain(q) ==
    /\ hpc[q] = "enqueue"
    /\ \/ /\ Len(pendingReqCh) < MaxQueue
          /\ HandlerAt(q, "wait", None)
          /\ pendingReqCh' = Append(pendingReqCh, q)
          /\ UNCHANGED answerVars
       \/ /\ Len(pendingReqCh) >= MaxQueue
          /\ AnswerError(q)
          /\ UNCHANGED <<hpc, found, pendingReqCh>>
    /\ UNCHANGED <<ctxDone, runnerVars, finishedReqCh>>

\* The slow path: a full queue is an immediate ErrMaxQueue.
Enqueue(q) ==
    /\ hpc[q] = "enqueue"
    /\ HandlerAt(q, "wait", None)
    /\ \/ /\ Len(pendingReqCh) < MaxQueue
          /\ pendingReqCh' = Append(pendingReqCh, q)
          /\ UNCHANGED answerVars
       \/ /\ Len(pendingReqCh) >= MaxQueue
          /\ AnswerError(q)
          /\ UNCHANGED pendingReqCh
    /\ UNCHANGED <<ctxDone, runnerVars, finishedReqCh>>

\* scheduleRunner's select: it waits for an answer and for nothing else.  On
\* an error the handler returns, which ends the request's context.
Receive(q) ==
    /\ hpc[q] = "wait"
    /\ sent[q] > 0
    /\ HandlerAt(q, IF granted[q] # None THEN "serving" ELSE "done", None)
    /\ ctxDone' = IF granted[q] # None THEN ctxDone ELSE ctxDone \cup {q}
    /\ HandlerLocal

\* The handler has used the runner and returns.
Finish(q) ==
    /\ hpc[q] = "serving"
    /\ HandlerAt(q, "done", None)
    /\ ctxDone' = ctxDone \cup {q}
    /\ HandlerLocal

\* The client goes away at any time, and a shutdown ends its connection.
Disconnect(q) ==
    /\ q \notin ctxDone
    /\ q \in Leavers \/ down # "up"
    /\ hpc[q] \notin {"idle", "done"}
    /\ ctxDone' = ctxDone \cup {q}
    /\ HandlerLocal /\ UNCHANGED <<hpc, found>>

\* The goroutine that waits for the request's context reports the end.
WatchDone(q) ==
    /\ q \in watching \cap ctxDone
    /\ Len(finishedReqCh) < MaxQueue
    /\ finishedReqCh' = Append(finishedReqCh, q)
    /\ watching' = watching \ {q}
    /\ UNCHANGED <<clientVars, sent, granted, dead, runnerVars, pendingReqCh>>

-----------------------------------------------------------------------------
(* processPending *)

PendFrame ==
    /\ ppc # "panic"
    /\ UNCHANGED <<req, clientVars, firing, resend, finishedReqCh, compVars, envVars>>

\* A step on the locals alone.
PendLocal ==
    UNCHANGED <<answerVars, mapVars, runnerVars, loader, pendingReqCh, expiredCh, unloadedCh>>

\* Go on at place p of the inner loop with runner r.
PendAt(p, r) ==
    /\ ppc' = p /\ prun' = r /\ plist' = <<>>
    /\ UNCHANGED <<preq, pfull, maxRunners>>

\* Back to the outer select: the locals of the inner loop are gone.
PendDone ==
    /\ ppc' = "idle" /\ preq' = None /\ prun' = None /\ pfull' = FALSE /\ plist' = <<>>
    /\ UNCHANGED maxRunners

\* Take the next request; one whose context is done is dropped.
PendReceive ==
    /\ ppc = "idle"
    /\ pendingReqCh # <<>>
    /\ pendingReqCh' = Tail(pendingReqCh)
    /\ \/ Head(pendingReqCh) \in ctxDone /\ PendDone
       \/ /\ Head(pendingReqCh) \notin ctxDone
          /\ ppc' = "decide" /\ preq' = Head(pendingReqCh)
          /\ UNCHANGED <<prun, pfull, plist, maxRunners>>
    /\ UNCHANGED <<answerVars, mapVars, runnerVars, loader, expiredCh, unloadedCh>>

\* An unload event when there is no pending request is ignored.
PendDrain ==
    /\ ppc = "idle"
    /\ unloadedCh > 0
    /\ unloadedCh' = unloadedCh - 1
    /\ PendDone
    /\ UNCHANGED <<answerVars, mapVars, runnerVars, loader, pendingReqCh, expiredCh>>

\* Mutant: one runner too many.
FullLate == maxRunners > 0 /\ Cardinality(LoadedKeys) > maxRunners

\* The limit on loaded models is reached.
Full == maxRunners > 0 /\ Cardinality(LoadedKeys) >= maxRunners

\* The snapshot at the head of the inner loop: the model is loaded, or there is
\* no room for another runner, or it may be tried.  Without a configured limit
\* the number of GPUs sets one now, for good.
PendDecide ==
    /\ ppc = "decide"
    /\ \/ /\ loaded[Key(preq)] # None
          /\ PendAt("check", loaded[Key(preq)])
       \/ /\ loaded[Key(preq)] = None
          /\ Full
          /\ PendAt("find", None)
       \/ /\ loaded[Key(preq)] = None
          /\ ~Full
          /\ maxRunners' = IF maxRunners > 0 THEN maxRunners
                           ELSE ModelsPerGPU * (IF GPUs > 1 THEN GPUs ELSE 1)
          /\ pfull' = (LoadedKeys # {})
          /\ ppc' = IF Key(preq) \in MLXKeys THEN "mlx" ELSE "open"
          /\ UNCHANGED <<preq, prun, plist>>
    /\ PendLocal

\* Mutant: a runner that needs a reload is not expired before the load.
PendCheckLoads ==
    /\ ppc = "check"
    /\ refMu[prun] = "free"
    /\ \E reload \in ReloadAnswers(prun, preq, down # "up") :
          PendAt(IF reload THEN "open" ELSE "use", prun)
    /\ PendLocal

\* needsReload, with the scheduler's context.
PendCheck ==
    /\ ppc = "check"
    /\ refMu[prun] = "free"
    /\ \E reload \in ReloadAnswers(prun, preq, down # "up") :
          PendAt(IF reload THEN "expire" ELSE "use", prun)
    /\ PendLocal

\* useLoadedRunner, after needsReload or at the end of loadMLX.
PendUse ==
    /\ ppc = "use"
    /\ UseLoadedRunner(preq, prun)
    /\ PendDone
    /\ UNCHANGED <<mapVars, loader, pendingReqCh, expiredCh, unloadedCh>>

\* loadMLX: start the process, which activeLoading does not show ...
PendMLX ==
    /\ ppc = "mlx"
    /\ \/ /\ StartFails
          /\ AnswerError(preq)
          /\ PendDone
          /\ UNCHANGED proc
       \/ /\ proc' = [proc EXCEPT ![preq] = "running"]
          /\ PendAt("mlxInsert", None)
          /\ UNCHANGED answerVars
    /\ UNCHANGED <<mapVars, llama, session, refCount, timer, refMu, unloaded, loader,
                   pendingReqCh, expiredCh, unloadedCh>>

\* ... put its runner in the map ...
PendMLXInsert ==
    /\ ppc = "mlxInsert"
    /\ llama' = [llama EXCEPT ![preq] = preq]
    /\ session' = [session EXCEPT ![preq] = Duration(preq)]
    /\ loaded' = [loaded EXCEPT ![Key(preq)] = preq]
    /\ PendAt("mlxTimer", preq)
    /\ UNCHANGED <<answerVars, activeLoading, proc, refCount, timer, refMu, unloaded,
                   loader, pendingReqCh, expiredCh, unloadedCh>>

\* ... and set its timer, which does not take refMu when it fires.
PendMLXTimer ==
    /\ ppc = "mlxTimer"
    /\ refMu[prun] = "free"
    /\ timer' = [timer EXCEPT ![prun] = IF Duration(preq) > 0
                                        THEN MLXTimer(Duration(preq)) ELSE @]
    /\ PendAt("use", prun)
    /\ UNCHANGED <<answerVars, mapVars, llama, proc, refCount, session, refMu, unloaded,
                   loader, pendingReqCh, expiredCh, unloadedCh>>

\* llm.LoadModel: a missing file is the request's error.
PendOpen ==
    /\ ppc = "open"
    /\ \/ Key(preq) \notin files /\ AnswerError(preq) /\ PendDone
       \/ /\ Key(preq) \in files
          /\ ppc' = "free"
          /\ plist' \in Listings(IF req[preq].opts = 0 \/ GPUs = 0 THEN {} ELSE LoadedRunners)
          /\ UNCHANGED <<preq, prun, pfull, maxRunners, answerVars>>
    /\ UNCHANGED <<mapVars, runnerVars, loader, pendingReqCh, expiredCh, unloadedCh>>

\* updateFreeSpace locks each runner in turn, a loading one too.
PendFree ==
    /\ ppc = "free"
    /\ \/ plist = <<>> /\ PendAt("start", None)
       \/ /\ plist # <<>>
          /\ refMu[Head(plist)] = "free"
          /\ plist' = Tail(plist)
          /\ UNCHANGED <<ppc, preq, prun, pfull, maxRunners>>
    /\ PendLocal

\* load, up to the call of Load: start a process or go on with the one that an
\* earlier attempt left behind, which has to be for the same model.
PendStart ==
    /\ ppc = "start"
    /\ \/ /\ activeLoading = None
          /\ StartFails
          /\ AnswerError(preq)
          /\ PendDone
          /\ UNCHANGED <<activeLoading, proc>>
       \/ /\ activeLoading = None
          /\ proc' = [proc EXCEPT ![preq] = "running"]
          /\ activeLoading' = preq
          /\ PendAt("load", preq)
          /\ UNCHANGED answerVars
       \/ /\ activeLoading # None
          /\ PendAt(IF Key(activeLoading) = Key(preq) THEN "load" ELSE "panic", activeLoading)
          /\ UNCHANGED <<answerVars, activeLoading, proc>>
    /\ UNCHANGED <<loaded, llama, refCount, session, timer, refMu, unloaded, loader,
                   pendingReqCh, expiredCh, unloadedCh>>

\* Load returned: the runner goes into the map, locked by its loader.
PendLoaded ==
    /\ ppc = "load"
    /\ "ok" \in LoadOutcomes
    /\ llama' = [llama EXCEPT ![preq] = prun]
    /\ session' = [session EXCEPT ![preq] = Duration(preq)]
    /\ refMu' = [refMu EXCEPT ![preq] = "loader"]
    /\ loader' = [loader EXCEPT ![preq] = "loading"]
    /\ loaded' = [loaded EXCEPT ![Key(preq)] = preq]
    /\ activeLoading' = None
    /\ PendDone
    /\ UNCHANGED <<answerVars, proc, refCount, timer, unloaded, pendingReqCh, expiredCh,
                   unloadedCh>>

\* ErrLoadRequiredFull beside other models: evict one, and keep the process for
\* the next attempt.
PendLoadFull ==
    /\ ppc = "load"
    /\ "full" \in LoadOutcomes
    /\ pfull
    /\ PendAt("find", None)
    /\ PendLocal

\* Mutants: the process of a failed load is not closed; activeLoading is kept.
PendLoadFailedLeaks ==
    /\ ppc = "load" /\ "err" \in LoadOutcomes
    /\ activeLoading' = None
    /\ AnswerError(preq)
    /\ PendDone
    /\ UNCHANGED <<loaded, runnerVars, loader, pendingReqCh, expiredCh, unloadedCh>>
PendLoadFailedKeeps ==
    /\ ppc = "load" /\ "err" \in LoadOutcomes
    /\ proc' = [proc EXCEPT ![activeLoading] = "closed"]
    /\ AnswerError(preq)
    /\ PendDone
    /\ UNCHANGED <<mapVars, llama, refCount, session, timer, refMu, unloaded, loader,
                   pendingReqCh, expiredCh, unloadedCh>>

\* Load failed, or does not fit with nothing else loaded.  A shutdown may have
\* cleared activeLoading meanwhile: Close() of nil.
PendLoadFailed ==
    /\ ppc = "load"
    /\ \/ "full" \in LoadOutcomes /\ ~pfull
       \/ "err" \in LoadOutcomes
       \/ preq \in ctxDone
       \/ proc[prun] = "closed"
    /\ \/ /\ activeLoading = None
          /\ PendAt("panic", None)
          /\ UNCHANGED <<answerVars, proc, activeLoading>>
       \/ /\ activeLoading # None
          /\ proc' = [proc EXCEPT ![activeLoading] = "closed"]
          /\ activeLoading' = None
          /\ AnswerError(preq)
          /\ PendDone
    /\ UNCHANGED <<loaded, llama, refCount, session, timer, refMu, unloaded, loader,
                   pendingReqCh, expiredCh, unloadedCh>>

\* Mutant: no check for a nil runner.
PendFindUnchecked ==
    /\ ppc = "find"
    /\ LoadedKeys = {}
    /\ PendAt("expire", None)
    /\ PendLocal

\* findRunnerToUnload: the runners by duration and name; with none left the
\* loop starts again.  The sort reads the durations after loadedMu is released
\* and without refMu; here they are those of the snapshot.
PendFind ==
    /\ ppc = "find"
    /\ \/ LoadedKeys = {} /\ PendAt("decide", None)
       \/ /\ LoadedKeys # {}
          /\ plist' \in {s \in Listings(LoadedRunners) :
                            \A i, j \in DOMAIN s : i < j => Less(s[i], s[j])}
          /\ prun' = Head(plist')
          /\ ppc' = "scan"
          /\ UNCHANGED <<preq, pfull, maxRunners>>
    /\ PendLocal

\* findRunnerToUnload: the first idle runner, or else the first of all.
PendScan ==
    /\ ppc = "scan"
    /\ \/ plist = <<>> /\ PendAt("expire", prun)
       \/ /\ plist # <<>>
          /\ refMu[Head(plist)] = "free"
          /\ \/ refCount[Head(plist)] = 0 /\ PendAt("expire", Head(plist))
             \/ /\ refCount[Head(plist)] # 0
                /\ plist' = Tail(plist)
                /\ UNCHANGED <<ppc, preq, prun, pfull, maxRunners>>
    /\ PendLocal

\* Expire the chosen runner, so that it is unloaded once it is idle.
PendExpire ==
    /\ \/ ppc = "expire" /\ ExpireRunner(prun, "pending")
       \/ ppc = "send" /\ SendHeld(prun, "pending")
    /\ PendAt(IF refMu'[prun] = "pending" THEN "send" ELSE "wait", prun)
    /\ UNCHANGED <<answerVars, mapVars, loader, pendingReqCh, unloadedCh>>

\* Wait for an unload, any unload, and look again.
PendWaitUnload ==
    /\ ppc = "wait"
    /\ unloadedCh > 0
    /\ unloadedCh' = unloadedCh - 1
    /\ PendAt("decide", None)
    /\ UNCHANGED <<answerVars, mapVars, runnerVars, loader, pendingReqCh, expiredCh>>

\* Mutant: only the outer select watches the scheduler's context.
PendExitIdle ==
    /\ ppc = "idle"
    /\ down # "up"
    /\ PendAt("exit", None)
    /\ PendLocal

\* Both selects of the loop also watch the scheduler's context.
PendExit ==
    /\ ppc \in {"idle", "wait"}
    /\ down # "up"
    /\ PendAt("exit", None)
    /\ PendLocal

-----------------------------------------------------------------------------
(* The goroutines of a runner: its loader (the end of load) and its timers *)

RunnerFrame ==
    /\ ppc # "panic"
    /\ UNCHANGED <<req, clientVars, mapVars, pendingReqCh, finishedReqCh, unloadedCh,
                   pendVars, compVars, envVars>>

\* The process answers: count the request in and hand the runner over.
LoaderOK(r) ==
    /\ loader[r] = "loading"
    /\ proc[llama[r]] = "running"
    /\ loader' = [loader EXCEPT ![r] = "none"]
    /\ refCount' = [refCount EXCEPT ![r] = Inc(@)]
    /\ refMu' = [refMu EXCEPT ![r] = "free"]
    /\ AnswerRunner(r, r)
    /\ UNCHANGED <<llama, proc, session, timer, unloaded, firing, resend, expiredCh>>

\* It does not, or the client has gone: report the error, then expire the
\* runner with the lock still held.
LoaderFail(r) ==
    /\ loader[r] = "loading"
    /\ WaitFails \/ r \in ctxDone \/ proc[llama[r]] = "closed"
    /\ loader' = [loader EXCEPT ![r] = "failed"]
    /\ AnswerError(r)
    /\ UNCHANGED <<runnerVars, firing, resend, expiredCh>>

\* Mutant: a failed load is not expired.
LoaderExpireDropped(r) ==
    /\ loader[r] = "failed"
    /\ refMu' = [refMu EXCEPT ![r] = "free"]
    /\ loader' = [loader EXCEPT ![r] = "none"]
    /\ UNCHANGED <<answerVars, llama, proc, refCount, session, timer, unloaded, firing,
                   resend, expiredCh>>

LoaderExpire(r) ==
    /\ loader[r] = "failed"
    /\ SendHeld(r, "loader")
    /\ loader' = [loader EXCEPT ![r] = "none"]
    /\ UNCHANGED <<answerVars, firing, resend>>

\* A timer runs out and its callback starts; Stop() no longer affects it.  The
\* callback of loadMLX's timer takes no lock.
TimerFire(r) ==
    /\ \/ /\ timer[r] = "armed"
          /\ timer' = [timer EXCEPT ![r] = "spent"]
          /\ firing' = [firing EXCEPT ![r] = @ + 1]
          /\ UNCHANGED resend
       \/ /\ timer[r] = "mlxArmed"
          /\ timer' = [timer EXCEPT ![r] = "mlxSpent"]
          /\ resend' = [resend EXCEPT ![r] = @ + 1]
          /\ UNCHANGED firing
    /\ UNCHANGED <<answerVars, llama, proc, refCount, session, refMu, unloaded, loader,
                   expiredCh>>

\* The callback set by processCompleted stops whatever timer the runner has by
\* now, and sends with the lock held.
TimerSend(r) ==
    /\ firing[r] > 0
    /\ refMu[r] = "free"
    /\ firing' = [firing EXCEPT ![r] = @ - 1]
    /\ timer' = [timer EXCEPT ![r] = "nil"]
    /\ SendExpired(r, "timer")
    /\ UNCHANGED <<answerVars, llama, proc, refCount, session, unloaded, loader, resend>>

TimerSendHeld(r) == SendHeld(r, "timer") /\ UNCHANGED <<answerVars, taskVars>>

\* A goroutine that re-queues an expiration, or a callback of loadMLX's timer.
Resend(r) ==
    /\ resend[r] > 0
    /\ Len(expiredCh) < MaxQueue
    /\ resend' = [resend EXCEPT ![r] = @ - 1]
    /\ expiredCh' = Append(expiredCh, r)
    /\ UNCHANGED <<answerVars, runnerVars, loader, firing>>

-----------------------------------------------------------------------------
(* processCompleted *)

CompFrame ==
    /\ ppc # "panic"
    /\ UNCHANGED <<req, clientVars, answerVars, activeLoading, llama, session, loader,
                   firing, pendingReqCh, pendVars, envVars>>

CompAt(p, r) == cpc' = p /\ crun' = r

\* A finished request is looked up by the key of its model: the runner found is
\* the one that has the key now.
CompReceiveFinished ==
    /\ cpc = "idle"
    /\ finishedReqCh # <<>>
    /\ finishedReqCh' = Tail(finishedReqCh)
    /\ LET r == loaded[Key(Head(finishedReqCh))]
       IN  CompAt(IF r = None THEN "idle" ELSE "finish", r)
    /\ UNCHANGED <<loaded, proc, refCount, timer, refMu, unloaded, resend, expiredCh,
                   unloadedCh>>

\* Count the request out: the runner is still in use, or idle with a keep-alive
\* timer to set or reset, or idle and to be expired at once.  The last sends on
\* expiredCh, which only this goroutine empties.
CompFinish ==
    /\ cpc = "finish"
    /\ refMu[crun] = "free"
    /\ refCount' = [refCount EXCEPT ![crun] = Dec(@)]
    /\ \/ /\ refCount'[crun] > 0
          /\ CompAt("idle", None)
          /\ UNCHANGED <<timer, expiredCh, refMu>>
       \/ /\ refCount'[crun] = 0
          /\ session[crun] > 0
          /\ timer' = [timer EXCEPT ![crun] = IF @ \in {"mlxArmed", "mlxSpent"}
                                              THEN MLXTimer(session[crun])
                                              ELSE Timer(session[crun])]
          /\ CompAt("idle", None)
          /\ UNCHANGED <<expiredCh, refMu>>
       \/ /\ refCount'[crun] = 0
          /\ session[crun] = 0
          /\ timer' = [timer EXCEPT ![crun] = "nil"]
          /\ SendExpired(crun, "completed")
          /\ IF refMu' = refMu THEN CompAt("idle", None) ELSE CompAt("stuck", crun)
    /\ UNCHANGED <<loaded, proc, unloaded, resend, finishedReqCh, unloadedCh>>

CompReceiveExpired ==
    /\ cpc = "idle"
    /\ expiredCh # <<>>
    /\ expiredCh' = Tail(expiredCh)
    /\ CompAt("expired", Head(expiredCh))
    /\ UNCHANGED <<loaded, proc, refCount, timer, refMu, unloaded, resend,
                   finishedReqCh, unloadedCh>>

\* An expired runner that is in use is expired again a little later.
CompBusy ==
    /\ cpc = "expired" /\ refMu[crun] = "free" /\ refCount[crun] > 0
    /\ resend' = [resend EXCEPT ![crun] = @ + 1]
    /\ CompAt("idle", None)
    /\ UNCHANGED <<loaded, proc, refCount, timer, refMu, unloaded, finishedReqCh,
                   expiredCh, unloadedCh>>

\* Nothing is loaded under its key any more: a duplicate event.
CompDuplicate ==
    /\ cpc = "expired" /\ refMu[crun] = "free" /\ refCount[crun] = 0
    /\ loaded[Key(crun)] = None
    /\ CompAt("idle", None)
    /\ UNCHANGED <<loaded, proc, refCount, timer, refMu, unloaded, resend,
                   finishedReqCh, expiredCh, unloadedCh>>

\* Mutant: the runner in the map is shut down instead of the orphan.
CompOrphanWrong ==
    /\ cpc = "expired" /\ refMu[crun] = "free" /\ refCount[crun] = 0
    /\ loaded[Key(crun)] # None
    /\ PID(crun) # PID(loaded[Key(crun)])
    /\ Unload(loaded[Key(crun)])
    /\ CompAt("idle", None)
    /\ UNCHANGED <<loaded, refCount, refMu, resend, finishedReqCh, expiredCh, unloadedCh>>

\* Another process has the key: shut the orphan down, keep the map.
CompOrphan ==
    /\ cpc = "expired" /\ refMu[crun] = "free" /\ refCount[crun] = 0
    /\ loaded[Key(crun)] # None
    /\ PID(crun) # PID(loaded[Key(crun)])
    /\ Unload(crun)
    /\ CompAt("idle", None)
    /\ UNCHANGED <<loaded, refCount, refMu, resend, finishedReqCh, expiredCh, unloadedCh>>

\* Mutant: a runner is unloaded whether it is in use or not.
CompUnloadBusy ==
    /\ cpc = "expired" /\ refMu[crun] = "free"
    /\ loaded[Key(crun)] # None
    /\ PID(crun) = PID(loaded[Key(crun)])
    /\ Unload(crun)
    /\ loaded' = [loaded EXCEPT ![Key(crun)] = None]
    /\ refMu' = [refMu EXCEPT ![crun] = "completed"]
    /\ CompAt("recover", crun)
    /\ UNCHANGED <<refCount, resend, finishedReqCh, expiredCh, unloadedCh>>

\* Unload the runner and wait for its memory, refMu held.
CompUnload ==
    /\ cpc = "expired" /\ refMu[crun] = "free" /\ refCount[crun] = 0
    /\ loaded[Key(crun)] # None
    /\ PID(crun) = PID(loaded[Key(crun)])
    /\ Unload(crun)
    /\ loaded' = [loaded EXCEPT ![Key(crun)] = None]
    /\ refMu' = [refMu EXCEPT ![crun] = "completed"]
    /\ CompAt("recover", crun)
    /\ UNCHANGED <<refCount, resend, finishedReqCh, expiredCh, unloadedCh>>

\* Mutant: nobody is told about the unload.
CompRecoveredSilent ==
    /\ cpc = "recover"
    /\ refMu' = [refMu EXCEPT ![crun] = "free"]
    /\ CompAt("idle", None)
    /\ UNCHANGED <<loaded, proc, refCount, timer, unloaded, resend, finishedReqCh,
                   expiredCh, unloadedCh>>

\* waitForVRAMRecovery has converged or timed out.
CompRecovered ==
    /\ cpc = "recover"
    /\ refMu' = [refMu EXCEPT ![crun] = "free"]
    /\ CompAt("notify", None)
    /\ UNCHANGED <<loaded, proc, refCount, timer, unloaded, resend, finishedReqCh,
                   expiredCh, unloadedCh>>

CompNotify ==
    /\ cpc = "notify"
    /\ unloadedCh < MaxQueue
    /\ unloadedCh' = unloadedCh + 1
    /\ CompAt("idle", None)
    /\ UNCHANGED <<loaded, proc, refCount, timer, refMu, unloaded, resend,
                   finishedReqCh, expiredCh>>

CompExit ==
    /\ cpc = "idle"
    /\ down # "up"
    /\ CompAt("exit", None)
    /\ UNCHANGED <<loaded, proc, refCount, timer, refMu, unloaded, resend,
                   finishedReqCh, expiredCh, unloadedCh>>

-----------------------------------------------------------------------------
(* The rest of the server *)

ServerFrame ==
    /\ ppc # "panic"
    /\ UNCHANGED <<req, clientVars, answerVars, loaded, taskVars, pendingReqCh,
                   finishedReqCh, unloadedCh, pendVars, compVars>>

\* An empty prompt with keep_alive 0 unloads the model: expireRunner, from the
\* map lookup ...
StopLookup(k) ==
    /\ spc = "idle"
    /\ stops < MaxStops
    /\ loaded[k] # None
    /\ spc' = "expire" /\ srun' = loaded[k] /\ stops' = stops + 1
    /\ UNCHANGED <<activeLoading, runnerVars, expiredCh, files, down>>

\* ... to the expiration, for which refMu has to be taken.
StopExpire ==
    /\ \/ spc = "expire" /\ ExpireRunner(srun, "stop")
       \/ spc = "send" /\ SendHeld(srun, "stop")
    /\ IF refMu'[srun] = "stop" THEN spc' = "send" /\ srun' = srun
                                ELSE spc' = "idle" /\ srun' = None
    /\ UNCHANGED <<activeLoading, files, stops, down>>

\* DeleteHandler removes the layers of a model, loaded or being loaded.
DeleteModel(k) ==
    /\ k \in Deletable \cap files
    /\ files' = files \ {k}
    /\ UNCHANGED <<activeLoading, runnerVars, expiredCh, spc, srun, stops, down>>

\* The signal handler cancels the context of both loops ...
Shutdown ==
    /\ CanShutDown
    /\ down = "up"
    /\ down' = "cancelled"
    /\ UNCHANGED <<activeLoading, runnerVars, expiredCh, files, spc, srun, stops>>

\* ... and closes every process it can see: the one being loaded and those in
\* the map.  It takes no refMu.
UnloadAllRunners ==
    /\ down = "cancelled"
    /\ down' = "stopped"
    /\ proc' = [p \in Requests |->
                  IF p = activeLoading \/ \E r \in LoadedRunners : llama[r] = p
                  THEN "closed" ELSE proc[p]]
    /\ activeLoading' = None
    /\ UNCHANGED <<llama, refCount, session, timer, refMu, unloaded, expiredCh, files,
                   spc, srun, stops>>

-----------------------------------------------------------------------------
(* InitScheduler and the specification *)

Init ==
    /\ req \in [Requests -> RequestType]
    /\ hpc = [q \in Requests |-> "idle"]
    /\ found = [q \in Requests |-> None] /\ granted = found /\ llama = found
    /\ sent = [q \in Requests |-> 0]
    /\ refCount = sent /\ session = sent /\ firing = sent /\ resend = sent
    /\ ctxDone = {} /\ watching = {} /\ dead = {} /\ unloaded = {}
    /\ loaded = [k \in Keys |-> None] /\ activeLoading = None
    /\ proc = [r \in Requests |-> "none"] /\ loader = proc
    /\ timer = [r \in Requests |-> "nil"]
    /\ refMu = [r \in Requests |-> "free"]
    /\ pendingReqCh = <<>> /\ finishedReqCh = <<>> /\ expiredCh = <<>> /\ unloadedCh = 0
    /\ ppc = "idle" /\ preq = None /\ prun = None /\ pfull = FALSE /\ plist = <<>>
    /\ maxRunners = ConfiguredMax
    /\ cpc = "idle" /\ crun = None
    /\ files = Keys
    /\ spc = "idle" /\ srun = None /\ stops = 0
    /\ down = "up"

\* What the handler of a request does, and what its client decides.
HandlerStep(q) ==
    HandlerFrame /\ \/ CheckReload(q) \/ UseFound(q) \/ Enqueue(q) \/ Receive(q) \/ Finish(q)
ClientStep(q)  == HandlerFrame /\ (Arrive(q) \/ Disconnect(q))
WatcherStep(q) == HandlerFrame /\ WatchDone(q)

PendingStep ==
    PendFrame /\
        \/ PendReceive \/ PendDrain \/ PendDecide \/ PendCheck \/ PendUse \/ PendMLX
        \/ PendMLXInsert \/ PendMLXTimer \/ PendOpen \/ PendFree \/ PendStart \/ PendLoaded
        \/ PendLoadFull \/ PendLoadFailed \/ PendFind \/ PendScan \/ PendExpire
        \/ PendWaitUnload \/ PendExit

LoaderStep(r)   == RunnerFrame /\ (LoaderOK(r) \/ LoaderFail(r) \/ LoaderExpire(r))
TimerStep(r)    == RunnerFrame /\ TimerFire(r)
CallbackStep(r) == RunnerFrame /\ (TimerSend(r) \/ TimerSendHeld(r))
ResendStep(r)   == RunnerFrame /\ Resend(r)

FinishedStep == CompFrame /\ CompReceiveFinished
ExitStep     == CompFrame /\ CompExit
CompletedStep ==
    \/ FinishedStep
    \/ CompFrame /\ \/ CompFinish \/ CompReceiveExpired \/ CompBusy \/ CompDuplicate
                    \/ CompOrphan \/ CompUnload \/ CompRecovered \/ CompNotify \/ CompExit

StopStep   == ServerFrame /\ StopExpire
ServerStep ==
    ServerFrame /\ \/ \E k \in Keys : StopLookup(k) \/ DeleteModel(k)
                   \/ Shutdown \/ UnloadAllRunners

Next ==
    \/ \E q \in Requests :
        \/ HandlerStep(q) \/ ClientStep(q) \/ WatcherStep(q)
        \/ LoaderStep(q) \/ TimerStep(q) \/ CallbackStep(q) \/ ResendStep(q)
    \/ PendingStep \/ CompletedStep \/ StopStep \/ ServerStep

Spec == Init /\ [][Next]_vars

\* Goroutines keep running, clients stop using a runner some time, the Go
\* runtime fires timers, and a process being loaded comes up or fails.  The
\* select of processCompleted picks among ready channels at random, so a stream
\* of expirations cannot hide the finished requests, or that the context is
\* done, for ever: strong fairness.
\* Nothing makes clients arrive, leave or stop models.
Fairness ==
    /\ \A q \in Requests :
        /\ WF_vars(HandlerStep(q)) /\ WF_vars(WatcherStep(q))
        /\ WF_vars(LoaderStep(q)) /\ WF_vars(TimerStep(q))
        /\ WF_vars(CallbackStep(q)) /\ WF_vars(ResendStep(q))
    /\ WF_vars(PendingStep) /\ WF_vars(CompletedStep) /\ SF_vars(FinishedStep)
    /\ SF_vars(ExitStep) /\ WF_vars(StopStep)

FairSpec == Spec /\ Fairness

-----------------------------------------------------------------------------
(* Properties *)

PendPlaces == {"idle", "decide", "check", "use", "mlx", "mlxInsert", "mlxTimer", "open",
               "free", "start", "load", "find", "scan", "expire", "send", "wait", "exit",
               "panic"}
\* Places at which pending, and places at which runner or llama, is in scope.
PendHasRequest == PendPlaces \ {"idle", "exit", "panic"}
PendHasRunner  == {"check", "use", "mlxTimer", "load", "scan", "expire", "send", "wait"}

ClientTypeOK ==
    /\ req \in [Requests -> RequestType]
    /\ hpc \in [Requests -> {"idle", "check", "use", "enqueue", "wait", "serving", "done"}]
    /\ found \in [Requests -> Requests \cup {None}]
    /\ ctxDone \in SUBSET Requests

AnswerTypeOK ==
    /\ sent \in [Requests -> Nat]
    /\ granted \in [Requests -> Requests \cup {None}]
    /\ watching \in SUBSET Requests
    /\ dead \in SUBSET Requests

MapTypeOK ==
    /\ loaded \in [Keys -> Requests \cup {None}]
    /\ activeLoading \in Requests \cup {None}

RunnerTypeOK ==
    /\ llama \in [Requests -> Requests \cup {None}]
    /\ proc \in [Requests -> {"none", "running", "closed"}]
    /\ refCount \in [Requests -> 0..RefMax]
    /\ session \in [Requests -> Nat]
    /\ timer \in [Requests -> {"nil", "armed", "spent", "mlxArmed", "mlxSpent"}]
    /\ refMu \in [Requests -> {"free", "pending", "completed", "loader", "timer", "stop"}]
    /\ unloaded \in SUBSET Requests

TaskTypeOK ==
    /\ loader \in [Requests -> {"none", "loading", "failed"}]
    /\ firing \in [Requests -> Nat]
    /\ resend \in [Requests -> Nat]

ChannelTypeOK ==
    /\ pendingReqCh \in Seq(Requests) /\ Len(pendingReqCh) <= MaxQueue
    /\ finishedReqCh \in Seq(Requests) /\ Len(finishedReqCh) <= MaxQueue
    /\ expiredCh \in Seq(Requests) /\ Len(expiredCh) <= MaxQueue
    /\ unloadedCh \in 0..MaxQueue

PendTypeOK ==
    /\ ppc \in PendPlaces
    /\ preq \in Requests \cup {None} /\ prun \in Requests \cup {None}
    /\ ppc \in PendHasRequest => preq \in Requests
    /\ ppc \in PendHasRunner => prun \in Requests
    /\ pfull \in BOOLEAN
    /\ plist \in Seq(Requests)
    /\ maxRunners \in Nat

CompTypeOK ==
    /\ cpc \in {"idle", "finish", "stuck", "expired", "recover", "notify", "exit"}
    /\ crun \in Requests \cup {None}
    /\ cpc \in {"finish", "stuck", "expired", "recover"} => crun \in Requests

ServerTypeOK ==
    /\ files \in SUBSET Keys
    /\ spc \in {"idle", "expire", "send"}
    /\ srun \in Requests \cup {None}
    /\ spc # "idle" => srun \in Requests
    /\ stops \in 0..MaxStops
    /\ down \in {"up", "cancelled", "stopped"}

\* Type correctness: every variable keeps its type, no channel of capacity
\* MaxQueue is overfilled, and the locals of the goroutines are set wherever
\* the code dereferences them.
TypeOK ==
    /\ ClientTypeOK /\ AnswerTypeOK /\ MapTypeOK /\ RunnerTypeOK /\ TaskTypeOK
    /\ ChannelTypeOK /\ PendTypeOK /\ CompTypeOK /\ ServerTypeOK

\* A request gets at most one answer.  successCh and errCh have capacity one
\* and one reader that reads once: a second answer would block its sender, in
\* useLoadedRunner and in the loader with refMu held (sched.go 419-436,
\* 569-590).
AtMostOneAnswer == \A q \in Requests : sent[q] <= 1

\* Who still has to answer request q: its handler, the queue, processPending
\* or the loader of its runner.
HandlerOwns(q) == hpc[q] \in {"idle", "check", "use", "enqueue"}
QueueOwns(q)   == q \in Range(pendingReqCh)
PendingOwns(q) == ppc \in PendHasRequest /\ preq = q
LoaderOwns(q)  == loader[q] = "loading"

\* A request is handed from one owner to the next and never has two, and none
\* is left once it is answered: the fast path, the queue, the retries after an
\* eviction and the loader never work on the same request (sched.go 95-155,
\* 161-309, 569-590).
OneOwner ==
    /\ IsInjective(pendingReqCh)
    /\ \A q \in Requests :
        /\ HandlerOwns(q) => ~QueueOwns(q) /\ ~PendingOwns(q) /\ ~LoaderOwns(q)
        /\ QueueOwns(q) => ~PendingOwns(q) /\ ~LoaderOwns(q)
        /\ PendingOwns(q) => ~LoaderOwns(q)
        /\ HandlerOwns(q) \/ QueueOwns(q) \/ PendingOwns(q) \/ LoaderOwns(q) => sent[q] = 0

\* Places at which processPending is on its way to put a runner in the map.
PendHasRoom == {"mlx", "mlxInsert", "open", "free", "start", "load"}

\* The room that processPending saw under loadedMu is still there when it adds
\* the runner, many steps later: the key is free and the map is below the
\* limit, which is set before the first runner (sched.go 178-277, 556-567).
RoomReserved ==
    /\ maxRunners = 0 => LoadedKeys = {}
    /\ ppc \in PendHasRoom =>
        /\ loaded[Key(preq)] = None
        /\ maxRunners > 0 /\ Cardinality(LoadedKeys) < maxRunners

\* processPending never has more runners in the map than maxRunners, although
\* it compares a count it read before it unlocked loadedMu (sched.go 178-197).
WithinMaxRunners == maxRunners > 0 => Cardinality(LoadedKeys) <= maxRunners

\* A runner in the map is never replaced by another one: the branch that load
\* marks "Shouldn't happen" (sched.go 557-563), which takes refMu inside
\* loadedMu against the order of processCompleted, is never taken, and loadMLX
\* never drops a live runner.
NeverOverwritten ==
    [][\A k \in Keys : loaded[k] # None => loaded'[k] \in {None, loaded[k]}]_vars

\* A runner in the map has not been unloaded and its process runs: the
\* deferred, duplicated and re-queued expirations of processCompleted never
\* leave a shut down runner behind for later requests (sched.go 358-411).
LoadedIsAlive ==
    \A k \in LoadedKeys :
        /\ loaded[k] \notin unloaded
        /\ proc[llama[loaded[k]]] = "running"

\* A running process is the one being loaded or belongs to a runner in the
\* map, so something can still unload it (sched.go 385-411, 505-567).
NoStrandedProcess ==
    \A p \in Requests : proc[p] = "running" =>
        \/ activeLoading = p
        \/ \E k \in LoadedKeys : llama[loaded[k]] = p

\* The requests that hold runner r: granted, and not yet counted out.
Holders(r) ==
    {q \in Requests : granted[q] = r /\ q \in watching \cup Range(finishedReqCh)}

\* refCount of a runner is the number of requests that hold it, through the
\* context watchers, the channel and the lookup by key of processCompleted,
\* as long as no request was granted an unloaded runner (sched.go 318-357,
\* 419-436, 582-588).
RefCountExact ==
    dead = {} =>
        \A r \in Requests :
            refCount[r] = Cardinality(Holders(r))
                          + (IF cpc = "finish" /\ crun = r THEN 1 ELSE 0)

\* "refCount uint // prevent unloading if > 0" (sched.go 697): while a request
\* whose context is open holds a runner, the runner is not unloaded, unless
\* some request was granted an unloaded runner before.
InUseNotUnloaded ==
    dead = {} => \A q \in watching : granted[q] \notin unloaded

\* When load() is entered again after an eviction, the process left in
\* activeLoading is the pending request's own, so that the panic of sched.go
\* 481-483 is not reached: every way out of the loop closes it, but for one, the
\* failure to read the model file again when the model was deleted (sched.go 246).
ActiveLoadingIsPending ==
    activeLoading # None => activeLoading = preq \/ Key(activeLoading) \notin files

\* When processPending waits for an unload, one has happened, is under way or
\* will be triggered: the runner it expired is in use or has an expiration on
\* its way (sched.go 281-302).  Keep-alives are finite here.
NoLostWakeup ==
    ppc = "wait" /\ dead = {} =>
        \/ unloadedCh > 0
        \/ cpc \in {"recover", "notify"}
        \/ /\ prun \notin unloaded
           /\ \/ refCount[prun] > 0
              \/ timer[prun] \in {"armed", "mlxArmed"}
              \/ firing[prun] > 0
              \/ resend[prun] > 0
              \/ refMu[prun] # "free"
              \/ crun = prun
              \/ prun \in Range(expiredCh)

\* An entry leaves the map only when its own runner is unloaded: "do not
\* delete the mismatched loaded runner" (sched.go 385-404).
DeletesOnlyUnloaded ==
    [][\A k \in Keys : loaded[k] # None /\ loaded'[k] = None => loaded[k] \in unloaded']_vars

\* Every request that waits is answered, unless its client leaves or a request
\* was granted an unloaded runner: "Queued requests will be processed in order"
\* (docs/faq.mdx:328; sched.go 157-309).
EveryRequestAnswered ==
    \A q \in Requests : hpc[q] = "wait" ~> (sent[q] > 0 \/ q \in ctxDone \/ dead # {})

\* Once the context of the scheduler is cancelled both loops end, whatever they
\* were waiting for: "spawns go routines for the scheduler which will shutdown
\* when ctx is done" (sched.go:145).  A panic ends them too.
SchedulerStops == down # "up" ~> (ppc = "panic" \/ (ppc = "exit" /\ cpc = "exit"))

\* With finite keep-alives every runner is unloaded in the end and its process
\* is closed, failed and cancelled loads included.
MemoryReleased ==
    <>[](dead # {} \/ (LoadedKeys = {} /\ \A p \in Requests : proc[p] # "running"))

-----------------------------------------------------------------------------
(* What a comment, a message or a document says and the code does not keep *)

\* "Runner is usable, return it" (sched.go:192): a runner in the hands of a
\* handler has not been unloaded.
UsedRunnerIsLoaded ==
    \A q \in Requests : hpc[q] = "serving" /\ q \notin ctxDone => granted[q] \notin unloaded
=============================================================================
