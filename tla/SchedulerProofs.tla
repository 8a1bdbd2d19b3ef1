-------------------------- MODULE SchedulerProofs --------------------------
(***************************************************************************)
(* Theorems about the scheduler, for every value of its constants.         *)
(***************************************************************************)
EXTENDS Scheduler, FiniteSetTheorems, SequenceTheorems, TLAPS

USE DEF clientVars, answerVars, mapVars, runnerVars, taskVars, chanVars, pendVars,
        compVars, envVars

-----------------------------------------------------------------------------
(* Lemmas about the helpers *)

\* A send on a channel that has room keeps its type and its capacity.
LEMMA SendTypes ==
    ASSUME NEW s \in Seq(Requests), NEW r \in Requests, Len(s) < MaxQueue
    PROVE  Append(s, r) \in Seq(Requests) /\ Len(Append(s, r)) <= MaxQueue
BY LimitAssumption

\* So does a receive, which yields a request.
LEMMA ReceiveTypes ==
    ASSUME NEW s \in Seq(Requests), s # <<>>, Len(s) <= MaxQueue
    PROVE  /\ Head(s) \in Requests
           /\ Tail(s) \in Seq(Requests) /\ Len(Tail(s)) <= MaxQueue
BY LimitAssumption

\* A listing of a set of runners is a sequence, with a head if there is one.
LEMMA ListingTypes ==
    ASSUME NEW S \in SUBSET Requests, NEW s \in Listings(S)
    PROVE  s \in Seq(Requests) /\ (S # {} => Head(s) \in Requests)
<1>1. IsFiniteSet(S) /\ Cardinality(S) \in Nat
  BY RequestsAssumption, FS_Subset, FS_CardinalityType
<1>2. s \in [1..Cardinality(S) -> Requests]
  BY DEF Listings, Bijection, Injection
<1>3. s \in Seq(Requests)
  BY <1>1, <1>2
<1>4. S # {} => Cardinality(S) # 0
  BY <1>1, FS_EmptySet
<1> QED BY <1>1, <1>2, <1>3, <1>4

\* Durations are numbers; a request names a key.
LEMMA RequestTypes ==
    ASSUME ClientTypeOK, NEW q \in Requests
    PROVE  /\ Duration(q) \in Nat
           /\ Key(q) \in Keys
           /\ req[q].keep # None => req[q].keep \in Nat
BY DurationAssumption DEF ClientTypeOK, RequestType, Duration, Key

\* Counting in and out wraps within the range of refCount.
LEMMA CountTypes ==
    ASSUME NEW n \in 0..RefMax
    PROVE  Inc(n) \in 0..RefMax /\ Dec(n) \in 0..RefMax
BY RefAssumption DEF Inc, Dec

\* The runners in the map are runners.
LEMMA LoadedTypes ==
    ASSUME MapTypeOK
    PROVE  /\ LoadedRunners \in SUBSET Requests
           /\ LoadedKeys # {} => LoadedRunners # {}
BY DEF MapTypeOK, LoadedRunners, LoadedKeys

\* A group of variables that does not change keeps its type.
LEMMA FrameTypes ==
    ASSUME TypeOK
    PROVE  /\ UNCHANGED <<req, clientVars>> => ClientTypeOK'
           /\ UNCHANGED answerVars => AnswerTypeOK'
           /\ UNCHANGED mapVars => MapTypeOK'
           /\ UNCHANGED runnerVars => RunnerTypeOK'
           /\ UNCHANGED taskVars => TaskTypeOK'
           /\ UNCHANGED chanVars => ChannelTypeOK'
           /\ UNCHANGED pendVars => PendTypeOK'
           /\ UNCHANGED compVars => CompTypeOK'
           /\ UNCHANGED envVars => ServerTypeOK'
<1> USE DEF TypeOK
<1>1. UNCHANGED <<req, clientVars>> => ClientTypeOK' BY DEF ClientTypeOK
<1>2. UNCHANGED answerVars => AnswerTypeOK' BY DEF AnswerTypeOK
<1>3. UNCHANGED mapVars => MapTypeOK' BY DEF MapTypeOK
<1>4. UNCHANGED runnerVars => RunnerTypeOK' BY DEF RunnerTypeOK
<1>5. UNCHANGED taskVars => TaskTypeOK' BY DEF TaskTypeOK
<1>6. UNCHANGED chanVars => ChannelTypeOK' BY DEF ChannelTypeOK
<1>7. UNCHANGED pendVars => PendTypeOK' BY DEF PendTypeOK
<1>8. UNCHANGED compVars => CompTypeOK' BY DEF CompTypeOK
<1>9. UNCHANGED envVars => ServerTypeOK' BY DEF ServerTypeOK
<1> QED BY <1>1, <1>2, <1>3, <1>4, <1>5, <1>6, <1>7, <1>8, <1>9

\* An answer keeps the types of the answers.
LEMMA AnswerTypes ==
    ASSUME AnswerTypeOK, NEW q \in Requests, NEW r \in Requests \cup {None},
           AnswerError(q) \/ AnswerRunner(q, r)
    PROVE  AnswerTypeOK'
BY DEF AnswerTypeOK, AnswerError, AnswerRunner

\* useLoadedRunner keeps the types of the runners and of the answers.
LEMMA UseTypes ==
    ASSUME ClientTypeOK, AnswerTypeOK, RunnerTypeOK,
           NEW q \in Requests, NEW r \in Requests \cup {None}, UseLoadedRunner(q, r)
    PROVE  RunnerTypeOK' /\ AnswerTypeOK'
<1>1. refCount' \in [Requests -> 0..RefMax]
  BY CountTypes DEF UseLoadedRunner, RunnerTypeOK
<1>2. session' \in [Requests -> Nat]
  BY RequestTypes DEF UseLoadedRunner, RunnerTypeOK
<1>3. AnswerTypeOK'
  BY AnswerTypes DEF UseLoadedRunner
<1> QED BY <1>1, <1>2, <1>3 DEF UseLoadedRunner, RunnerTypeOK

\* Who can hold refMu.
Holding == {"pending", "completed", "loader", "timer", "stop"}

\* A send on expiredCh, and its completion, keep the types of the channel and
\* of the lock.
LEMMA SendExpiredTypes ==
    ASSUME RunnerTypeOK, ChannelTypeOK, NEW r \in Requests, NEW g \in Holding,
           SendExpired(r, g) \/ SendHeld(r, g)
    PROVE  /\ expiredCh' \in Seq(Requests) /\ Len(expiredCh') <= MaxQueue
           /\ refMu' \in [Requests -> Holding \cup {"free"}]
<1>1. expiredCh' \in Seq(Requests) /\ Len(expiredCh') <= MaxQueue
  BY SendTypes DEF SendExpired, SendHeld, ChannelTypeOK
<1>2. refMu' \in [Requests -> Holding \cup {"free"}]
  BY DEF SendExpired, SendHeld, RunnerTypeOK, Holding
<1> QED BY <1>1, <1>2

\* Expiring a runner, at once or after a wait for the channel, keeps the types
\* of the runners and the channels.
LEMMA ExpireTypes ==
    ASSUME RunnerTypeOK, ChannelTypeOK, NEW r \in Requests, NEW g \in Holding,
           ExpireRunner(r, g) \/ SendHeld(r, g)
    PROVE  /\ RunnerTypeOK'
           /\ expiredCh' \in Seq(Requests) /\ Len(expiredCh') <= MaxQueue
<1>1. CASE ExpireRunner(r, g)
  <2>1. /\ expiredCh' \in Seq(Requests) /\ Len(expiredCh') <= MaxQueue
        /\ refMu' \in [Requests -> Holding \cup {"free"}]
    BY <1>1, SendExpiredTypes DEF ExpireRunner, RunnerTypeOK, ChannelTypeOK, Holding
  <2> QED BY <1>1, <2>1 DEF ExpireRunner, RunnerTypeOK, Holding
<1>2. CASE SendHeld(r, g)
  BY <1>2, SendExpiredTypes DEF SendHeld, RunnerTypeOK, Holding
<1> QED BY <1>1, <1>2

-----------------------------------------------------------------------------
(* Every step keeps the types *)

\* A step of a handler or of a context watcher keeps the types.
LEMMA HandlerTypes ==
    ASSUME TypeOK, NEW q \in Requests, HandlerFrame,
           \/ Arrive(q) \/ CheckReload(q) \/ UseFound(q) \/ Enqueue(q)
           \/ Receive(q) \/ Finish(q) \/ Disconnect(q) \/ WatchDone(q)
    PROVE  TypeOK'
<1> USE DEF TypeOK, HandlerFrame, HandlerLocal, HandlerAt
<1>a. MapTypeOK' /\ TaskTypeOK' /\ PendTypeOK' /\ CompTypeOK' /\ ServerTypeOK'
  BY FrameTypes
<1>1. CASE Arrive(q)
  <2>1. ClientTypeOK'
    BY <1>1, RequestTypes DEF Arrive, ClientTypeOK, MapTypeOK
  <2> QED BY <1>a, <1>1, <2>1, FrameTypes DEF Arrive
<1>2. CASE CheckReload(q)
  <2>1. ClientTypeOK'
    BY <1>2 DEF CheckReload, ClientTypeOK
  <2> QED BY <1>a, <1>2, <2>1, FrameTypes DEF CheckReload
<1>3. CASE UseFound(q)
  <2>1. ClientTypeOK'
    BY <1>3 DEF UseFound, ClientTypeOK
  <2>2. RunnerTypeOK' /\ AnswerTypeOK'
    BY <1>3, UseTypes DEF UseFound, ClientTypeOK
  <2> QED BY <1>a, <1>3, <2>1, <2>2, FrameTypes DEF UseFound
<1>4. CASE Enqueue(q)
  <2>1. ClientTypeOK'
    BY <1>4 DEF Enqueue, ClientTypeOK
  <2>2. AnswerTypeOK'
    BY <1>4, AnswerTypes, FrameTypes DEF Enqueue
  <2>3. ChannelTypeOK'
    BY <1>4, SendTypes DEF Enqueue, ChannelTypeOK
  <2> QED BY <1>a, <1>4, <2>1, <2>2, <2>3, FrameTypes DEF Enqueue
<1>5. CASE Receive(q)
  <2>1. ClientTypeOK'
    BY <1>5 DEF Receive, ClientTypeOK
  <2> QED BY <1>a, <1>5, <2>1, FrameTypes DEF Receive
<1>6. CASE Finish(q)
  <2>1. ClientTypeOK'
    BY <1>6 DEF Finish, ClientTypeOK
  <2> QED BY <1>a, <1>6, <2>1, FrameTypes DEF Finish
<1>7. CASE Disconnect(q)
  <2>1. ClientTypeOK'
    BY <1>7 DEF Disconnect, ClientTypeOK
  <2> QED BY <1>a, <1>7, <2>1, FrameTypes DEF Disconnect
<1>8. CASE WatchDone(q)
  <2>1. AnswerTypeOK'
    BY <1>8 DEF WatchDone, AnswerTypeOK
  <2>2. ChannelTypeOK'
    BY <1>8, SendTypes DEF WatchDone, ChannelTypeOK
  <2> QED BY <1>a, <1>8, <2>1, <2>2, FrameTypes DEF WatchDone
<1> QED BY <1>1, <1>2, <1>3, <1>4, <1>5, <1>6, <1>7, <1>8

\* A step of processPending keeps the types.
LEMMA PendingTypes ==
    ASSUME TypeOK, PendingStep
    PROVE  TypeOK'
<1> USE DEF TypeOK, PendFrame, PendLocal, PendPlaces, PendHasRequest, PendHasRunner
<1>0. PendFrame
  BY DEF PendingStep
<1>a. ClientTypeOK' /\ CompTypeOK' /\ ServerTypeOK' /\ PendFrame
  BY <1>0, FrameTypes
<1>b. ASSUME PendDone PROVE PendTypeOK'
  <2>1. <<>> \in Seq(Requests) /\ maxRunners \in Nat
    BY DEF PendTypeOK
  <2> QED BY <1>b, <2>1 DEF PendDone, PendTypeOK
<1>c. ASSUME NEW p \in PendPlaces \ {"idle"}, NEW r \in Requests \cup {None}, PendAt(p, r),
             ppc \in PendHasRequest \/ p \in {"exit", "panic"},
             p \in PendHasRunner => r \in Requests
      PROVE  PendTypeOK'
  BY <1>c DEF PendAt, PendTypeOK
<1>1. CASE PendReceive
  <2>1. PendTypeOK'
    BY <1>1, <1>b, ReceiveTypes DEF PendReceive, PendTypeOK, ChannelTypeOK
  <2>2. ChannelTypeOK'
    BY <1>1, <1>a, ReceiveTypes DEF PendReceive, ChannelTypeOK
  <2> QED BY <1>a, <1>1, <2>1, <2>2, FrameTypes DEF PendReceive
<1>2. CASE PendDrain
  <2>1. ChannelTypeOK'
    BY <1>2, <1>a, LimitAssumption DEF PendDrain, ChannelTypeOK
  <2> QED BY <1>a, <1>b, <1>2, <2>1, FrameTypes DEF PendDrain
<1>3. CASE PendDecide
  <2>1. Key(preq) \in Keys /\ preq \in Requests
    BY <1>3, RequestTypes DEF PendDecide, PendTypeOK
  <2>2. loaded[Key(preq)] \in Requests \cup {None} /\ ppc \in PendHasRequest
    BY <1>3, <2>1 DEF PendDecide, MapTypeOK
  <2>3. ModelsPerGPU * (IF GPUs > 1 THEN GPUs ELSE 1) \in Nat
    BY LimitAssumption
  <2>4. \/ loaded[Key(preq)] # None /\ PendAt("check", loaded[Key(preq)])
        \/ PendAt("find", None)
        \/ /\ maxRunners' = IF maxRunners > 0 THEN maxRunners
                            ELSE ModelsPerGPU * (IF GPUs > 1 THEN GPUs ELSE 1)
           /\ pfull' \in BOOLEAN /\ ppc' \in {"mlx", "open"}
           /\ UNCHANGED <<preq, prun, plist>>
    BY <1>3 DEF PendDecide
  <2>5. PendTypeOK'
    BY <1>c, <2>1, <2>2, <2>3, <2>4 DEF PendTypeOK
  <2> QED BY <1>a, <1>3, <2>5, FrameTypes DEF PendDecide
<1>4. CASE PendCheck
  <2>1. PendTypeOK'
    BY <1>4 DEF PendCheck, PendAt, PendTypeOK
  <2> QED BY <1>a, <1>4, <2>1, FrameTypes DEF PendCheck
<1>5. CASE PendUse
  <2>1. RunnerTypeOK' /\ AnswerTypeOK'
    BY <1>5, UseTypes DEF PendUse, PendTypeOK
  <2> QED BY <1>a, <1>b, <1>5, <2>1, FrameTypes DEF PendUse
<1>6. CASE PendMLX \/ PendMLXInsert
  <2>1. preq \in Requests /\ Duration(preq) \in Nat /\ Key(preq) \in Keys
    BY <1>6, RequestTypes DEF PendMLX, PendMLXInsert, PendTypeOK
  <2>2. PendTypeOK'
    BY <1>6, <1>b, <1>c, <2>1 DEF PendMLX, PendMLXInsert
  <2>3. MapTypeOK' /\ AnswerTypeOK'
    BY <1>6, <2>1, AnswerTypes, FrameTypes DEF PendMLX, PendMLXInsert, MapTypeOK
  <2>4. RunnerTypeOK'
    BY <1>6, <2>1 DEF PendMLX, PendMLXInsert, RunnerTypeOK
  <2> QED BY <1>a, <1>6, <2>2, <2>3, <2>4, FrameTypes DEF PendMLX, PendMLXInsert
<1>7. CASE PendMLXTimer
  <2>1. PendTypeOK'
    BY <1>7 DEF PendMLXTimer, PendAt, PendTypeOK
  <2>2. RunnerTypeOK'
    BY <1>7 DEF PendMLXTimer, MLXTimer, RunnerTypeOK
  <2> QED BY <1>a, <1>7, <2>1, <2>2, FrameTypes DEF PendMLXTimer
<1>8. CASE PendOpen
  <2>1. preq \in Requests
    BY <1>8 DEF PendOpen, PendTypeOK
  <2>2. AnswerTypeOK'
    BY <1>8, <2>1, AnswerTypes, FrameTypes DEF PendOpen
  <2>3. PendTypeOK'
    BY <1>8, <1>b, <2>1, ListingTypes, LoadedTypes DEF PendOpen, PendTypeOK
  <2> QED BY <1>a, <1>8, <2>2, <2>3, FrameTypes DEF PendOpen
<1>9. CASE PendFree
  <2>1. plist # <<>> => Tail(plist) \in Seq(Requests)
    BY DEF PendTypeOK
  <2>2. PendTypeOK'
    BY <1>9, <1>c, <2>1 DEF PendFree, PendTypeOK
  <2> QED BY <1>a, <1>9, <2>2, FrameTypes DEF PendFree
<1>10. CASE PendStart
  <2>1. preq \in Requests
    BY <1>10 DEF PendStart, PendTypeOK
  <2>2. AnswerTypeOK'
    BY <1>10, <2>1, AnswerTypes, FrameTypes DEF PendStart
  <2>3. MapTypeOK'
    BY <1>10, <2>1 DEF PendStart, MapTypeOK
  <2>4. RunnerTypeOK'
    BY <1>10 DEF PendStart, RunnerTypeOK
  <2>5. PendTypeOK'
    <3>1. CASE PendDone
      BY <3>1, <1>b
    <3>2. CASE PendAt("load", preq)
      BY <3>2, <1>10, <1>c, <2>1 DEF PendStart
    <3>3. CASE /\ activeLoading # None
               /\ PendAt(IF Key(activeLoading) = Key(preq) THEN "load" ELSE "panic",
                         activeLoading)
      BY <3>3, <1>10, <1>c, <2>1 DEF PendStart, MapTypeOK
    <3> QED BY <1>10, <3>1, <3>2, <3>3 DEF PendStart
  <2> QED BY <1>a, <1>10, <2>2, <2>3, <2>4, <2>5, FrameTypes DEF PendStart
<1>11. CASE PendLoaded
  <2>1. /\ preq \in Requests /\ prun \in Requests
        /\ Duration(preq) \in Nat /\ Key(preq) \in Keys
    BY <1>11, RequestTypes DEF PendLoaded, PendTypeOK
  <2>2. MapTypeOK' /\ TaskTypeOK'
    BY <1>11, <1>a, <2>1 DEF PendLoaded, MapTypeOK, TaskTypeOK
  <2>3. RunnerTypeOK'
    BY <1>11, <2>1 DEF PendLoaded, RunnerTypeOK
  <2> QED BY <1>a, <1>b, <1>11, <2>2, <2>3, FrameTypes DEF PendLoaded
<1>12. CASE PendLoadFull
  <2>1. PendTypeOK'
    BY <1>12 DEF PendLoadFull, PendAt, PendTypeOK
  <2> QED BY <1>a, <1>12, <2>1, FrameTypes DEF PendLoadFull
<1>13. CASE PendLoadFailed
  <2>1. preq \in Requests
    BY <1>13 DEF PendLoadFailed, PendTypeOK
  <2>2. AnswerTypeOK'
    BY <1>13, <2>1, AnswerTypes, FrameTypes DEF PendLoadFailed
  <2>3. MapTypeOK'
    BY <1>13 DEF PendLoadFailed, MapTypeOK
  <2>4. RunnerTypeOK'
    BY <1>13 DEF PendLoadFailed, RunnerTypeOK
  <2>5. PendTypeOK'
    BY <1>13, <1>b, <1>c DEF PendLoadFailed
  <2> QED BY <1>a, <1>13, <2>2, <2>3, <2>4, <2>5, FrameTypes DEF PendLoadFailed
<1>14. CASE PendFind
  <2>1. CASE LoadedKeys = {} /\ PendAt("decide", None)
    BY <1>a, <1>c, <1>14, <2>1, FrameTypes DEF PendFind
  <2>2. CASE LoadedKeys # {}
    <3>1. /\ plist' \in Listings(LoadedRunners)
          /\ prun' = Head(plist') /\ ppc' = "scan" /\ UNCHANGED <<preq, pfull, maxRunners>>
      BY <1>14, <2>2 DEF PendFind
    <3>2. plist' \in Seq(Requests) /\ Head(plist') \in Requests
      BY <3>1, <2>2, ListingTypes, LoadedTypes
    <3>3. PendTypeOK'
      BY <1>14, <3>1, <3>2 DEF PendFind, PendTypeOK
    <3> QED BY <1>a, <1>14, <3>3, FrameTypes DEF PendFind
  <2> QED BY <1>14, <2>1, <2>2 DEF PendFind
<1>15. CASE PendScan
  <2>1. /\ plist # <<>> => Head(plist) \in Requests /\ Tail(plist) \in Seq(Requests)
        /\ prun \in Requests
    BY <1>15 DEF PendScan, PendTypeOK
  <2>2. PendTypeOK'
    <3>1. CASE plist = <<>>
      BY <1>15, <1>c, <2>1, <3>1 DEF PendScan
    <3>2. CASE plist # <<>> /\ PendAt("expire", Head(plist))
      BY <1>15, <1>c, <2>1, <3>2 DEF PendScan
    <3>3. CASE plist # <<>> /\ plist' = Tail(plist) /\ UNCHANGED <<ppc, preq, prun, pfull, maxRunners>>
      BY <1>15, <2>1, <3>3 DEF PendScan, PendTypeOK
    <3> QED BY <1>15, <3>1, <3>2, <3>3 DEF PendScan
  <2> QED BY <1>a, <1>15, <2>2, FrameTypes DEF PendScan
<1>16. CASE PendExpire
  <2>1. prun \in Requests /\ "pending" \in Holding
    BY <1>16 DEF PendExpire, PendTypeOK, Holding
  <2>2. PendTypeOK'
    BY <1>16 DEF PendExpire, PendAt, PendTypeOK
  <2>3. /\ RunnerTypeOK'
        /\ expiredCh' \in Seq(Requests) /\ Len(expiredCh') <= MaxQueue
    BY <1>16, <2>1, ExpireTypes DEF PendExpire
  <2>4. ChannelTypeOK'
    BY <1>a, <1>16, <2>3 DEF PendExpire, ChannelTypeOK
  <2> QED BY <1>a, <1>16, <2>2, <2>3, <2>4, FrameTypes DEF PendExpire
<1>17. CASE PendWaitUnload
  <2>1. ChannelTypeOK'
    BY <1>a, <1>17, LimitAssumption DEF PendWaitUnload, ChannelTypeOK
  <2>2. PendTypeOK'
    BY <1>17 DEF PendWaitUnload, PendAt, PendTypeOK
  <2> QED BY <1>a, <1>17, <2>1, <2>2, FrameTypes DEF PendWaitUnload
<1>18. CASE PendExit
  <2>1. PendTypeOK'
    BY <1>18 DEF PendExit, PendAt, PendTypeOK
  <2> QED BY <1>a, <1>18, <2>1, FrameTypes DEF PendExit
<1> QED
  BY <1>1, <1>2, <1>3, <1>4, <1>5, <1>6, <1>7, <1>8, <1>9, <1>10, <1>11, <1>12, <1>13,
     <1>14, <1>15, <1>16, <1>17, <1>18 DEF PendingStep

\* A step of a loader, a timer or a re-queued expiration keeps the types.
LEMMA RunnerTypes ==
    ASSUME TypeOK, NEW r \in Requests, RunnerFrame,
           \/ LoaderOK(r) \/ LoaderFail(r) \/ LoaderExpire(r) \/ TimerFire(r)
           \/ TimerSend(r) \/ TimerSendHeld(r) \/ Resend(r)
    PROVE  TypeOK'
<1> USE DEF TypeOK, RunnerFrame
<1>a. ClientTypeOK' /\ MapTypeOK' /\ PendTypeOK' /\ CompTypeOK' /\ ServerTypeOK'
  BY FrameTypes
<1>b. "loader" \in Holding /\ "timer" \in Holding
  BY DEF Holding
<1>1. CASE LoaderOK(r)
  <2>1. refCount' \in [Requests -> 0..RefMax]
    BY <1>1, CountTypes DEF LoaderOK, RunnerTypeOK
  <2>2. RunnerTypeOK'
    BY <1>1, <2>1 DEF LoaderOK, RunnerTypeOK
  <2>3. AnswerTypeOK'
    BY <1>1, AnswerTypes DEF LoaderOK
  <2>4. TaskTypeOK'
    BY <1>1 DEF LoaderOK, TaskTypeOK
  <2> QED BY <1>a, <1>1, <2>2, <2>3, <2>4, FrameTypes DEF LoaderOK
<1>2. CASE LoaderFail(r)
  <2>1. AnswerTypeOK'
    BY <1>2, AnswerTypes DEF LoaderFail
  <2>2. TaskTypeOK'
    BY <1>2 DEF LoaderFail, TaskTypeOK
  <2> QED BY <1>a, <1>2, <2>1, <2>2, FrameTypes DEF LoaderFail
<1>3. CASE LoaderExpire(r)
  <2>1. /\ RunnerTypeOK'
        /\ expiredCh' \in Seq(Requests) /\ Len(expiredCh') <= MaxQueue
    BY <1>b, <1>3, ExpireTypes DEF LoaderExpire
  <2>2. ChannelTypeOK'
    BY <2>1 DEF ChannelTypeOK
  <2>3. TaskTypeOK'
    BY <1>3 DEF LoaderExpire, TaskTypeOK
  <2> QED BY <1>a, <1>3, <2>1, <2>2, <2>3, FrameTypes DEF LoaderExpire
<1>4. CASE TimerFire(r)
  <2>1. RunnerTypeOK'
    BY <1>4 DEF TimerFire, RunnerTypeOK
  <2>2. TaskTypeOK'
    BY <1>4 DEF TimerFire, TaskTypeOK
  <2> QED BY <1>a, <1>4, <2>1, <2>2, FrameTypes DEF TimerFire
<1>5. CASE TimerSend(r)
  <2>1. /\ expiredCh' \in Seq(Requests) /\ Len(expiredCh') <= MaxQueue
        /\ refMu' \in [Requests -> Holding \cup {"free"}]
    BY <1>b, <1>5, SendExpiredTypes DEF TimerSend
  <2>2. RunnerTypeOK'
    BY <1>5, <2>1 DEF TimerSend, RunnerTypeOK, Holding
  <2>3. ChannelTypeOK'
    BY <2>1 DEF ChannelTypeOK
  <2>4. TaskTypeOK'
    BY <1>5 DEF TimerSend, TaskTypeOK
  <2> QED BY <1>a, <1>5, <2>2, <2>3, <2>4, FrameTypes DEF TimerSend
<1>6. CASE TimerSendHeld(r)
  <2>1. /\ RunnerTypeOK'
        /\ expiredCh' \in Seq(Requests) /\ Len(expiredCh') <= MaxQueue
    BY <1>b, <1>6, ExpireTypes DEF TimerSendHeld
  <2>2. ChannelTypeOK'
    BY <2>1 DEF ChannelTypeOK
  <2> QED BY <1>a, <1>6, <2>1, <2>2, FrameTypes DEF TimerSendHeld
<1>7. CASE Resend(r)
  <2>1. ChannelTypeOK'
    BY <1>7, SendTypes DEF Resend, ChannelTypeOK
  <2>2. TaskTypeOK'
    BY <1>7 DEF Resend, TaskTypeOK
  <2> QED BY <1>a, <1>7, <2>1, <2>2, FrameTypes DEF Resend
<1> QED BY <1>1, <1>2, <1>3, <1>4, <1>5, <1>6, <1>7

\* A step of processCompleted keeps the types.
LEMMA CompletedTypes ==
    ASSUME TypeOK, CompletedStep
    PROVE  TypeOK'
<1> USE DEF TypeOK, CompFrame
<1>0. CompFrame
  BY DEF CompletedStep, FinishedStep
<1>a. ClientTypeOK' /\ AnswerTypeOK' /\ PendTypeOK' /\ ServerTypeOK'
  BY <1>0, FrameTypes
<1>b. ASSUME UNCHANGED <<proc, refCount, timer, refMu, unloaded>> PROVE RunnerTypeOK'
  BY <1>0, <1>b, FrameTypes
<1>c. ASSUME UNCHANGED loaded PROVE MapTypeOK'
  BY <1>0, <1>c, FrameTypes
<1>d. ASSUME UNCHANGED resend PROVE TaskTypeOK'
  BY <1>0, <1>d, FrameTypes
<1>e. ASSUME UNCHANGED <<finishedReqCh, expiredCh, unloadedCh>> PROVE ChannelTypeOK'
  BY <1>0, <1>e, FrameTypes
<1>f. CompAt("idle", None) => CompTypeOK'
  BY DEF CompAt, CompTypeOK
<1>g. ASSUME NEW r \in Requests, Unload(r), UNCHANGED refCount, 
             refMu' \in [Requests -> Holding \cup {"free"}]
      PROVE  RunnerTypeOK'
  BY <1>0, <1>g DEF Unload, RunnerTypeOK, Holding
<1>1. CASE CompReceiveFinished
  <2>1. /\ Head(finishedReqCh) \in Requests
        /\ Tail(finishedReqCh) \in Seq(Requests) /\ Len(Tail(finishedReqCh)) <= MaxQueue
    BY <1>1, ReceiveTypes DEF CompReceiveFinished, ChannelTypeOK
  <2>2. loaded[Key(Head(finishedReqCh))] \in Requests \cup {None}
    BY <2>1, RequestTypes DEF MapTypeOK
  <2>3. ChannelTypeOK'
    BY <1>0, <1>1, <2>1 DEF CompReceiveFinished, ChannelTypeOK
  <2>4. CompTypeOK'
    BY <1>1, <2>2 DEF CompReceiveFinished, CompAt, CompTypeOK
  <2> QED BY <1>a, <1>b, <1>c, <1>d, <1>1, <2>3, <2>4 DEF CompReceiveFinished
<1>2. CASE CompFinish
  <2>1. crun \in Requests /\ "completed" \in Holding
    BY <1>2 DEF CompFinish, CompTypeOK, Holding
  <2>2. refCount' \in [Requests -> 0..RefMax]
    BY <1>2, <2>1, CountTypes DEF CompFinish, RunnerTypeOK
  <2>3. timer' \in [Requests -> {"nil", "armed", "spent", "mlxArmed", "mlxSpent"}]
    BY <1>2, <2>1 DEF CompFinish, RunnerTypeOK, Timer, MLXTimer
  <2>4. /\ expiredCh' \in Seq(Requests) /\ Len(expiredCh') <= MaxQueue
        /\ refMu' \in [Requests -> Holding \cup {"free"}]
    <3>1. CASE UNCHANGED <<expiredCh, refMu>>
      BY <3>1 DEF RunnerTypeOK, ChannelTypeOK, Holding
    <3>2. CASE SendExpired(crun, "completed")
      BY <3>2, <2>1, SendExpiredTypes
    <3> QED BY <1>2, <3>1, <3>2 DEF CompFinish
  <2>5. RunnerTypeOK'
    BY <1>0, <1>2, <2>2, <2>3, <2>4 DEF CompFinish, RunnerTypeOK, Holding
  <2>6. ChannelTypeOK'
    BY <1>0, <1>2, <2>4 DEF CompFinish, ChannelTypeOK
  <2>7. CompTypeOK'
    <3>1. CompAt("idle", None) \/ CompAt("stuck", crun)
      BY <1>2 DEF CompFinish
    <3> QED BY <1>f, <2>1, <3>1 DEF CompAt, CompTypeOK
  <2> QED BY <1>a, <1>c, <1>d, <1>2, <2>5, <2>6, <2>7 DEF CompFinish
<1>3. CASE CompReceiveExpired
  <2>1. /\ Head(expiredCh) \in Requests
        /\ Tail(expiredCh) \in Seq(Requests) /\ Len(Tail(expiredCh)) <= MaxQueue
    BY <1>3, ReceiveTypes DEF CompReceiveExpired, ChannelTypeOK
  <2>2. ChannelTypeOK'
    BY <1>0, <1>3, <2>1 DEF CompReceiveExpired, ChannelTypeOK
  <2>3. CompTypeOK'
    BY <1>3, <2>1 DEF CompReceiveExpired, CompAt, CompTypeOK
  <2> QED BY <1>a, <1>b, <1>c, <1>d, <1>3, <2>2, <2>3 DEF CompReceiveExpired
<1>4. CASE CompBusy
  <2>1. crun \in Requests
    BY <1>4 DEF CompBusy, CompTypeOK
  <2>2. TaskTypeOK'
    BY <1>0, <1>4, <2>1 DEF CompBusy, TaskTypeOK
  <2> QED BY <1>a, <1>b, <1>c, <1>e, <1>f, <1>4, <2>2 DEF CompBusy
<1>5. CASE CompDuplicate
  BY <1>a, <1>b, <1>c, <1>d, <1>e, <1>f, <1>5 DEF CompDuplicate
<1>6. CASE CompOrphan
  <2>1. crun \in Requests /\ refMu' \in [Requests -> Holding \cup {"free"}]
    BY <1>6 DEF CompOrphan, CompTypeOK, RunnerTypeOK, Holding
  <2>2. RunnerTypeOK'
    BY <1>g, <1>6, <2>1 DEF CompOrphan
  <2> QED BY <1>a, <1>c, <1>d, <1>e, <1>f, <1>6, <2>2 DEF CompOrphan
<1>7. CASE CompUnload
  <2>1. crun \in Requests /\ refMu' \in [Requests -> Holding \cup {"free"}]
    BY <1>7 DEF CompUnload, CompTypeOK, RunnerTypeOK, Holding
  <2>2. RunnerTypeOK'
    BY <1>g, <1>7, <2>1 DEF CompUnload
  <2>3. MapTypeOK'
    BY <1>0, <1>7 DEF CompUnload, MapTypeOK
  <2>4. CompTypeOK'
    BY <1>7, <2>1 DEF CompUnload, CompAt, CompTypeOK
  <2> QED BY <1>a, <1>d, <1>e, <1>7, <2>2, <2>3, <2>4 DEF CompUnload
<1>8. CASE CompRecovered
  <2>1. RunnerTypeOK'
    BY <1>0, <1>8 DEF CompRecovered, RunnerTypeOK
  <2>2. CompTypeOK'
    BY <1>8 DEF CompRecovered, CompAt, CompTypeOK
  <2> QED BY <1>a, <1>c, <1>d, <1>e, <1>8, <2>1, <2>2 DEF CompRecovered
<1>9. CASE CompNotify
  <2>1. ChannelTypeOK'
    BY <1>0, <1>9, LimitAssumption DEF CompNotify, ChannelTypeOK
  <2> QED BY <1>a, <1>b, <1>c, <1>d, <1>f, <1>9, <2>1 DEF CompNotify
<1>10. CASE CompExit
  <2>1. CompTypeOK'
    BY <1>10 DEF CompExit, CompAt, CompTypeOK
  <2> QED BY <1>a, <1>b, <1>c, <1>d, <1>e, <1>10, <2>1 DEF CompExit
<1> QED
  BY <1>1, <1>2, <1>3, <1>4, <1>5, <1>6, <1>7, <1>8, <1>9, <1>10
     DEF CompletedStep, FinishedStep

\* An unload request, a deletion and a shutdown keep the types.
LEMMA ServerTypes ==
    ASSUME TypeOK, StopStep \/ ServerStep
    PROVE  TypeOK'
<1> USE DEF TypeOK, ServerFrame
<1>0. ServerFrame
  BY DEF StopStep, ServerStep
<1>a. ClientTypeOK' /\ AnswerTypeOK' /\ TaskTypeOK' /\ PendTypeOK' /\ CompTypeOK'
  BY <1>0, FrameTypes
<1>b. ASSUME UNCHANGED <<activeLoading, runnerVars, expiredCh>>
      PROVE  MapTypeOK' /\ RunnerTypeOK' /\ ChannelTypeOK'
  BY <1>0, <1>b, FrameTypes
<1>1. CASE StopExpire
  <2>1. srun \in Requests /\ "stop" \in Holding
    BY <1>1 DEF StopExpire, ServerTypeOK, Holding
  <2>2. /\ RunnerTypeOK'
        /\ expiredCh' \in Seq(Requests) /\ Len(expiredCh') <= MaxQueue
    BY <1>1, <2>1, ExpireTypes DEF StopExpire
  <2>3. ChannelTypeOK'
    BY <1>0, <2>2 DEF ChannelTypeOK
  <2>4. ServerTypeOK'
    BY <1>1, <2>1 DEF StopExpire, ServerTypeOK
  <2> QED BY <1>0, <1>a, <1>1, <2>2, <2>3, <2>4, FrameTypes DEF StopExpire
<1>2. ASSUME NEW k \in Keys, StopLookup(k) PROVE TypeOK'
  <2>1. ServerTypeOK'
    BY <1>2, LimitAssumption DEF StopLookup, ServerTypeOK, MapTypeOK
  <2> QED BY <1>a, <1>b, <1>2, <2>1 DEF StopLookup
<1>3. ASSUME NEW k \in Keys, DeleteModel(k) PROVE TypeOK'
  <2>1. ServerTypeOK'
    BY <1>3 DEF DeleteModel, ServerTypeOK
  <2> QED BY <1>a, <1>b, <1>3, <2>1 DEF DeleteModel
<1>4. CASE Shutdown
  <2>1. ServerTypeOK'
    BY <1>4 DEF Shutdown, ServerTypeOK
  <2> QED BY <1>a, <1>b, <1>4, <2>1 DEF Shutdown
<1>5. CASE UnloadAllRunners
  <2>1. ServerTypeOK'
    BY <1>5 DEF UnloadAllRunners, ServerTypeOK
  <2>2. RunnerTypeOK'
    BY <1>5 DEF UnloadAllRunners, RunnerTypeOK
  <2>3. MapTypeOK'
    BY <1>0, <1>5 DEF UnloadAllRunners, MapTypeOK
  <2> QED BY <1>0, <1>a, <1>5, <2>1, <2>2, <2>3, FrameTypes DEF UnloadAllRunners
<1> QED
  BY <1>1, <1>2, <1>3, <1>4, <1>5 DEF StopStep, ServerStep

\* Every step keeps the types.
LEMMA NextTypes ==
    ASSUME TypeOK, [Next]_vars
    PROVE  TypeOK'
<1>1. CASE UNCHANGED vars
  BY <1>1, FrameTypes DEF vars, TypeOK
<1>2. ASSUME NEW q \in Requests, HandlerStep(q) \/ ClientStep(q) \/ WatcherStep(q)
      PROVE  TypeOK'
  BY <1>2, HandlerTypes DEF HandlerStep, ClientStep, WatcherStep
<1>3. ASSUME NEW q \in Requests,
             LoaderStep(q) \/ TimerStep(q) \/ CallbackStep(q) \/ ResendStep(q)
      PROVE  TypeOK'
  BY <1>3, RunnerTypes DEF LoaderStep, TimerStep, CallbackStep, ResendStep
<1> QED
  BY <1>1, <1>2, <1>3, PendingTypes, CompletedTypes, ServerTypes DEF Next

\* InitScheduler establishes the types.
LEMMA InitTypes == Init => TypeOK
<1> SUFFICES ASSUME Init PROVE TypeOK
  OBVIOUS
<1> USE DEF Init
<1>1. ClientTypeOK BY DEF ClientTypeOK
<1>2. AnswerTypeOK BY DEF AnswerTypeOK
<1>3. MapTypeOK BY DEF MapTypeOK
<1>4. RunnerTypeOK BY RefAssumption DEF RunnerTypeOK
<1>5. TaskTypeOK BY DEF TaskTypeOK
<1>6. ChannelTypeOK
  <2>1. <<>> \in Seq(Requests) /\ Len(<<>>) = 0
    BY EmptySeq
  <2> QED BY <2>1, LimitAssumption DEF ChannelTypeOK
<1>7. PendTypeOK
  <2>1. <<>> \in Seq(Requests)
    BY EmptySeq
  <2> QED BY <2>1, LimitAssumption DEF PendTypeOK, PendPlaces, PendHasRequest, PendHasRunner
<1>8. CompTypeOK BY DEF CompTypeOK
<1>9. ServerTypeOK
  <2>1. stops \in 0..MaxStops
    BY LimitAssumption
  <2> QED BY <2>1 DEF ServerTypeOK
<1> QED BY <1>1, <1>2, <1>3, <1>4, <1>5, <1>6, <1>7, <1>8, <1>9 DEF TypeOK

\* Type correctness of the scheduler: for any number of requests, models, GPUs
\* and queue slots, every variable keeps its type, no channel holds more than
\* MaxQueue elements, and every goroutine has the runner it dereferences.
THEOREM TypeCorrect == Spec => []TypeOK
BY InitTypes, NextTypes, PTL DEF Spec

-----------------------------------------------------------------------------
(* At most one answer.  The inductive invariant is that of OneOwner: the   *)
(* goroutine that answers a request owns it, and gives it up as it answers. *)

\* What a send adds to a queue, and that it adds no duplicate.
LEMMA SendRange ==
    ASSUME NEW s \in Seq(Requests), NEW r \in Requests
    PROVE  /\ Range(Append(s, r)) = Range(s) \cup {r}
           /\ IsInjective(s) /\ r \notin Range(s) => IsInjective(Append(s, r))
<1> DEFINE t == Append(s, r)
<1>1. /\ DOMAIN s = 1..Len(s) /\ Len(s) \in Nat
      /\ DOMAIN t = 1..(Len(s) + 1) /\ t[Len(s) + 1] = r
      /\ \A i \in 1..Len(s) : t[i] = s[i]
  OBVIOUS
<1> HIDE DEF t
<1>2. Range(t) = Range(s) \cup {r}
  <2>1. DOMAIN t = (DOMAIN s) \cup {Len(s) + 1}
    BY <1>1
  <2> QED BY <1>1, <2>1 DEF Range
<1>3. ASSUME IsInjective(s), r \notin Range(s) PROVE IsInjective(t)
  BY <1>1, <1>3 DEF IsInjective, Range
<1> QED BY <1>2, <1>3 DEF t

\* What a receive takes from a queue.
LEMMA ReceiveRange ==
    ASSUME NEW s \in Seq(Requests), s # <<>>
    PROVE  /\ Head(s) \in Range(s) /\ Range(Tail(s)) \subseteq Range(s)
           /\ IsInjective(s) => IsInjective(Tail(s)) /\ Head(s) \notin Range(Tail(s))
<1> DEFINE t == Tail(s)
<1>1. /\ DOMAIN s = 1..Len(s) /\ Len(s) \in Nat \ {0} /\ Head(s) = s[1]
      /\ DOMAIN t = 1..(Len(s) - 1)
      /\ \A i \in DOMAIN t : t[i] = s[i + 1] /\ i + 1 \in DOMAIN s
  OBVIOUS
<1> HIDE DEF t
<1>2. Head(s) \in Range(s) /\ Range(t) \subseteq Range(s)
  BY <1>1 DEF Range
<1>3. ASSUME IsInjective(s) PROVE IsInjective(t) /\ Head(s) \notin Range(t)
  BY <1>1, <1>3 DEF IsInjective, Range
<1> QED BY <1>2, <1>3 DEF t

\* What answering does to the counts.
LEMMA AnswerCounts ==
    ASSUME TypeOK, NEW q \in Requests, NEW r, AnswerError(q) \/ AnswerRunner(q, r),
           NEW x \in Requests
    PROVE  sent'[x] = IF x = q THEN sent[q] + 1 ELSE sent[x]
BY DEF AnswerError, AnswerRunner, TypeOK, AnswerTypeOK

\* Some goroutine owns q; at most one does; no other one does after a step.
Owned(q) == HandlerOwns(q) \/ QueueOwns(q) \/ PendingOwns(q) \/ LoaderOwns(q)
Exclusive(q) ==
    /\ HandlerOwns(q) => ~QueueOwns(q) /\ ~PendingOwns(q) /\ ~LoaderOwns(q)
    /\ QueueOwns(q) => ~PendingOwns(q) /\ ~LoaderOwns(q)
    /\ PendingOwns(q) => ~LoaderOwns(q)
NoNewOwner(q) ==
    /\ HandlerOwns(q)' => HandlerOwns(q)
    /\ QueueOwns(q)' => QueueOwns(q)
    /\ PendingOwns(q)' => PendingOwns(q)
    /\ LoaderOwns(q)' => LoaderOwns(q)

\* The inductive invariant.
AnswerInv == TypeOK /\ OneOwner /\ AtMostOneAnswer

\* A step without a new owner and without an answer.
LEMMA OwnerKept ==
    ASSUME AnswerInv, TypeOK', IsInjective(pendingReqCh)', UNCHANGED sent,
           \A q \in Requests : NoNewOwner(q)
    PROVE  AnswerInv'
<1>1. OneOwner'
  BY DEF AnswerInv, OneOwner, NoNewOwner
<1>2. AtMostOneAnswer'
  BY DEF AnswerInv, AtMostOneAnswer
<1> QED BY <1>1, <1>2 DEF AnswerInv

\* A step in which the owner of x answers it or hands it over.
LEMMA OwnerActs ==
    ASSUME AnswerInv, TypeOK', IsInjective(pendingReqCh)', NEW x \in Requests, Owned(x),
           \A q \in Requests \ {x} : NoNewOwner(q) /\ sent'[q] = sent[q],
           \/ ~Owned(x)' /\ sent'[x] = sent[x] + 1
           \/ Exclusive(x)' /\ sent'[x] = sent[x]
    PROVE  AnswerInv'
<1>1. sent[x] = 0
  BY DEF AnswerInv, OneOwner, Owned
<1>2. OneOwner'
  <2>1. ASSUME NEW q \in Requests PROVE Exclusive(q)' /\ (Owned(q)' => sent'[q] = 0)
    <3>1. CASE q = x
      BY <1>1, <3>1 DEF Owned, Exclusive
    <3>2. CASE q # x
      BY <3>2 DEF AnswerInv, OneOwner, NoNewOwner, Owned, Exclusive
    <3> QED BY <3>1, <3>2
  <2> QED BY <2>1 DEF OneOwner, Owned, Exclusive
<1>3. AtMostOneAnswer'
  BY <1>1 DEF AnswerInv, AtMostOneAnswer
<1> QED BY <1>2, <1>3 DEF AnswerInv

\* A handler answers its own request, hands it to the queue or leaves it alone.
LEMMA HandlerOwners ==
    ASSUME AnswerInv, TypeOK', NEW q \in Requests, HandlerFrame,
           \/ Arrive(q) \/ CheckReload(q) \/ UseFound(q) \/ Enqueue(q)
           \/ Receive(q) \/ Finish(q) \/ Disconnect(q) \/ WatchDone(q)
    PROVE  AnswerInv'
<1> USE DEF HandlerFrame, HandlerLocal, HandlerAt
<1>a. /\ TypeOK /\ ClientTypeOK /\ pendingReqCh \in Seq(Requests)
      /\ IsInjective(pendingReqCh) /\ Exclusive(q)
  BY DEF AnswerInv, TypeOK, ChannelTypeOK, OneOwner, Exclusive
<1>b. \A x \in Requests : /\ PendingOwns(x)' = PendingOwns(x)
                          /\ LoaderOwns(x)' = LoaderOwns(x)
  BY DEF PendingOwns, LoaderOwns
<1>c. UNCHANGED pendingReqCh =>
         IsInjective(pendingReqCh)' /\ \A x \in Requests : QueueOwns(x)' = QueueOwns(x)
  BY <1>a DEF QueueOwns
<1>d. \A x \in Requests \ {q} : HandlerOwns(x)' = HandlerOwns(x)
  <2>1. \A x \in Requests \ {q} : hpc'[x] = hpc[x]
    BY <1>a DEF Arrive, CheckReload, UseFound, Enqueue, Receive, Finish, Disconnect,
                WatchDone, ClientTypeOK
  <2> QED BY <2>1 DEF HandlerOwns
<1>1. CASE Arrive(q) \/ CheckReload(q)
  <2>1. HandlerOwns(q)
    BY <1>1 DEF Arrive, CheckReload, HandlerOwns
  <2>2. UNCHANGED <<sent, pendingReqCh>>
    BY <1>1 DEF Arrive, CheckReload
  <2> QED BY <1>b, <1>c, <1>d, <2>1, <2>2, OwnerKept DEF NoNewOwner
<1>2. CASE Receive(q) \/ Finish(q) \/ Disconnect(q) \/ WatchDone(q)
  <2>1. HandlerOwns(q)' => HandlerOwns(q)
    BY <1>a, <1>2 DEF Receive, Finish, Disconnect, WatchDone, HandlerOwns, ClientTypeOK
  <2>2. UNCHANGED <<sent, pendingReqCh>>
    BY <1>2 DEF Receive, Finish, Disconnect, WatchDone
  <2> QED BY <1>b, <1>c, <1>d, <2>1, <2>2, OwnerKept DEF NoNewOwner
<1>3. CASE UseFound(q) \/ Enqueue(q)
  <2>1. HandlerOwns(q) /\ ~HandlerOwns(q)'
    BY <1>a, <1>3 DEF UseFound, Enqueue, HandlerOwns, ClientTypeOK
  <2>2. CASE UNCHANGED pendingReqCh /\ (AnswerError(q) \/ AnswerRunner(q, found[q]))
    <3>1. \A x \in Requests : sent'[x] = IF x = q THEN sent[q] + 1 ELSE sent[x]
      BY <1>a, <2>2, AnswerCounts
    <3>2. ~Owned(q)'
      BY <1>a, <1>b, <1>c, <2>1, <2>2 DEF Owned, Exclusive
    <3> QED BY <1>b, <1>c, <1>d, <2>1, <2>2, <3>1, <3>2, OwnerActs DEF NoNewOwner, Owned
  <2>3. CASE pendingReqCh' = Append(pendingReqCh, q) /\ UNCHANGED answerVars
    <3>1. q \notin Range(pendingReqCh)
      BY <1>a, <2>1 DEF Exclusive, QueueOwns
    <3>2. /\ IsInjective(pendingReqCh)'
          /\ \A x \in Requests \ {q} : QueueOwns(x)' = QueueOwns(x)
      BY <1>a, <2>3, <3>1, SendRange DEF QueueOwns
    <3>3. Exclusive(q)'
      BY <1>a, <1>b, <2>1 DEF Exclusive
    <3> QED BY <1>b, <1>d, <2>1, <2>3, <3>2, <3>3, OwnerActs DEF NoNewOwner, Owned
  <2> QED BY <1>3, <2>2, <2>3 DEF UseFound, UseLoadedRunner, Enqueue
<1> QED BY <1>1, <1>2, <1>3

\* processPending takes the head of the queue, answers it, or hands it to a loader.
LEMMA PendingOwners ==
    ASSUME AnswerInv, TypeOK', PendingStep
    PROVE  AnswerInv'
<1>0. PendFrame
  BY DEF PendingStep
<1>a. /\ TypeOK /\ TaskTypeOK /\ PendTypeOK /\ pendingReqCh \in Seq(Requests)
      /\ IsInjective(pendingReqCh) /\ \A x \in Requests : Exclusive(x)
  BY DEF AnswerInv, TypeOK, ChannelTypeOK, OneOwner, Exclusive
<1>b. \A x \in Requests : HandlerOwns(x)' = HandlerOwns(x)
  BY <1>0 DEF PendFrame, HandlerOwns
<1>c. UNCHANGED pendingReqCh =>
         IsInjective(pendingReqCh)' /\ \A x \in Requests : QueueOwns(x)' = QueueOwns(x)
  BY <1>a DEF QueueOwns
<1>d. UNCHANGED loader => \A x \in Requests : LoaderOwns(x)' = LoaderOwns(x)
  BY DEF LoaderOwns
<1>e. PendDone => \A x \in Requests : ~PendingOwns(x)'
  BY DEF PendDone, PendingOwns, PendHasRequest
<1>f. ASSUME ppc \in PendHasRequest, UNCHANGED preq
      PROVE  \A x \in Requests : PendingOwns(x)' => PendingOwns(x)
  BY <1>f DEF PendingOwns
<1>g. ppc \in PendHasRequest => preq \in Requests /\ PendingOwns(preq)
  BY <1>a DEF PendTypeOK, PendingOwns
\* The pending request is answered and dropped.
<1>h. ASSUME ppc \in PendHasRequest, PendDone, UNCHANGED <<pendingReqCh, loader>>,
             AnswerError(preq) \/ AnswerRunner(preq, prun)
      PROVE  AnswerInv'
  <2>1. PICK q \in Requests : q = preq /\ PendingOwns(q)
    BY <1>g, <1>h
  <2>2. \A x \in Requests : sent'[x] = IF x = q THEN sent[q] + 1 ELSE sent[x]
    BY <1>a, <1>h, <2>1, AnswerCounts
  <2>3. ~Owned(q)'
    BY <1>a, <1>b, <1>c, <1>d, <1>e, <1>h, <2>1 DEF Owned, Exclusive
  <2> QED BY <1>b, <1>c, <1>d, <1>e, <1>h, <2>1, <2>2, <2>3, OwnerActs DEF NoNewOwner, Owned
\* The loop goes on with it.
<1>i. ASSUME ppc \in PendHasRequest \/ PendDone \/ ppc' \notin PendHasRequest,
             ppc \in PendHasRequest => UNCHANGED preq \/ PendDone,
             UNCHANGED <<pendingReqCh, loader, sent>>
      PROVE  AnswerInv'
  <2>1. \A x \in Requests : PendingOwns(x)' => PendingOwns(x)
    BY <1>e, <1>f, <1>i DEF PendingOwns
  <2> QED BY <1>b, <1>c, <1>d, <1>i, <2>1, OwnerKept DEF NoNewOwner
<1> USE DEF PendLocal, PendHasRequest, PendPlaces
<1>1. CASE PendReceive
  <2>0. PICK q \in Requests : q = Head(pendingReqCh)
    BY <1>1, <1>a DEF PendReceive
  <2>1. /\ QueueOwns(q) /\ ~QueueOwns(q)' /\ IsInjective(pendingReqCh)'
        /\ \A x \in Requests : QueueOwns(x)' => QueueOwns(x)
    BY <1>1, <1>a, <2>0, ReceiveRange DEF PendReceive, QueueOwns
  <2>2. UNCHANGED <<sent, loader>>
    BY <1>1 DEF PendReceive
  <2>3. CASE PendDone
    BY <1>b, <1>d, <1>e, <2>1, <2>2, <2>3, OwnerKept DEF NoNewOwner
  <2>4. CASE ppc' = "decide" /\ preq' = Head(pendingReqCh)
    <3>1. \A x \in Requests \ {q} : ~PendingOwns(x)'
      BY <2>0, <2>4 DEF PendingOwns
    <3>2. Exclusive(q)'
      BY <1>a, <1>b, <1>d, <2>1, <2>2 DEF Exclusive
    <3> QED BY <1>b, <1>d, <2>1, <2>2, <3>1, <3>2, OwnerActs DEF NoNewOwner, Owned
  <2> QED BY <1>1, <2>3, <2>4 DEF PendReceive
<1>2. CASE PendDrain
  BY <1>2, <1>i DEF PendDrain
<1>3. CASE PendDecide \/ PendCheck \/ PendMLXInsert \/ PendMLXTimer \/ PendFree
  <2>1. ppc \in PendHasRequest
    BY <1>3 DEF PendDecide, PendCheck, PendMLXInsert, PendMLXTimer, PendFree
  <2>2. UNCHANGED <<preq, pendingReqCh, loader, sent>>
    BY <1>3 DEF PendDecide, PendCheck, PendMLXInsert, PendMLXTimer, PendFree, PendAt
  <2> QED BY <1>i, <2>1, <2>2
<1>4. CASE PendLoadFull \/ PendFind \/ PendScan \/ PendExpire \/ PendWaitUnload
  <2>1. ppc \in PendHasRequest
    BY <1>4 DEF PendLoadFull, PendFind, PendScan, PendExpire, PendWaitUnload
  <2>2. UNCHANGED <<preq, pendingReqCh, loader, sent>>
    BY <1>4 DEF PendLoadFull, PendFind, PendScan, PendExpire, PendWaitUnload, PendAt
  <2> QED BY <1>i, <2>1, <2>2
<1>5. CASE PendExit
  BY <1>5, <1>i DEF PendExit, PendAt
<1>6. CASE PendUse
  BY <1>6, <1>h DEF PendUse, UseLoadedRunner
<1>7. CASE PendMLX \/ PendStart \/ PendOpen \/ PendLoadFailed
  <2>1. ppc \in PendHasRequest /\ UNCHANGED <<pendingReqCh, loader>>
    BY <1>7 DEF PendMLX, PendStart, PendOpen, PendLoadFailed
  <2>2. (AnswerError(preq) /\ PendDone) \/ UNCHANGED <<answerVars, preq>>
    BY <1>7 DEF PendMLX, PendStart, PendOpen, PendLoadFailed, PendAt
  <2> QED BY <1>h, <1>i, <2>1, <2>2
<1>8. CASE PendLoaded
  <2>1. PICK q \in Requests : q = preq /\ PendingOwns(q)
    BY <1>8, <1>g DEF PendLoaded
  <2>2. UNCHANGED <<sent, pendingReqCh>> /\ \A x \in Requests : ~PendingOwns(x)'
    BY <1>8, <1>e DEF PendLoaded
  <2>3. \A x \in Requests \ {q} : LoaderOwns(x)' = LoaderOwns(x)
    BY <1>8, <1>a, <2>1 DEF PendLoaded, LoaderOwns, TaskTypeOK
  <2>4. Exclusive(q)'
    BY <1>a, <1>b, <1>c, <2>1, <2>2 DEF Exclusive
  <2> QED BY <1>b, <1>c, <2>1, <2>2, <2>3, <2>4, OwnerActs DEF NoNewOwner, Owned
<1> QED
  BY <1>1, <1>2, <1>3, <1>4, <1>5, <1>6, <1>7, <1>8 DEF PendingStep

\* A loader answers the request it loads for; timers answer nothing.
LEMMA RunnerOwners ==
    ASSUME AnswerInv, TypeOK', NEW r \in Requests, RunnerFrame,
           \/ LoaderOK(r) \/ LoaderFail(r) \/ LoaderExpire(r) \/ TimerFire(r)
           \/ TimerSend(r) \/ TimerSendHeld(r) \/ Resend(r)
    PROVE  AnswerInv'
<1>a. TypeOK /\ TaskTypeOK /\ IsInjective(pendingReqCh)' /\ Exclusive(r)
  BY DEF AnswerInv, TypeOK, OneOwner, Exclusive, RunnerFrame
<1>b. \A x \in Requests : /\ HandlerOwns(x)' = HandlerOwns(x)
                          /\ QueueOwns(x)' = QueueOwns(x)
                          /\ PendingOwns(x)' = PendingOwns(x)
  BY DEF RunnerFrame, HandlerOwns, QueueOwns, PendingOwns
<1>1. CASE LoaderOK(r) \/ LoaderFail(r)
  <2>1. LoaderOwns(r) /\ ~LoaderOwns(r)'
    BY <1>a, <1>1 DEF LoaderOK, LoaderFail, LoaderOwns, TaskTypeOK
  <2>2. \A x \in Requests \ {r} : LoaderOwns(x)' = LoaderOwns(x)
    BY <1>a, <1>1 DEF LoaderOK, LoaderFail, LoaderOwns, TaskTypeOK
  <2>3. \A x \in Requests : sent'[x] = IF x = r THEN sent[r] + 1 ELSE sent[x]
    BY <1>a, <1>1, AnswerCounts DEF LoaderOK, LoaderFail
  <2>4. ~Owned(r)'
    BY <1>a, <1>b, <2>1 DEF Owned, Exclusive
  <2> QED BY <1>a, <1>b, <2>1, <2>2, <2>3, <2>4, OwnerActs DEF NoNewOwner, Owned
<1>2. CASE LoaderExpire(r)
  <2>1. \A x \in Requests : LoaderOwns(x)' => LoaderOwns(x)
    BY <1>a, <1>2 DEF LoaderExpire, LoaderOwns, TaskTypeOK
  <2> QED BY <1>a, <1>b, <1>2, <2>1, OwnerKept DEF NoNewOwner, LoaderExpire
<1>3. CASE TimerFire(r) \/ TimerSend(r) \/ TimerSendHeld(r) \/ Resend(r)
  <2>1. UNCHANGED <<loader, sent>>
    BY <1>3 DEF TimerFire, TimerSend, TimerSendHeld, Resend
  <2> QED BY <1>a, <1>b, <2>1, OwnerKept DEF NoNewOwner, LoaderOwns
<1> QED BY <1>1, <1>2, <1>3

\* Every step keeps the invariant; processCompleted and the rest of the server
\* own no request.
LEMMA NextOwners ==
    ASSUME AnswerInv, [Next]_vars
    PROVE  AnswerInv'
<1>a. TypeOK'
  BY NextTypes DEF AnswerInv
<1>1. CASE UNCHANGED <<hpc, pendingReqCh, ppc, preq, loader, sent>>
  <2>1. IsInjective(pendingReqCh)'
    BY <1>1 DEF AnswerInv, OneOwner
  <2>2. \A q \in Requests : NoNewOwner(q)
    BY <1>1 DEF NoNewOwner, HandlerOwns, QueueOwns, PendingOwns, LoaderOwns
  <2> QED BY <1>a, <1>1, <2>1, <2>2, OwnerKept
<1>2. CASE UNCHANGED vars
  BY <1>1, <1>2 DEF vars
<1>3. ASSUME NEW q \in Requests, HandlerStep(q) \/ ClientStep(q) \/ WatcherStep(q)
      PROVE  AnswerInv'
  BY <1>a, <1>3, HandlerOwners DEF HandlerStep, ClientStep, WatcherStep
<1>4. ASSUME NEW q \in Requests,
             LoaderStep(q) \/ TimerStep(q) \/ CallbackStep(q) \/ ResendStep(q)
      PROVE  AnswerInv'
  BY <1>a, <1>4, RunnerOwners DEF LoaderStep, TimerStep, CallbackStep, ResendStep
<1>5. CASE CompletedStep
  BY <1>1, <1>5 DEF CompletedStep, FinishedStep, CompFrame
<1>6. CASE StopStep \/ ServerStep
  BY <1>1, <1>6 DEF StopStep, ServerStep, ServerFrame
<1> QED
  BY <1>a, <1>2, <1>3, <1>4, <1>5, <1>6, PendingOwners DEF Next

\* InitScheduler: every request is its handler's.
LEMMA InitOwners == Init => AnswerInv
<1> SUFFICES ASSUME Init PROVE AnswerInv
  OBVIOUS
<1>1. /\ TypeOK /\ pendingReqCh = <<>> /\ ppc = "idle"
      /\ \A q \in Requests : sent[q] = 0 /\ loader[q] = "none"
  BY InitTypes DEF Init
<1>2. Range(pendingReqCh) = {} /\ IsInjective(pendingReqCh)
  BY <1>1 DEF Range, IsInjective
<1>3. \A q \in Requests : ~QueueOwns(q) /\ ~PendingOwns(q) /\ ~LoaderOwns(q)
  BY <1>1, <1>2 DEF QueueOwns, PendingOwns, LoaderOwns, PendHasRequest
<1> QED BY <1>1, <1>2, <1>3 DEF AnswerInv, OneOwner, AtMostOneAnswer

\* A request is never answered twice, whatever the interleaving of the fast
\* path, the queue, the retries after evictions and the loaders: no goroutine
\* ever blocks on successCh or errCh with refMu held.
THEOREM AnsweredOnce == Spec => []AtMostOneAnswer
<1>1. AnswerInv => AtMostOneAnswer
  BY DEF AnswerInv
<1> QED BY <1>1, InitOwners, NextOwners, PTL DEF Spec

\* A request is worked on by one goroutine at a time, and by none once it is
\* answered: the handler, the queue, the pending loop and the loader hand it
\* over and never share it.
THEOREM OwnedByOne == Spec => []OneOwner
<1>1. AnswerInv => OneOwner
  BY DEF AnswerInv
<1> QED BY <1>1, InitOwners, NextOwners, PTL DEF Spec

-----------------------------------------------------------------------------
(* The limit on the number of runners, and the map entries.  WithinMaxRunners *)
(* is not inductive: the runner is added long after the count was read.       *)
(* RoomReserved says why it still fits: only processPending adds to the map.  *)

\* The inductive invariant.
RoomInv ==
    TypeOK /\ RoomReserved /\ WithinMaxRunners /\ IsFiniteSet(LoadedKeys)

\* A step that takes at most something out of the map and does not move
\* processPending.
LEMMA RoomKept ==
    ASSUME RoomInv, TypeOK', UNCHANGED <<req, pendVars>>,
           \A k \in Keys : loaded'[k] \in {None, loaded[k]}
    PROVE  RoomInv'
<1>1. LoadedKeys' \in SUBSET LoadedKeys
  BY DEF LoadedKeys
<1>2. /\ IsFiniteSet(LoadedKeys)' /\ Cardinality(LoadedKeys)' <= Cardinality(LoadedKeys)
      /\ Cardinality(LoadedKeys) \in Nat /\ Cardinality(LoadedKeys)' \in Nat
  BY <1>1, FS_Subset, FS_CardinalityType DEF RoomInv
<1>3. maxRunners \in Nat /\ (ppc \in PendHasRoom => Key(preq) \in Keys)
  BY RequestTypes DEF RoomInv, TypeOK, PendTypeOK, PendHasRoom, PendHasRequest, PendPlaces
<1>4. WithinMaxRunners'
  BY <1>2, <1>3 DEF RoomInv, WithinMaxRunners
<1>5. RoomReserved'
  BY <1>1, <1>2, <1>3 DEF RoomInv, RoomReserved, Key
<1> QED BY <1>2, <1>4, <1>5 DEF RoomInv

\* processPending moves without touching the map: it gives the room up, keeps
\* it for the same request, or has just seen it.
LEMMA RoomMoves ==
    ASSUME RoomInv, TypeOK', UNCHANGED <<req, loaded>>,
           \/ ppc' \notin PendHasRoom /\ UNCHANGED maxRunners
           \/ ppc \in PendHasRoom /\ UNCHANGED <<preq, maxRunners>>
           \/ /\ preq \in Requests /\ loaded[Key(preq)] = None /\ UNCHANGED preq
              /\ maxRunners' > 0 /\ Cardinality(LoadedKeys) < maxRunners'
    PROVE  RoomInv'
<1>1. LoadedKeys' = LoadedKeys /\ Key(preq)' = req[preq'].key
  BY DEF LoadedKeys, Key
<1>2. Cardinality(LoadedKeys) \in Nat /\ maxRunners \in Nat /\ maxRunners' \in Nat
  BY FS_CardinalityType DEF RoomInv, TypeOK, PendTypeOK
<1>3. WithinMaxRunners' /\ RoomReserved'
  BY <1>1, <1>2 DEF RoomInv, RoomReserved, WithinMaxRunners, Key
<1> QED BY <1>1, <1>3 DEF RoomInv

\* processPending uses the room: an entry is added under a free key.
LEMMA RoomUsed ==
    ASSUME RoomInv, TypeOK', UNCHANGED <<req, maxRunners>>, ppc \in PendHasRoom,
           ppc' \notin PendHasRoom, preq \in Requests,
           loaded' = [loaded EXCEPT ![Key(preq)] = preq]
    PROVE  RoomInv' /\ \A k \in Keys : loaded[k] # None => loaded'[k] = loaded[k]
<1>1. /\ loaded \in [Keys -> Requests \cup {None}] /\ preq # None
      /\ Key(preq) \in Keys /\ maxRunners \in Nat
  BY RequestTypes, RequestsAssumption DEF RoomInv, TypeOK, MapTypeOK, PendTypeOK
<1>2. /\ loaded[Key(preq)] = None
      /\ maxRunners > 0 /\ Cardinality(LoadedKeys) < maxRunners
  BY DEF RoomInv, RoomReserved
<1>3. LoadedKeys' = LoadedKeys \cup {Key(preq)} /\ Key(preq) \notin LoadedKeys
  BY <1>1, <1>2 DEF LoadedKeys
<1>4. /\ IsFiniteSet(LoadedKeys)' /\ Cardinality(LoadedKeys)' = Cardinality(LoadedKeys) + 1
      /\ Cardinality(LoadedKeys) \in Nat
  BY <1>3, FS_AddElement, FS_CardinalityType DEF RoomInv
<1>5. WithinMaxRunners' /\ RoomReserved'
  BY <1>1, <1>2, <1>4 DEF WithinMaxRunners, RoomReserved
<1>6. \A k \in Keys : loaded[k] # None => loaded'[k] = loaded[k]
  BY <1>1, <1>2
<1> QED BY <1>4, <1>5, <1>6 DEF RoomInv

\* processPending adds a runner only where it has room, and replaces none.
LEMMA PendingRoom ==
    ASSUME RoomInv, TypeOK', PendingStep
    PROVE  RoomInv' /\ \A k \in Keys : loaded[k] # None => loaded'[k] = loaded[k]
<1>0. UNCHANGED req
  BY DEF PendingStep, PendFrame
<1>a. PendTypeOK /\ IsFiniteSet(LoadedKeys)
  BY DEF RoomInv, TypeOK
<1> USE DEF PendLocal, PendHasRoom
<1>1. CASE PendReceive \/ PendDrain \/ PendCheck \/ PendUse \/ PendMLXTimer
  <2>1. ppc' \notin PendHasRoom /\ UNCHANGED <<loaded, maxRunners>>
    BY <1>1 DEF PendReceive, PendDrain, PendCheck, PendUse, PendMLXTimer, PendAt, PendDone
  <2> QED BY <1>0, <2>1, RoomMoves
<1>2. CASE \/ PendLoadFull \/ PendLoadFailed \/ PendFind \/ PendScan \/ PendExpire
           \/ PendWaitUnload \/ PendExit
  <2>1. ppc' \notin PendHasRoom /\ UNCHANGED <<loaded, maxRunners>>
    BY <1>2 DEF PendLoadFull, PendLoadFailed, PendFind, PendScan, PendExpire,
                PendWaitUnload, PendExit, PendAt, PendDone
  <2> QED BY <1>0, <2>1, RoomMoves
<1>3. CASE PendDecide
  <2>1. preq \in Requests /\ UNCHANGED <<loaded, preq>>
    BY <1>3, <1>a DEF PendDecide, PendAt, PendTypeOK, PendHasRequest, PendPlaces
  <2>2. CASE ppc' \notin PendHasRoom /\ UNCHANGED maxRunners
    BY <1>0, <2>1, <2>2, RoomMoves
  <2>3. CASE /\ loaded[Key(preq)] = None /\ ~Full
             /\ maxRunners' = IF maxRunners > 0 THEN maxRunners
                              ELSE ModelsPerGPU * (IF GPUs > 1 THEN GPUs ELSE 1)
    <3>1. ModelsPerGPU * (IF GPUs > 1 THEN GPUs ELSE 1) \in Nat \ {0}
      BY LimitAssumption
    <3>2. maxRunners = 0 => Cardinality(LoadedKeys) = 0
      BY FS_EmptySet DEF RoomInv, RoomReserved
    <3>3. maxRunners \in Nat /\ Cardinality(LoadedKeys) \in Nat
      BY <1>a, FS_CardinalityType DEF PendTypeOK
    <3>4. maxRunners' > 0 /\ Cardinality(LoadedKeys) < maxRunners'
      BY <2>3, <3>1, <3>2, <3>3 DEF Full
    <3> QED BY <1>0, <2>1, <2>3, <3>4, RoomMoves
  <2> QED BY <1>3, <2>2, <2>3 DEF PendDecide, PendAt
<1>4. CASE PendMLX \/ PendOpen \/ PendFree \/ PendStart
  <2>1. ppc \in PendHasRoom /\ UNCHANGED <<loaded, maxRunners>>
    BY <1>4 DEF PendMLX, PendOpen, PendFree, PendStart, PendAt, PendDone
  <2>2. ppc' \notin PendHasRoom \/ UNCHANGED preq
    BY <1>4 DEF PendMLX, PendOpen, PendFree, PendStart, PendAt, PendDone
  <2> QED BY <1>0, <2>1, <2>2, RoomMoves
<1>5. CASE PendMLXInsert
  <2>1. /\ ppc \in PendHasRoom /\ ppc' \notin PendHasRoom /\ UNCHANGED maxRunners
        /\ loaded' = [loaded EXCEPT ![Key(preq)] = preq]
    BY <1>5 DEF PendMLXInsert, PendAt
  <2>2. preq \in Requests
    BY <1>5, <1>a DEF PendMLXInsert, PendTypeOK, PendHasRequest, PendPlaces
  <2> QED BY <1>0, <2>1, <2>2, RoomUsed
<1>6. CASE PendLoaded
  <2>1. /\ ppc \in PendHasRoom /\ ppc' \notin PendHasRoom /\ UNCHANGED maxRunners
        /\ loaded' = [loaded EXCEPT ![Key(preq)] = preq]
    BY <1>6 DEF PendLoaded, PendDone
  <2>2. preq \in Requests
    BY <1>6, <1>a DEF PendLoaded, PendTypeOK, PendHasRequest, PendPlaces
  <2> QED BY <1>0, <2>1, <2>2, RoomUsed
<1> QED
  BY <1>1, <1>2, <1>3, <1>4, <1>5, <1>6 DEF PendingStep

\* Every step keeps the invariant, and only takes entries out or adds new ones.
LEMMA NextRoom ==
    ASSUME RoomInv, [Next]_vars
    PROVE  /\ RoomInv'
           /\ \A k \in Keys : loaded[k] # None => loaded'[k] \in {None, loaded[k]}
<1>a. TypeOK' /\ MapTypeOK
  BY NextTypes DEF RoomInv, TypeOK
<1>1. ASSUME UNCHANGED <<req, pendVars>>, \A k \in Keys : loaded'[k] \in {None, loaded[k]}
      PROVE  RoomInv' /\ \A k \in Keys : loaded[k] # None => loaded'[k] \in {None, loaded[k]}
  BY <1>a, <1>1, RoomKept
<1>2. CASE UNCHANGED <<req, pendVars, loaded>>
  BY <1>1, <1>2
<1>3. CASE UNCHANGED vars
  BY <1>2, <1>3 DEF vars
<1>4. CASE \E q \in Requests : HandlerStep(q) \/ ClientStep(q) \/ WatcherStep(q)
  BY <1>2, <1>4 DEF HandlerStep, ClientStep, WatcherStep, HandlerFrame
<1>5. CASE \E q \in Requests : \/ LoaderStep(q) \/ TimerStep(q) \/ CallbackStep(q)
                               \/ ResendStep(q)
  BY <1>2, <1>5 DEF LoaderStep, TimerStep, CallbackStep, ResendStep, RunnerFrame
<1>6. CASE StopStep \/ ServerStep
  BY <1>2, <1>6 DEF StopStep, ServerStep, ServerFrame
<1>7. CASE CompletedStep
  <2>1. UNCHANGED <<req, pendVars>>
    BY <1>7 DEF CompletedStep, FinishedStep, CompFrame
  <2>2. UNCHANGED loaded \/ loaded' = [loaded EXCEPT ![Key(crun)] = None]
    BY <1>7 DEF CompletedStep, FinishedStep, CompReceiveFinished, CompFinish,
                CompReceiveExpired, CompBusy, CompDuplicate, CompOrphan, CompUnload,
                CompRecovered, CompNotify, CompExit
  <2>3. \A k \in Keys : loaded'[k] \in {None, loaded[k]}
    BY <1>a, <2>2 DEF MapTypeOK
  <2> QED BY <1>1, <2>1, <2>3
<1>8. CASE PendingStep
  BY <1>a, <1>8, PendingRoom
<1> QED
  BY <1>3, <1>4, <1>5, <1>6, <1>7, <1>8 DEF Next

\* InitScheduler starts with an empty map.
LEMMA InitRoom == Init => RoomInv
<1> SUFFICES ASSUME Init PROVE RoomInv
  OBVIOUS
<1>1. LoadedKeys = {} /\ ppc = "idle"
  BY DEF Init, LoadedKeys
<1>2. IsFiniteSet(LoadedKeys) /\ Cardinality(LoadedKeys) = 0 /\ maxRunners \in Nat
  BY <1>1, FS_EmptySet, LimitAssumption DEF Init
<1> QED BY <1>1, <1>2, InitTypes DEF RoomInv, RoomReserved, WithinMaxRunners, PendHasRoom

\* The scheduler never has more runners in its map than OLLAMA_MAX_LOADED_MODELS
\* or the limit it derives from the GPUs.
THEOREM RunnerLimit == Spec => []WithinMaxRunners
<1>1. RoomInv => WithinMaxRunners
  BY DEF RoomInv
<1> QED BY <1>1, InitRoom, NextRoom, PTL DEF Spec

\* The decision to load a model, taken under loadedMu and acted on many steps
\* later, still holds when the runner is added: nobody took the key or the room.
THEOREM RoomStays == Spec => []RoomReserved
<1>1. RoomInv => RoomReserved
  BY DEF RoomInv
<1> QED BY <1>1, InitRoom, NextRoom, PTL DEF Spec

\* No load ever replaces a runner that is in the map.
THEOREM MapEntriesKept == Spec => NeverOverwritten
<1>1. RoomInv /\ [Next]_vars =>
         [\A k \in Keys : loaded[k] # None => loaded'[k] \in {None, loaded[k]}]_vars
  BY NextRoom
<1> QED BY <1>1, InitRoom, NextRoom, PTL DEF Spec, NeverOverwritten
=============================================================================
