# Verification of the xDragon server (Ollama fork)

The server keeps large models on disk and a few of them in memory, and shares
them among HTTP clients. Four parts of it are hard to get right, and this
directory models them:

* the **scheduler** (`server/sched.go`): which model is loaded, who uses it and
  when it is unloaded, decided by two loops, a goroutine per load, timer and
  request, two kinds of locks and four bounded channels;
* the **runner** (`runner/ollamarunner`, `kvcache`): sequences that share batches
  and a key-value cache, with the next batch built while the last one computes;
* the **download** of a blob (`server/download.go`): shared by several pulls,
  resumed after failures and crashes;
* the **model store** (`server/images.go`, `manifest/`, `server/create.go`):
  manifests and shared layers, changed by concurrent operations without a lock.

| file | contents |
|---|---|
| `Scheduler.tla` | the scheduler, its clients and its environment; its properties |
| `SchedulerProofs.tla` | proofs about it: types, answers, the limit, the map |
| `SchedulerRunnersProofs.tla` | proofs about its runners and their processes, reference counts, unloads and wake-ups |
| `CausalCache.tla` | the KV cache: one operator per method of `Causal` |
| `InputCache.tla` | the input cache on top of it: one operator per method |
| `Runner.tla` | the runner that uses both; the properties of the three together |
| `RunnerProofs.tla` | proofs about permits, sequences and slots; induction over the loops |
| `RunnerLogitsProofs.tla` | proof that a token is sampled from its own logits |
| `RunnerCacheProofs.tla` | proofs about the caches: types and positions, and that the cells are enough |
| `RunnerAttentionProofs.tla` | proof that a batch attends to exactly what its sequences consist of |
| `BlobDownload.tla` | the download, its waiters, failures and crashes; its properties |
| `BlobDownloadProofs.tla` | proofs about the download and its files, and that it implements `SharedTransfer` |
| `SharedTransfer.tla` | abstract: what a shared download promises |
| `ModelStore.tla` | manifests, layers and the operations on them; its properties |
| `ModelStoreProofs.tla` | proofs about it |
| `MC*.tla`, `*.cfg` | the instances TLC checks |
| `PROJECT.json` | components, runs, mutants, source map, findings, hazards, theorems |

## 1. Inventory

| component | state | operations | hard behaviour | what makes it correct |
|---|---|---|---|---|
| Model scheduler (`server/sched.go`) | map `loaded`, `activeLoading`, four channels, `runnerRef`s with `refCount`, `sessionDuration`, `expireTimer`, `refMu` | `GetRunner`, `processPending`, `processCompleted`, `load`, `loadMLX`, `expireRunner`, `unloadAllRunners` | interleaving, timers racing requests, duplicated expirations, failed and cancelled loads, full channels, shutdown | one answer per request; a used runner is not unloaded; references counted exactly; the limit is kept; no process is stranded; everybody is answered |
| Request handlers (`server/routes.go`) | the request's context | `scheduleRunner`, unload by `keep_alive: 0`, `DeleteHandler`, `PsHandler`, signal handler | clients leave at any time, files vanish, reads without a lock | a handler returns; nothing survives a shutdown |
| Runner process client (`llm/server.go`) | subprocess, load progress | start, `Load`, `WaitUntilRunning`, `Ping`, `Close` | slow and failing loads | a process is closed exactly when it is given up |
| Runner (`runner/ollamarunner/runner.go`) | sequences, batches under way, a semaphore | `completion`, `forwardBatch`, `computeBatch`, `removeSequence` | several sequences in one batch, placeholders for tokens not sampled yet, sequences replaced while a batch computes | a batch attends to what its sequences consist of; everybody gets his own logits; everybody ends |
| Input cache (`runner/ollamarunner/cache.go`) | slots, least recently used first | `LoadCacheSlot`, `ShiftCacheSlot` | prefix reuse, forks, full contexts | a slot has one user; its inputs are what the cells hold |
| KV cache (`kvcache/causal.go`) | cells, ranges, tensors | `StartForward`, `CopyPrefix`, `CanResume`, `Remove`, `shift` | shared cells, windows that forget, half-done removals | enough cells; masks and positions are exact |
| Blob download (`server/download.go`) | parts, reference count, `done`; partial and part files | `downloadBlob`, `Prepare`, `Run`, `downloadChunk`, `Wait` | stalls, retries, resume after a crash, joins and cancellation | one writer; nothing skipped; every waiter is told the outcome |
| Images, manifests, pruning | manifests, blobs | pull, create, copy, delete, prune | no lock at all, crashes between file operations | a manifest's layers exist and are verified |
| Blob upload, blob cache and registry client, layer layout, GPU discovery, parsers, transfer, MLX, app, command line, API translation, conversion, backends | see `PROJECT.json` | | | |

How they interact: a handler calls `scheduleRunner`, which calls `GetRunner` and
waits for `successCh` or `errCh`. `GetRunner` serves a loaded model itself and
queues everything else on `pendingReqCh`. `processPending` loads one model at a
time; to make room it marks a runner for expiration and waits on `unloadedCh`.
When the context of a request ends, a watcher goroutine sends it on
`finishedReqCh`; `processCompleted` counts it out and, when the runner is idle,
sets its keep-alive timer or expires it. Expirations arrive on `expiredCh`, and
`processCompleted` unloads the runner and reports on `unloadedCh`. A runner that
was granted is a subprocess with its own HTTP server: its `completion` handler
takes a permit, an entry of `s.seqs` and a cache slot, and its `run` loop does
the rest. What a load reads was put on disk by `PullModel`, which downloads each
layer with `downloadBlob`, verifies it, writes the manifest and removes what only
the old manifest used.

The hazards of this code, at their lines and with the properties that cover
them, are listed in `PROJECT.json`.

## 2. Plan

Done: 1. the scheduler; 2. the blob download, and the abstract transfer it
implements; 3. the runner over the input cache over the KV cache; 4. the model
store; for each of them the proofs of section 8.

Left:

5. **Lease**: an abstract specification of what the scheduler promises (grant,
   release, reclaim; never reclaim what is granted), implemented by the scheduler
   in runs in which no unloaded runner is granted.
6. **Layout**: `assignLayers` as functions, checked against a reference
   definition over small memories.
7. **Upload**, and the **blob cache** of the alternative registry client.

## 3. The scheduler

**Grain.** A step is one critical section. `loadedMu` is never held while its
owner waits for another goroutine, so each of its sections is one step; the
unload of `processCompleted` closes the process and changes the map in one.
`refMu` *is* held across waits: by a loader until its process answers, by
`processCompleted` until memory has recovered, by anyone who finds `expiredCh`
full. It is therefore a variable, `refMu[r]`, that says who holds it, and every
section under it is guarded by `refMu[r] = "free"`.

**Names.** A `runnerRef` is named by the request whose load made it, a process
by the request whose load started it (`llama[r]` need not be `r`: after an
eviction `load` goes on with the process of an earlier attempt). `unloaded` is
the set of runners whose `unload()` has run. `sent[q]` counts the values sent on
the two channels of a request, and `granted[q]` is the runner it got. `dead`
is the one history variable: the requests that were given an unloaded runner.

| code | model |
|---|---|
| `scheduleRunner`, `GetRunner` | `Arrive`, `CheckReload`, `UseFound`, `Enqueue`, `Receive`, `Finish`; place in `hpc` |
| client gone, context watcher | `Disconnect`, `WatchDone` |
| `processPending` | `PendReceive` … `PendExit`; place in `ppc`, locals `preq`, `prun`, `pfull`, `plist`, `maxRunners` |
| `load`, `loadMLX` | `PendStart`, `PendLoaded`, `PendLoadFull`, `PendLoadFailed`; `PendMLX`, `PendMLXInsert`, `PendMLXTimer`, `PendUse` |
| `updateFreeSpace`, `findRunnerToUnload` | `PendFree`; `PendFind`, `PendScan` (they lock the runners one at a time) |
| goroutine of `load` | `LoaderOK`, `LoaderFail`, `LoaderExpire` |
| timers | `TimerFire`, `TimerSend`, `TimerSendHeld` (`firing`: callbacks that `Stop` can no longer stop); the callback of `loadMLX` and re-queued expirations are `Resend` |
| `processCompleted` | `CompReceiveFinished`, `CompFinish`, `CompReceiveExpired`, `CompBusy`, `CompDuplicate`, `CompOrphan`, `CompUnload`, `CompRecovered`, `CompNotify`, `CompExit` |
| `expireRunner`, `DeleteHandler`, signal handler | `StopLookup`, `StopExpire`; `DeleteModel`; `Shutdown`, `UnloadAllRunners` |

**Abstractions.** A model is its `schedulerModelKey`, an integer so that runners
can be sorted. The runner options are represented by `num_gpu`, which is compared
the way `needsReload` does it (a negative value matches anything); changes of
adapters, projectors or the kind of MLX runner have the same effect and are not
separate. Time is reduced to order: an armed timer may fire at any step, a
duration of `Forever` or more never fires. Memory is reduced to what `Load`
returns: it fits, it does not fit, or it fails. `refCount` is unsigned and wraps
at `RefMax`. The wait for VRAM ends at any time. A panic stops every goroutine.

**External behaviour** (from how the code uses it): contexts of `net/http`,
`time.AfterFunc`. Clients leave (`Leavers`; all of them may once the signal handler
has closed the HTTP server and its connections), files vanish (`Deletable`), health
checks, starts and loads fail (`PingFails`, `StartFails`, `WaitFails`,
`LoadOutcomes`) where a configuration lets them.

Several properties have the premise `dead = {}`. Once a request has been given
an unloaded runner (`sched_dead_runner`) it is counted on a runner that is not in
the map, its end is counted out of another one, and the accounting is lost. With
the premise they say that this is the *only* way to lose it.

## 4. The runner and its caches

**Layers.** `CausalCache` and `InputCache` have no variables: a cache is a
record, and each method of the code an operator from a cache (and arguments) to
its next value and results. `Runner` holds the record in `ic` and takes one step
per critical section of `s.mu`, or per computation of a batch.

| code | model |
|---|---|
| `completion`, `NewSequence` | `Submit` (with the truncation of a long prompt), `Acquire`, `Load`, `ClientGone` |
| `run`, `forwardBatch` | `ForwardBatch`: the loop over `s.seqs` is `VisitAll` (the last round of the function `Visited`), what it does with one sequence `Visit`; `StartForward` of the KV cache |
| `computeBatch`, first section | `GatherInputs`: tokens are read, inputs count as cached, placeholders are made |
| `ComputeWithNotify` | `Compute`: keys and values are written (`Put`) |
| `computeBatch`, second section | `Decode`: the loop is `DecodeAll` (the last round of `Decoded`), what each sequence samples is chosen from `Outcomes` |
| `removeSequence` | operator of the same name |
| `inputsReadyCh`, `outputsReadyCh`, `computeStartedCh` | `waits` and `stage` of a batch in `inflight` |
| `LoadCacheSlot`, `findLongestCacheSlot`, `findBestCacheSlot`, `ShiftCacheSlot`, `ShiftDiscard` | operators of `InputCache` of the same names |
| `StartForward`, `updateSlidingWindow`, `findLocs`, `buildMask`, `CopyPrefix`, `CanResume`, `Remove`, `shift` | operators of `CausalCache` |

A placeholder is an `*input.Input` with token 0 that several slices point to;
it is a value `Placeholder(q, n)`, and `Resolve` replaces it everywhere. The
tensors are `data`: for each cell the token whose key was written there and the
position it is encoded for. That is what makes `AttentionExact` say more than
that cells and masks are consistent: the mask of each entry of a batch has to
pick exactly the tokens, at exactly the positions, that the slot's `Inputs` say.

Text and stop sequences are reduced to what happens to a sampled piece: it ends
the sequence, is passed on, held back, or completes a stop sequence that began
`cut` pieces before. `AttentionExact` has the premise that no placeholder was
computed with: `runner_placeholder` shows how that happens.

## 5. The download

A step is one operation on a file, on the map of downloads, on a counter or a
channel; the data of a part arrives in units. A download is named by the client
that started it; `down[d]` is its `blobDownload` with the place of `Run`
(`phase`), `worker` the goroutines of its parts. The files (`blob`, `data`,
`partFile`) survive a `Crash`, after which `Serve` prunes unless `OLLAMA_NOPRUNE`
is set. A part file can be left empty (`Torn`) by a crash or a failed write.

| code | model |
|---|---|
| `downloadBlob` | `Stat`, `Lookup`, `PrepareFail`, `Spawn` |
| `Prepare` | `PrepareResume`, `PrepareNew` |
| `Wait`, `acquire`, `release` | `acquire`, `WaitDone`, `WaitLeave`, `WaitReport`, `release` |
| `run` | `RunOpen`, `RunURL`, `RunURLFail`, `RunChunksDone`, `RunRemovePart`, `RunRename`, `RunFileFail`, `RunDelete` |
| `Run` | `RunClose` |
| `downloadChunk` and its retries | `Receive`, `EndKept` (complete, cancelled, stalled, closed early), `SavePart`, `EndLost`, `Retry` |
| verification in `PullModel` | `Verify` |
| end of the process, `PruneLayers` at the start | `Crash` |

`SharedTransfer` is what a client may rely on: one transfer at a time, whoever
comes meanwhile joins it, everybody who stays is told the outcome of the transfer
he joined. The mapping: the transfer that is open is the entry of the map
(`current`), its outcome is `err` from the moment the entry is deleted, the
transfer of a client is `mine`, what it was told is its place. Every step of the
download is a step of the abstract transfer or leaves it alone
(`ImplementsSharedTransfer`).

## 6. The model store

`mf[n]` is the manifest of a name: absent, truncated, or a set of layers (the
config is one of them). `blob[l]` is absent, good, or bad (it does not have its
digest). `proc[p]` is an operation in progress with its locals. Steps are single
file operations: a manifest is truncated (`Truncate`, `CopyCreate`) and then
written (`WriteContents`, `CopyContents`); removing unused layers lists the
manifests (`Glob`), reads them one by one (`Scan`; one that is gone is an error, or
is passed over if it goes after `os.Stat` has seen it), and then removes blobs one by
one (`RemoveLayer`). A manifest that is deleted while another operation has it
open stays with that operation (`linked`, `src`). A download is one step here:
its inside is `BlobDownload`.

| code | model |
|---|---|
| `PullModel` | `Pull`, `PullStat`, `PullDownload`, `PullDownloadFail`, `PullVerify`, `PullVerified`, then `Truncate`, `WriteContents`, `Glob`, … |
| `CreateHandler`, `parseFromModel`, `removeLayer`, `NewLayer` | `Create`, (`CreateDrop`, `Glob`, `Scan`, `RemoveLayer` for each layer left out,) `CreateLayer`, `Truncate`, … |
| `CopyModel` | `Copy`, `CopyCreate`, `CopyContents` |
| `DeleteHandler` | `Delete`, `DeleteManifest`, `Glob`, … |
| `deleteUnusedLayers`, `RemoveLayers`, `Layer.Remove` | `Glob`, `Scan`, `RemoveLayer`, `RemoveDone` |
| end of the process, pruning in `Serve` | `Restart` |

With no lock, layers *can* be lost (`store_lost`). So the invariants say what it
takes: `raced` becomes true when one operation is looking for unused layers, or
has downloaded a wrong blob and not verified it, while another relies on the same
layer. `LostOnlyByRace` then says that failures, crashes, truncated manifests and
the order of operations alone never cost a model a layer. `abandoned` becomes
true when a pull ends, by an error or with the process, and leaves a wrong blob
that it downloaded and did not verify. `WrongOnlyIfAbandoned` says that it takes
that, or a race, for a model to name a wrong blob; `store_wrong` shows that it
happens without any race or crash.

## 7. Runs

Deadlock is not checked: requests and operations are finitely many, and when all
are done the system rests. `SYMMETRY` permutes requests (or operations and
layers) in safety runs, which is sound because they differ only in contents that
`Init` or an action chooses; runs with liveness properties do without.

Passing:

| run | instance | shows |
|---|---|---|
| `sched_reload` | 2 requests, `num_gpu` in {-1, 0, 1}, all outcomes of `Load`, all faults, `keep_alive` 0, a stop, one model that may be deleted, channels of capacity 1, limit from 2 GPUs | map, processes, `activeLoading` and reference counts agree; only unloaded runners leave the map; no entry is overwritten; one answer per request, refused ones included |
| `sched_shutdown` | GGUF and MLX model, 2 requests, one of them for the GGUF model, loads that do not fit, failing starts, shutdown at any time, after which any client may be cut off | one owner per request through all of it; both loops end |
| `sched_answers` | 3 requests, two for one model and one for the other, limit 1, one client may leave, one model may be deleted | the limit is kept, and room that was seen is still there; no unload in use, no lost wake-up; everybody is answered under contention; all memory is released |
| `runner_cache` | 3 completions, 2 slots, context of 3, batches of 2, with and without a window of 1 and the multi-user cache | batches attend to exactly what the slots record; own logits; slots and permits match; cells suffice |
| `runner_ends` | 3 completions that fill the context, one client may leave | every completion ends |
| `download_shared` | 2 pulls, parts of 2 units and 1, one fault and one crash anywhere, with and without pruning | one writer; part files say the truth; nothing skipped; exact references; waiters answered; `SharedTransfer` implemented |
| `store_layers` | 2 operations at a time, 3 in all, 2 names, 2 layers, two faults, one crash | layers are lost only by the races named, and wrong only by them or by a pull that left a wrong blob |

The bounds are the smallest at which the cases meet. Scheduler: two requests for
one key and one for another give the fast path, a queued request, an eviction and
a late expiration at once; two models and a limit of one force evictions; a
capacity of one makes every channel full. Runner: a context of 3 with batches of
2 is truncated, split over batches, and shifted after one or two tokens; three
requests over two slots make one wait, reuse or fork the slot of another; a window
of 1 forgets within the context. The batches under way are not bounded;
`MaxInflight` says of how many `FairSpec` assumes fairness, and there are never more
in these instances. Download: two units make a part that can be half there, two parts
a set that can be half made or half removed; with one fault a part is retried
once or fails for good, which takes the same way out as the last retry. Store: a
removal races a second operation, and the third shows what is left behind; it
takes two faults, a wrong download and a failure after it, to leave a wrong blob
behind. `UntilRaced` does not follow a behaviour beyond the first overlap of two
operations, after which the two properties say nothing; that `TypeOK` holds there
too is a theorem.

Violations, each a statement of a comment or a document that the code does not
keep (quoted in `PROJECT.json` under `findings`):

| run | what happens |
|---|---|
| `sched_dead_runner` | `needsReload` says no, the runner expires and is unloaded, `useLoadedRunner` hands it out |
| `runner_placeholder` | a fork shares cells, so a full context cannot be shifted and its inputs are queued again; `forwardBatch` returns an empty batch, and the one after it does not wait for the batch that is still computing: it is computed with a token that is not known yet |
| `download_joined` | the second client joins, the first one's `Prepare` fails, nobody closes `done` |
| `store_lost` | a copy opens the manifest of its source; the source is deleted, its removal of layers reads the manifests; the copy is written; the layers are removed |
| `store_wrong` | a pull downloads a wrong layer and fails on the next one, before it verifies any; the retry finds the layer on disk, takes it for verified and writes a manifest that names it |

**Fairness.** Scheduler (`Fairness`): weak fairness for every goroutine: the Go
scheduler runs a goroutine that can run, a lock that is free is given to a waiter,
a process that is loading comes up or fails, and a handler that uses a runner
finishes. Timers are weakly fair. The receive from `finishedReqCh` and the exit of
`processCompleted` are strongly fair: its `select` chooses at random among the
channels that are ready, so a runner that is expired again and again cannot hide
a finished request, or the end of the context, for ever. Runner: weak fairness for the loop, for the goroutine of each
batch and for a handler that has its permit; strong fairness for `Acquire`,
because `semaphore.Weighted` queues its waiters. It is written out with the
guards of the actions, which is equivalent and spares TLC the computation of
`ENABLED`. Download: weak fairness for every goroutine; in particular data keeps
coming (a part that stalls for 30 seconds is requested again). Nothing makes
clients arrive or leave, models be stopped or deleted, or the server shut down.

**Mutants.** Each property of a passing run is broken by a small change of the
model, listed in `PROJECT.json` and defined beside the definition it changes
(`…Uncounted`, `…Dropped`, `FullLate`, …): a dropped guard, a missing send, an
off-by-one.

### Behaviours worth knowing that have no run

Scheduler:

* A queued request whose client left is dropped without an answer, and its
  handler never returns.
* `processCompleted` sends on `expiredCh`, which only it empties, and is stuck
  (`cpc = "stuck"`) when the channel is full: with capacity one after a few
  steps, with the default of 512 hardly ever.
* Runners are told apart by pid, which `loadMLX` leaves at zero. If two expirations
  of an MLX runner are queued, the first unloads it, and the model is loaded again,
  the second is taken for one of the new runner: the live runner is deleted from
  the map, and nobody closes it (`DeletesOnlyUnloaded` with `MLXKeys` not empty).
* A load waits for an eviction with its process in `activeLoading`, its model is
  deleted, the loop reads the file again and fails (`sched.go` 246): the process
  stays, and the next load, of another model, panics (482). `ActiveLoadingIsPending`
  and its theorem say that there is no other way to this panic.
* An eviction gives a busy runner the duration zero, and a request on the fast path
  overwrites it with its own `keep_alive`. If that is endless the runner becomes
  idle and stays, and the pending request, with all behind it, waits for ever.
* `unloadAllRunners` clears `activeLoading` while `load` may be about to close it
  after a failure (`sched.go` 511, 519), and what is started after it has looked is
  closed by nobody.
* `PsHandler` ranges over the map without `loadedMu` (`routes.go` 1935).
* `keep_alive: 0` expires a runner only once it is idle, so two models can be in
  memory at a time although `README.md:268` of the repository says that only one
  is.

Runner: with a cache that cannot shift (`CanShift = FALSE`), a stop sequence may
cut a slot that was emptied for reprocessing, and the slice is out of range.
Without `shift`, a sequence that fills its context ends while the batch that
holds its last token is still computing, and that token is dropped.
With a sliding window that forgets within the context, a request that shifts and
keeps some of its first inputs (`num_keep` > 0) can lose a part of its window: half
of what it does not keep is discarded, and the other half moves down next to the
kept inputs, whose cells the window has forgotten long ago. Something can
be missing only if the window is longer than that half (`keep + 2 * window > NumCtx`,
for instance a context of 6, a window of 3 and 2 inputs kept), and `AttentionExact`
is violated then. `Remove` has a `TODO` about it (`kvcache/causal.go:616`), so that it
is a known limitation and not a finding; the request of `runner_cache` that shifts
keeps nothing, and the theorem about `AttentionExact` has the bound as its
hypothesis.

Download: a part file left empty by a crash or a full disk makes every later pull
fail until the blobs are pruned. With `OLLAMA_NOPRUNE`, a crash while part files
are made or removed leaves some of them, which the next pull takes for all: it
renames a file that is too short (and finds out when it verifies it), or cannot
remove the part files it expects. A client that joins a download that is being
cancelled gets the cancellation. A client that leaves before `run` has set
`CancelFunc` calls nil, in a goroutine that nothing recovers
(`CancelSetByRun` says that it takes just that). `Wait` reports on an unbuffered
channel: if its client is gone it blocks with its reference, and the download is
not cancelled.

Store: a corrupt manifest cannot be deleted through the API, although the message
of `Serve` says "Re-pull or delete to clear". A copy over an existing name leaves
the old layers until the next start. A manifest that vanishes before it is
looked at, while the manifests are read, ends the removal with an error, and the
layers stay. After an error of
its base model `CreateHandler` makes the new layers and then blocks on its next
report, which nobody receives. A crash between the rename of a blob and its
verification, with pruning off or skipped, leaves a blob that later pulls use
unverified, the same way as the failure of `store_wrong`.

## 8. Proofs

The theorems hold for any finite set of requests or clients, any models, names,
layers, parts, slots, capacities and limits, and any number of faults, from the
named assumptions that the modules make about their constants
(`RequestsAssumption` … `OutcomeAssumption`, `DownloadConstants`,
`DownloadMarks`, `StoreConstants`, `CacheConstants`, `RunnerConstants`; TLC
evaluates them in every run). Those say that numbers are numbers, that what the
code refuses does not occur (a batch larger than the context, an empty prompt),
that marks such as `None` are not values, and that `RefMax` exceeds the number of
requests. What a theorem needs beyond them is among its own hypotheses. Each
module has one lemma per action, or per family of actions, and one step per
conjunct that the action can disturb; `…Kept` lemmas dispose of what it leaves
alone. The inductive invariants were model-checked on the instances of the runs
before they were proved.

### Scheduler

| theorem | property | hypotheses |
|---|---|---|
| `TypeCorrect` | `TypeOK` | |
| `AnsweredOnce`, `OwnedByOne` | `AtMostOneAnswer`, `OneOwner` | |
| `RunnerLimit`, `RoomStays`, `MapEntriesKept` | `WithinMaxRunners`, `RoomReserved`, `NeverOverwritten` | |
| `OwnProcess` | `ActiveLoadingIsPending` | |
| `DeletedIsUnloaded` | `DeletesOnlyUnloaded` | `MLXKeys = {}`, `Deletable = {}` |
| `MapIsAlive`, `NoneStranded` | `LoadedIsAlive`, `NoStrandedProcess` | the same, `~CanShutDown` |
| `CountsAreExact`, `HeldIsKept` | `RefCountExact`, `InUseNotUnloaded` | `MLXKeys = {}`, `Deletable = {}` |
| `WakeupNotLost` | `NoLostWakeup` | the same, `FiniteKeepAlives` |

The hypotheses are not conveniences: each stands for a behaviour that breaks the
property. A runner of an MLX model has no pid, so its expirations are not told
from those of its successor; a file that is deleted leaves a process
behind in `activeLoading`; a shutdown closes processes whose
runners are in the map; an endless `keep_alive` overwrites an eviction (section 7).

* **Answers.** `AtMostOneAnswer` is not inductive: that a loader may answer says
  nothing about who else may. `OneOwner` is the strengthening (`AnswerInv`): a
  request belongs to its handler, the queue, `processPending` or a loader, to one
  of them at most, and to none once it is answered.
* **Limit and map.** A runner is added many steps after the count was read.
  `RoomReserved` says that at all places in between the key is free and the map is
  below the limit (`RoomInv`); only `processPending` adds entries. So the branch
  of `load` marked "Shouldn't happen", which takes the locks in the order opposite
  to `processCompleted`, is dead code.
* **The process being loaded** (`LeftInv`; `ActiveInv` where no model is deleted). It needs the places at which a
  process can be left (`AtLoading`), and that at those the key is not loaded:
  then the loop cannot take the way that serves a loaded runner and forget it. The
  way out that does forget it is the one for a file that is gone.
* **Runners** (`LifeInv`). What is in the map is exactly what was created and not
  unloaded (`MapRunners`), nothing is known of a runner before it is created
  (`Unborn`), and whatever a goroutine has in hand was created for the model it
  was asked for (`PendRefs`, `TaskRefs`, `ClientRefs`). It follows that an
  expiration that does not find its runner in the map is about one that is
  unloaded. `ProcInv` adds that the processes that run are that of
  `activeLoading` and those of the map.
* **Counts** (`CountInv`). The count and the map depend on each other: a finished
  request is counted out of the runner that has its key *now*; this is the one it
  was counted into, because that one was not unloaded, because its count was not
  zero. So `RefCountExact`, `HeldLive` and `LifeInv` are proved together, under
  `dead = {}`, with `HeldOnce` (a request is in one place on its way out).
* **Wake-ups** (`WakeInv`). While `processPending` chooses a runner to expire,
  locking the candidates one at a time, any of them may be unloaded under its
  eyes. `VictimsTold` says that then the announcement is in `unloadedCh` or about
  to be sent; `Waiting` that otherwise an expiration of the victim is under way: in
  `expiredCh`, in a timer, at `processCompleted`, or due when its users finish.

### Download

`CoreHolds`: the invariant `Core` relates the entry of the map, the phase of each
download and the places of its clients (`RecordOK`, `Entry`, `Opened`, `Place`).
From it: `OneWriter` (`SingleWriter`), `ReferencesCount` (`ReferencesExact`),
`TypeCorrect`, whose bounds on references follow from the exact count, and
`CancelIsSet` (`CancelSetByRun`).

`SharedTransferRefinement`: `Spec => ImplementsSharedTransfer`. `Init` maps to
`Shared!Init`, and each action to an action of the abstract transfer or to a
stutter: the deletion of the entry (`RunDelete`) closes the transfer, not the
closing of `done`, and a client is told the outcome when it sees `done`
closed.

For the files there is `DataInv`. `PartFilesTruthful` is only
inductive together with what every phase of `Run` may have done: `Making` and
`Working` (which part files there are), `Filled` (what counts as copied is in the
file), `Chunks` (a part whose goroutine has ended well is complete) and `Clean`
(removal begins with the first part, so that what a crash leaves of the part
files has a gap and cannot be resumed from). Theorems: `PartFilesTrue` and
`RenamesWhole` (`RenamedWhole`).

### Store

`StoreInv`: types with what each operation has in hand at each place (`Shapes`);
a layer that an operation relies on is there (`HeldThere`); a manifest that a
removal has passed does not name what is to be removed (`ScanSees`); an overlap of
two operations is recorded at once (`Recorded`); a wrong blob that nobody
abandoned is in the hands of the pull that will verify it (`WrongIsFresh`).
Theorems: `TypeCorrect`, `LostByRace` (`LostOnlyByRace`), `WrongIfAbandoned`
(`WrongOnlyIfAbandoned`). An earlier form of the last property blamed races and
crashes only. Its proof failed at `PullDownloadFail`; with two faults TLC shows
the behaviour that is now the run `store_wrong`.

### Runner

`SlotsAreAccounted`: `SlotInv` says that the entries of `s.seqs` stream and have
slots of their own (`Owners`), that a slot is in use exactly if one of them has it
(`InUse`), and that the semaphore counts them and the handlers on their way
(`Permits`). So a handler that got its permit finds an entry and a slot, and
`LoadCacheSlot` returns one that is free (`LoadFinds`).

`LogitsAreTheirOwn` (`OwnLogits`): `forwardBatch` is a batch ahead and overwrites
`seq.iBatch`, which `computeBatch` reads. `LogitsInv` says why it reads the right
one: a batch that is not started is the last (`OnlyLastWaits`); a sequence
without inputs has its last ones in a batch that is ready, and its `iBatch` is
still about that batch (`UsedUp`); what `computeBatch` has kept is about its own
batch (`KeptIndex`). A sequence without inputs is one `forwardBatch` skips, and
that is what protects the index.

`CacheIsNeverFull` (`NeverFull`) and `TypesCorrect` (`TypeOK`) rest on `CacheInv`:

* of the KV cache, `KvOK`: cells, ranges and tensors have their shape
  (`KvShape`), the range of a sequence contains its cells (`Ranges`), and a
  sequence has one cell at most for a position (`Once`);
* of a sequence, `SeqFits`: the inputs that its slot records and those a batch has
  taken of it fit the context, and its cells end where they end;
* what is taken of a sequence is in a batch that is ready (`PendingReady`), so that
  it is recorded before `forwardBatch` takes more of it; a batch yields one token
  for a sequence, its own (`NextOnce`, `NextOwn`).

A cell in use is a pair of a slot and a position for each sequence that shares it.
Without a window these pairs are at most `NumSlots * NumCtx`, and those of the
inputs that `forwardBatch` takes are still free, since they lie where the
cells of the sequence end. With a window `updateSlidingWindow` has left at most `memory`
positions of every slot, *also of the slots that are not in the batch*, which is
what the cache was sized for, with room for the batch beside them (`RoomForBatch`).
The removals that are given up half-way, at a cell
that another sequence shares, are covered by `Loosened`: the slot is emptied after
them.

`AttentionIsExact` (`AttentionExact`) is the theorem the other invariants were for.
Its hypothesis, `KeptOutOfWindow`, is about constants only: no request that shifts
keeps so much of its prompt that a window that forgets would reach back into it
after a shift (`keep = 0` or `keep + 2 * window <= NumCtx`). It asks for nothing
without a window, without `shift`, or with a cache that cannot shift, which
computes again what it keeps (unless it keeps all but one input, where a shift
leaves nothing to compute again); section 7 says what happens otherwise. The
instance of `runner_cache` satisfies it. `AttentionInv` says, as long as no
placeholder was gathered before its token was known (the premise of the property):

* of a slot, `SlotGood`: every cell of its sequence at a recorded position holds the
  key of the recorded input for that position, or the batch that has gathered its
  tokens will write it (`Records`); the positions have no gap (`Convex`), and without a
  window nothing is forgotten (`Whole`);
* of a sequence, `SeqGood`: its cells reach as far back as the next input attends
  to (`Reaches`), and each of its inputs in a batch that is not computed stands in
  its own cell at its position, with the mask that the cells give *now*
  (`Stands`): what later steps remove or share is never what a batch under way has
  in its mask;
* of the batches, `BatchesGood`: they write a cell once and are made for requests
  that stream; of the requests, `ReqGood`: a placeholder stands for a token of the
  request itself.

`Reaches` is weaker than "the whole window is there", and `Convex` makes it enough.
That nothing has a gap is what `CopyPrefix` (which copies from the beginning),
`Remove` (which closes the gap it makes) and `updateSlidingWindow` (which forgets
from the low end) have in common. The property follows with `LowOf`, the first
position that an input attends to. Most of the proof is `forwardBatch`: a shift
keeps the keys with their inputs and moves them by the same amount (`ShiftMoves`,
`ShiftKeys`, `ShiftReaches`), the loops take inputs where the cells end
(`TakeGood`, `RoundsGood`), the trim of the window leaves what the batch attends to
(`TrimmedGood`), and the cells that are found for the batch are free, so that
nobody else's key is overwritten, also not by a batch that computes later
(`FreeLands`, `PlacedSlot`).

All carry their invariants through the loops over `s.seqs`. The loops are
functions of the number of rounds (`Visited`, `Decoded`); that such a function
exists and what a round adds (`VisitedRounds`, `DecodedRounds`) and the induction
(`Least`, `Induct`) are proved from the well-foundedness of `<` on the naturals, in
terms of sets of rounds.

### Only model-checked

* Liveness: `EveryRequestAnswered`, `SchedulerStops`, `MemoryReleased`,
  `PreparedAnswers`, `EveryoneEnds` (fairness is out of the prover's reach).
* The behaviours of the violation runs.

No module uses a `RECURSIVE` operator: loops are recursive functions.

## 9. Not modelled

* Components with status `not_modelled` in `PROJECT.json`. The C and C++ sources
  of the repository are vendored (`llama.cpp`, `ggml`), generated or bindings to
  the operating system; the program's own logic is in Go, and the models are
  models of it.
* Scheduler: memory figures and layouts. Of `routes.go` and `llm/server.go` only
  what touches the scheduler. `PsHandler` only reads and is left out.
  `unloadAllRunners` closes processes in one step. `findRunnerToUnload` sorts by
  durations that it reads without a lock: in the model it reads them together with
  the map. The branch of `load` for a runner that is in the map already ("Shouldn't
  happen", `sched.go` 557-563) is left out: `NeverOverwritten` shows that it is
  dead.
* Runner: images and inputs that must stay in one batch; embeddings, for which
  batches are computed synchronously; models without a cache; the capacity of the
  channel of responses; logprobs. KV cache: chunked attention, a memory larger
  than the window, wrapper, encoder and recurrent caches.
* Download: the content of redirects and requests, progress figures, a server
  that does not give the length; power loss (a crash of the process keeps what it
  has written). For a set of part files with a gap, which a crash leaves when the
  first of them is removed, the model cuts the partial file by parts and not by
  bytes; such a download fails before it renames anything.
* Store: push, creation from uploaded blobs or from a base that is not there (which
  `parseFromModel` pulls first), the transfer of tensor layers,
  migration of old file names.
