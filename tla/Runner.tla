------------------------------- MODULE Runner -------------------------------
(***************************************************************************)
(* The runner (runner/ollamarunner/runner.go): completion handlers hand    *)
(* sequences to a loop that gathers their inputs into batches.  A batch is *)
(* built by forwardBatch while the one before it still computes; computing *)
(* and decoding happen in a goroutine of their own, and the token sampled  *)
(* from one batch is an input of the next, which holds a placeholder for   *)
(* it until it is known.                                                   *)
(*                                                                         *)
(* A step is one critical section of s.mu, or the computation of a batch.  *)
(***************************************************************************)
EXTENDS InputCache

CONSTANTS
    Requests,       \* completion requests
    Leavers,        \* the ones whose client may go away
    Shapes,         \* what a request may ask for
    Vocab,          \* tokens that are not an end of sequence
    MaxHeld,        \* most pieces held back for a stop sequence (bound)
    Windows,        \* the window of the model: MaxInt without sliding window
    MultiUser,      \* values of OLLAMA_MULTIUSER_CACHE
    MaxInflight     \* batches under way that fairness is assumed of (FairSpec)

ASSUME RunnerConstants ==
    /\ NumCtx >= BatchSize          \* NewInputCache refuses anything else
    /\ IsFiniteSet(Requests) /\ Leavers \subseteq Requests
    /\ Vocab \subseteq Nat \ {0} /\ \E top \in Vocab : \A t \in Vocab : t <= top
    /\ \A shape \in Shapes :       \* NewSequence refuses an empty prompt
           shape.prompt \in Seq(Nat \ {0}) /\ shape.prompt # <<>> /\ shape.keep \in Int
    /\ None \notin Requests /\ None \notin Slots
    /\ None \notin [token : {0}, of : Requests, nth : Nat]
    /\ Windows \subseteq 1 .. MaxInt /\ MultiUser \subseteq BOOLEAN
    /\ MaxHeld \in Nat /\ MaxInflight \in Nat

VARIABLES
    req,            \* req[q]: the request and its Sequence
    seqs,           \* s.seqs
    sem,            \* permits of s.seqsSem that are taken
    ic,             \* s.cache
    inflight,       \* batches from forwardBatch to the end of computeBatch
    prevNil,        \* the last batch of forwardBatch was empty (ctx is nil) or is done
    nextSeq,        \* s.nextSeq
    panic,          \* why the process died
    unresolved      \* history: a placeholder was computed with before it was known

vars == <<req, seqs, sem, ic, inflight, prevNil, nextSeq, panic, unresolved>>

Idx == Slots        \* s.seqs has an entry for every slot

Blank == [pc |-> "new", inputs |-> <<>>, pending |-> <<>>, slot |-> None, iBatch |-> 0,
          predicted |-> 0, held |-> 0, quit |-> FALSE, limit |-> 0, keep |-> 0,
          shift |-> FALSE, reason |-> None]

Init ==
    /\ req = [q \in Requests |-> Blank]
    /\ seqs = [i \in Idx |-> None]
    /\ sem = 0
    /\ \E window \in Windows, multi \in MultiUser : ic = NewInputCache(window, multi)
    /\ inflight = <<>>
    /\ prevNil = TRUE
    /\ nextSeq = 0
    /\ panic = "no"
    /\ unresolved = FALSE

Alive == panic = "no"

-----------------------------------------------------------------------------
(* Handlers *)

\* NewSequence: a prompt that is too long loses its middle.
Keep(shape) ==
    Min({NumCtx - 1, IF shape.keep < 0 THEN Len(shape.prompt) ELSE shape.keep})

Truncated(shape) ==
    LET n == Len(shape.prompt)
    IN  IF n <= NumCtx THEN shape.prompt
        ELSE SubSeq(shape.prompt, 1, Keep(shape))
                \o SubSeq(shape.prompt, Keep(shape) + n - NumCtx + 1, n)

Submit(q) ==
    /\ Alive
    /\ req[q].pc = "new"
    /\ \E shape \in Shapes :
        LET tokens == Truncated(shape)
        IN  IF Len(shape.prompt) > NumCtx /\ ~shape.truncate
            THEN req' = [req EXCEPT ![q].pc = "done", ![q].reason = "error"]
            ELSE req' = [req EXCEPT ![q] =
                    [Blank EXCEPT !.pc = "acquire",
                                  !.inputs = [i \in DOMAIN tokens |-> Input(tokens[i])],
                                  !.limit = shape.limit, !.keep = Keep(shape),
                                  !.shift = shape.shift]]
    /\ UNCHANGED <<seqs, sem, ic, inflight, prevNil, nextSeq, panic, unresolved>>

Acquire(q) ==
    /\ Alive
    /\ req[q].pc = "acquire" /\ ~req[q].quit
    /\ sem < NumSlots
    /\ sem' = sem + 1
    /\ req' = [req EXCEPT ![q].pc = "load"]
    /\ UNCHANGED <<seqs, ic, inflight, prevNil, nextSeq, panic, unresolved>>

\* The critical section of completion: an entry of s.seqs and a cache slot.
\* Without a free slot findLongestCacheSlot returns an error, and
\* findBestCacheSlot dereferences a nil slot.
Load(q) ==
    /\ Alive
    /\ req[q].pc = "load"
    /\ LET free == {i \in Idx : seqs[i] = None}
       IN  IF free = {} \/ (FreeSlots(ic) = {} /\ ~ic.multi)
           THEN /\ req' = [req EXCEPT ![q].pc = "done", ![q].reason = "error"]
                /\ sem' = sem - 1
                /\ UNCHANGED <<seqs, ic, panic>>
           ELSE IF FreeSlots(ic) = {}
           THEN /\ panic' = "slot"
                /\ UNCHANGED <<req, seqs, sem, ic>>
           ELSE \E got \in {LoadCacheSlot(ic, req[q].inputs)} :
                    /\ req' = [req EXCEPT ![q].pc = "stream", ![q].slot = got.slot,
                                          ![q].inputs = got.inputs]
                    /\ seqs' = [seqs EXCEPT ![Min(free)] = q]
                    /\ ic' = got.ic
                    /\ UNCHANGED <<sem, panic>>
    /\ UNCHANGED <<inflight, prevNil, nextSeq, unresolved>>

\* The request's context ends: Acquire fails, or the handler closes seq.quit.
ClientGone(q) ==
    /\ q \in Leavers /\ ~req[q].quit
    /\ req[q].pc \in {"acquire", "load", "stream"}
    /\ req' = IF req[q].pc = "acquire"
              THEN [req EXCEPT ![q] = [Blank EXCEPT !.pc = "done", !.reason = "gone"]]
              ELSE [req EXCEPT ![q].quit = TRUE]
    /\ UNCHANGED <<seqs, sem, ic, inflight, prevNil, nextSeq, panic, unresolved>>

-----------------------------------------------------------------------------
(* forwardBatch *)

\* Mutant: the cache slot stays in use.
removeSequenceKeepsSlot(w, i, why) ==
    LET q == w.seqs[i]
    IN  [w EXCEPT !.req[q] = [Blank EXCEPT !.pc = "done", !.reason = why,
                                           !.predicted = w.req[q].predicted],
                  !.seqs[i] = None,
                  !.sem = @ - 1]

\* Mutant: the permit is released twice.
removeSequenceTwice(w, i, why) ==
    LET q == w.seqs[i]
    IN  [w EXCEPT !.req[q] = [Blank EXCEPT !.pc = "done", !.reason = why,
                                           !.predicted = w.req[q].predicted],
                  !.seqs[i] = None,
                  !.sem = @ - 2,
                  !.ic.slots[w.req[q].slot].inUse = FALSE]

\* removeSequence.  w holds req, seqs, sem and ic.
removeSequence(w, i, why) ==
    LET q == w.seqs[i]
    IN  [w EXCEPT !.req[q] = [Blank EXCEPT !.pc = "done", !.reason = why,
                                           !.predicted = w.req[q].predicted],
                  !.seqs[i] = None,
                  !.sem = @ - 1,
                  !.ic.slots[w.req[q].slot].inUse = FALSE]

\* Takes as many inputs of sequence i into the batch as there is room for.
Take(w, q, past, n) ==
    [w EXCEPT
        !.entries = @ \o [j \in 1 .. n |-> [slot |-> w.req[q].slot, pos |-> past + j - 1,
                                            input |-> w.req[q].inputs[j], q |-> q]],
        !.outputs = IF n = Len(w.req[q].inputs) THEN Append(@, Len(w.entries) + n) ELSE @,
        !.req[q].iBatch = Len(w.outputs) + 1,
        !.req[q].pending = SubSeq(w.req[q].inputs, 1, n),
        !.req[q].inputs = SubSeq(@, n + 1, Len(@))]

Cached(w, q) == Len(w.ic.slots[w.req[q].slot].inputs)

TakeInputs(w, q) ==
    Take(w, q, Cached(w, q),
         Min({BatchSize - Len(w.entries), NumCtx - Cached(w, q), Len(w.req[q].inputs)}))

\* After ShiftCacheSlot: on with the batch, or the sequence is left out of it.
AfterShift(w, i, q, shifted) ==
    IF shifted.ok THEN TakeInputs([w EXCEPT !.ic = shifted.ic], q)
    ELSE [w EXCEPT !.ic = shifted.ic,
                   !.req[q].inputs = shifted.reprocess \o @,
                   !.snapshot[i] = None]

\* What the loop of forwardBatch does with s.seqs[i].
Visit(w, i, q) ==
    IF q = None \/ w.req[q].inputs = <<>> THEN w
    ELSE IF Len(w.entries) = BatchSize
    THEN [w EXCEPT !.resume = IF @ = None THEN i ELSE @]
    ELSE IF Cached(w, q) + 1 <= NumCtx THEN TakeInputs(w, q)
    ELSE IF ~w.req[q].shift
    THEN [removeSequence(w, i, "length") EXCEPT !.snapshot[i] = None]
    ELSE AfterShift(w, i, q, ShiftCacheSlot(w.ic, w.req[q].slot, w.req[q].keep))

VisitIndex(w, i) == Visit(w, i, w.seqs[i])

\* The loop over s.seqs, from s.nextSeq on.
Visited(w0) ==
    LET visited[n \in 0 .. NumSlots] ==
            IF n = 0 THEN w0 ELSE VisitIndex(visited[n - 1], (nextSeq + n - 1) % NumSlots)
    IN  visited

VisitAll(w0) == Visited(w0)[NumSlots]

\* The batch waits for the outputs of the one before it.
NewBatch(w, f) ==
    [stage |-> "ready", waits |-> ~prevNil,
     entries |-> w.entries, outputs |-> w.outputs, seqs |-> w.snapshot,
     loc |-> f.loc, mask |-> f.mask, tokens |-> <<>>,
     next |-> [i \in Idx |-> None], iBatches |-> [i \in Idx |-> 0]]

CanForward ==
    /\ Alive
    /\ ~prevNil => inflight[Len(inflight)].stage = "started"
    /\ \E i \in Idx : seqs[i] # None

ForwardBatch ==
    /\ CanForward
    /\ \E w \in {VisitAll([req |-> req, seqs |-> seqs, sem |-> sem, ic |-> ic,
                           snapshot |-> seqs, entries |-> <<>>, outputs |-> <<>>,
                           resume |-> None])} :
        /\ req' = w.req /\ seqs' = w.seqs /\ sem' = w.sem
        /\ nextSeq' = IF w.resume # None THEN w.resume
                      ELSE ((nextSeq + NumSlots - 1) % NumSlots) + 1
        /\ prevNil' = (w.entries = <<>>)
        /\ IF w.entries = <<>> THEN ic' = w.ic /\ UNCHANGED <<inflight, panic>>
           ELSE \E f \in {StartForward(w.ic.kv, w.entries)} :
                /\ ic' = [w.ic EXCEPT !.kv = f.kv]
                /\ IF f.full THEN panic' = "kv full" /\ UNCHANGED inflight
                   ELSE inflight' = Append(inflight, NewBatch(w, f)) /\ UNCHANGED panic
    /\ UNCHANGED unresolved

-----------------------------------------------------------------------------
(* computeBatch *)

\* A number that no placeholder of q waits under.
FreshNth(q) ==
    Min({n \in 1 .. Len(inflight) + 1 :
            \A k \in DOMAIN inflight, i \in Idx : inflight[k].next[i] # Placeholder(q, n)})

\* What a batch holds of a sequence counts as cached.
Extended(slot, pending) == [slot EXCEPT !.inputs = @ \o pending]

\* Mutant: the logits of a sequence are looked up under its number and not under
\* its iBatch.
GatherInputsBySequence(k) ==
    /\ Alive
    /\ k \in DOMAIN inflight
    /\ inflight[k].stage = "ready" /\ ~inflight[k].waits
    /\ \E own \in {{i \in Idx : seqs[i] # None /\ inflight[k].seqs[i] = seqs[i]}},
          tokens \in {[e \in DOMAIN inflight[k].entries |-> inflight[k].entries[e].input.token]} :
        /\ ic' = [ic EXCEPT !.slots = [s \in Slots |->
                    IF \E i \in own : req[seqs[i]].slot = s
                    THEN Extended(ic.slots[s],
                            req[seqs[CHOOSE i \in own : req[seqs[i]].slot = s]].pending)
                    ELSE ic.slots[s]]]
        /\ req' = [q \in Requests |->
                    IF \E i \in own : seqs[i] = q
                    THEN [req[q] EXCEPT !.pending = <<>>,
                                        !.inputs = IF @ = <<>>
                                                   THEN <<Placeholder(q, FreshNth(q))>> ELSE @]
                    ELSE req[q]]
        /\ inflight' = [inflight EXCEPT
                    ![k].stage = "gathered",
                    ![k].tokens = tokens,
                    ![k].next = [i \in Idx |->
                        IF i \in own /\ req[seqs[i]].inputs = <<>>
                        THEN Placeholder(seqs[i], FreshNth(seqs[i])) ELSE None],
                    ![k].iBatches = [i \in Idx |-> i + 1]]
        /\ unresolved' = unresolved
    /\ UNCHANGED <<seqs, sem, prevNil, nextSeq, panic>>

\* First critical section: the tokens of the batch are gathered, what it holds
\* of a sequence counts as cached, and a sequence whose prompt is used up gets
\* a placeholder for the token this batch will yield.
GatherInputs(k) ==
    /\ Alive
    /\ k \in DOMAIN inflight
    /\ inflight[k].stage = "ready" /\ ~inflight[k].waits
    /\ \E own \in {{i \in Idx : seqs[i] # None /\ inflight[k].seqs[i] = seqs[i]}},
          tokens \in {[e \in DOMAIN inflight[k].entries |-> inflight[k].entries[e].input.token]} :
        /\ ic' = [ic EXCEPT !.slots = [s \in Slots |->
                    IF \E i \in own : req[seqs[i]].slot = s
                    THEN Extended(ic.slots[s],
                            req[seqs[CHOOSE i \in own : req[seqs[i]].slot = s]].pending)
                    ELSE ic.slots[s]]]
        /\ req' = [q \in Requests |->
                    IF \E i \in own : seqs[i] = q
                    THEN [req[q] EXCEPT !.pending = <<>>,
                                        !.inputs = IF @ = <<>>
                                                   THEN <<Placeholder(q, FreshNth(q))>> ELSE @]
                    ELSE req[q]]
        /\ inflight' = [inflight EXCEPT
                    ![k].stage = "gathered",
                    ![k].tokens = tokens,
                    ![k].next = [i \in Idx |->
                        IF i \in own /\ req[seqs[i]].inputs = <<>>
                        THEN Placeholder(seqs[i], FreshNth(seqs[i])) ELSE None],
                    ![k].iBatches = [i \in Idx |->
                        IF i \in own /\ req[seqs[i]].inputs = <<>>
                        THEN req[seqs[i]].iBatch ELSE 0]]
        /\ unresolved' = (unresolved \/ \E e \in DOMAIN tokens : tokens[e] = 0)
    /\ UNCHANGED <<seqs, sem, prevNil, nextSeq, panic>>

\* ComputeWithNotify: one computation at a time, in the order they are started.
Compute(k) ==
    /\ Alive
    /\ k \in DOMAIN inflight
    /\ inflight[k].stage = "gathered"
    /\ inflight' = [inflight EXCEPT ![k].stage = "started"]
    /\ ic' = [ic EXCEPT !.kv = Put(@, inflight[k].entries, inflight[k].loc, inflight[k].tokens)]
    /\ UNCHANGED <<req, seqs, sem, prevNil, nextSeq, panic, unresolved>>

\* The token of a placeholder becomes known to everyone who points to it.
Filled(inputs, p, t) == [j \in DOMAIN inputs |-> IF inputs[j] = p THEN Input(t) ELSE inputs[j]]

FilledSlot(slot, p, t) == [slot EXCEPT !.inputs = Filled(@, p, t)]

FilledBatch(b, p, t) ==
    [b EXCEPT !.entries = [e \in DOMAIN b.entries |->
        [b.entries[e] EXCEPT !.input = IF b.entries[e].input = p THEN Input(t)
                                       ELSE b.entries[e].input]]]

Resolve(w, p, t) ==
    [w EXCEPT
        !.req[p.of].inputs  = Filled(@, p, t),
        !.req[p.of].pending = Filled(@, p, t),
        !.ic.slots = [s \in Slots |-> FilledSlot(w.ic.slots[s], p, t)],
        !.inflight = [k \in DOMAIN w.inflight |-> FilledBatch(w.inflight[k], p, t)]]

\* What sampling may lead to: an end of sequence, or a token that is passed on,
\* held back because a stop sequence may have begun, or completes a stop
\* sequence that began cut pieces before it.
Outcomes ==
         [token : {Max(Vocab) + 1}, what : {"eos"}, cut : {0}]
    \cup [token : Vocab, what : {"flush", "hold", "gone"}, cut : {0}]
    \cup [token : Vocab, what : {"stop"}, cut : 0 .. MaxHeld]

Possible(q, o) ==
    /\ o.what = "hold" => req[q].held < MaxHeld
    /\ o.what = "stop" => o.cut <= req[q].held
    /\ o.what = "gone" => req[q].quit

\* Second critical section, for sequence i, whose cache slot is s.
StopAt(w, i, s, cut) ==
    IF cut > Len(w.ic.slots[s].inputs) THEN [w EXCEPT !.panic = "stop"]
    ELSE removeSequence([w EXCEPT !.ic.slots[s].inputs = SubSeq(@, 1, Len(@) - cut)], i, "stop")

Sampled(w, i, q, o) ==
    IF o.what = "eos" THEN removeSequence(w, i, "stop")
    ELSE IF w.req[q].limit > 0 /\ w.req[q].predicted >= w.req[q].limit
    THEN removeSequence(w, i, "length")
    ELSE IF o.what = "stop" THEN StopAt(w, i, w.req[q].slot, o.cut)
    ELSE IF o.what = "hold" THEN [w EXCEPT !.req[q].held = @ + 1]
    ELSE IF o.what = "flush" THEN [w EXCEPT !.req[q].held = 0]
    ELSE removeSequence(w, i, "gone")

DecodeOne(w, i, p, o) ==
    IF w.panic # "no" THEN w
    ELSE Sampled([Resolve(w, p, o.token) EXCEPT !.req[p.of].predicted = @ + 1], i, p.of, o)

\* The loop over s.seqs; outcome says what is sampled for the sequences that
\* this batch yields a token for.
DecodeIndex(w, i, b, outcome) ==
    IF i \in DOMAIN outcome THEN DecodeOne(w, i, b.next[i], outcome[i]) ELSE w

Decoded(w0, b, outcome) ==
    LET decoded[n \in 0 .. NumSlots] ==
            IF n = 0 THEN w0 ELSE DecodeIndex(decoded[n - 1], n - 1, b, outcome)
    IN  decoded

DecodeAll(w0, b, outcome) == Decoded(w0, b, outcome)[NumSlots]

\* Mutant: the batch after the k-th is not told that its inputs are known.
FinishedSilently(k) == [j \in 1 .. Len(inflight) - 1 |-> inflight[IF j < k THEN j ELSE j + 1]]

\* The batches without the k-th, whose outputs the next one may wait for.
Finished(k) ==
    [j \in 1 .. Len(inflight) - 1 |->
        IF j < k THEN inflight[j]
        ELSE [inflight[j + 1] EXCEPT !.waits = @ /\ j # k]]

Decode(k) ==
    /\ Alive
    /\ k \in DOMAIN inflight
    /\ inflight[k].stage = "started"
    /\ \E mine \in {{i \in Idx : /\ seqs[i] # None
                                 /\ inflight[k].next[i] # None
                                 /\ inflight[k].seqs[i] = seqs[i]}} :
        \E outcome \in [mine -> Outcomes] :
            /\ \A i \in mine : Possible(seqs[i], outcome[i])
            /\ \E w \in {DecodeAll([req |-> req, seqs |-> seqs, sem |-> sem, ic |-> ic,
                                    inflight |-> Finished(k), panic |-> panic],
                                   inflight[k], outcome)} :
                /\ req' = w.req /\ seqs' = w.seqs /\ sem' = w.sem /\ ic' = w.ic
                /\ inflight' = w.inflight /\ panic' = w.panic
    /\ prevNil' = (prevNil \/ k = Len(inflight))
    /\ UNCHANGED <<nextSeq, unresolved>>

-----------------------------------------------------------------------------
Next ==
    \/ \E q \in Requests : Submit(q) \/ Acquire(q) \/ Load(q) \/ ClientGone(q)
    \/ ForwardBatch
    \/ \E k \in DOMAIN inflight : GatherInputs(k) \/ Compute(k) \/ Decode(k)

Spec == Init /\ [][Next]_vars

\* The loop and the goroutines of the batches run on, and Acquire is fair
\* (semaphore.Weighted queues the waiting handlers).  This is weak fairness of
\* the first three actions and strong fairness of Acquire, written out with the
\* guards of the actions, since what ENABLED would compute is their whole effect.
Ready(k)     == k \in DOMAIN inflight /\ Alive /\ ~inflight[k].waits
BatchStep(k) == GatherInputs(k) \/ Compute(k) \/ Decode(k)

FairSpec ==
    /\ Spec
    /\ []<>~CanForward \/ []<><<ForwardBatch>>_vars
    /\ \A k \in 1 .. MaxInflight : []<>~Ready(k) \/ []<><<BatchStep(k)>>_vars
    /\ \A q \in Requests :
        /\ []<>~(req[q].pc = "load" /\ Alive) \/ []<><<Load(q)>>_vars
        /\ <>[]~(req[q].pc = "acquire" /\ ~req[q].quit /\ sem < NumSlots /\ Alive)
             \/ []<><<Acquire(q)>>_vars

-----------------------------------------------------------------------------
(* Properties *)

InputType == [token : Nat, of : Requests \cup {None}, nth : Nat]

\* Types: every field of a sequence, a slot, a cell and a batch stays in its
\* range; no position leaves the context.
TypeOK ==
    /\ \A q \in Requests :
        /\ req[q].pc \in {"new", "acquire", "load", "stream", "done"}
        /\ req[q].inputs \in Seq(InputType) /\ req[q].pending \in Seq(InputType)
        /\ req[q].slot \in Slots \cup {None}
        /\ req[q].keep \in 0 .. NumCtx - 1
        /\ req[q].reason \in {None, "error", "gone", "length", "stop"}
    /\ seqs \in [Idx -> Requests \cup {None}]
    /\ sem \in 0 .. NumSlots
    /\ nextSeq \in 0 .. NumSlots
    /\ \A s \in Slots : ic.slots[s].inputs \in Seq(InputType) /\ Len(ic.slots[s].inputs) <= NumCtx
    /\ \A c \in DOMAIN ic.kv.cells : /\ ic.kv.cells[c].pos \in 0 .. NumCtx - 1
                                     /\ ic.kv.cells[c].sequences \subseteq Slots
    /\ \A k \in DOMAIN inflight : Len(inflight[k].entries) \in 1 .. BatchSize
    /\ panic \in {"no", "slot", "kv full", "stop"}

Owned(b, e) == \E i \in Idx : seqs[i] = b.entries[e].q /\ b.seqs[i] = seqs[i]

\* What entry e of a batch that is about to be computed attends to, and what it
\* ought to: the inputs of its sequence within the window, each at its position.
Attends(b, kv, e) == {<<kv.data[c].pos, kv.data[c].token>> : c \in b.mask[e]}
Context(b, e) ==
    {<<p, ic.slots[b.entries[e].slot].inputs[p + 1].token>> :
        p \in Max({0, b.entries[e].pos - ic.kv.window}) .. b.entries[e].pos}

\* A batch that is about to be computed attends, for each of its sequences, to
\* exactly the inputs its cache slot records ("Inputs that are stored in the KV
\* cache"), once each and at their positions: whatever was reused from an
\* earlier request, shared by a fork, shifted, forgotten by the window or taken
\* from a sequence that ended while the batch was under way.
AttentionExact ==
    ~unresolved =>
    \A k \in DOMAIN inflight :
        inflight[k].stage = "gathered" =>
            \E kv \in {Put(ic.kv, inflight[k].entries, inflight[k].loc, inflight[k].tokens)} :
                \A e \in DOMAIN inflight[k].entries :
                    Owned(inflight[k], e) =>
                        /\ Attends(inflight[k], kv, e) = Context(inflight[k], e)
                        /\ Cardinality(inflight[k].mask[e]) = Cardinality(Context(inflight[k], e))

\* The logits a token is sampled from are those of the last input that the
\* sequence has in this very batch, although forwardBatch sets seq.iBatch for
\* the next batch before this one is decoded.
OwnLogits ==
    \A k \in DOMAIN inflight : \A i \in Idx :
        inflight[k].next[i] # None =>
            LET b == inflight[k]
            IN  /\ b.iBatches[i] \in DOMAIN b.outputs
                /\ b.outputs[b.iBatches[i]] =
                     Max({e \in DOMAIN b.entries : b.entries[e].q = b.seqs[i]})

\* A permit of the semaphore is an entry of s.seqs and a free cache slot: a
\* handler that got through Acquire finds both, so "no available cache slots"
\* and the nil slot of findBestCacheSlot never come up.  No two sequences share
\* a slot, and the slot of a sequence that ended is free.
SlotsAccounted ==
    /\ panic # "slot"
    /\ sem = Cardinality({q \in Requests : req[q].pc = "load"})
             + Cardinality({i \in Idx : seqs[i] # None})
    /\ {s \in Slots : ic.slots[s].inUse} = {req[seqs[i]].slot : i \in {j \in Idx : seqs[j] # None}}
    /\ \A i, j \in Idx : i # j /\ seqs[i] # None /\ seqs[j] # None =>
            req[seqs[i]].slot # req[seqs[j]].slot

\* The cells that Init allocates are enough: forwardBatch, whose errors end the
\* process, never meets ErrKvCacheFull, though the window forgets lazily and
\* cells of ended sequences stay.
NeverFull == panic # "kv full"

\* Every token is known when a batch computes with it ("Gather the actual input
\* token values now that they're ready").
TokensResolved == ~unresolved

\* Every request ends, unless the process dies: no sequence starves behind
\* others that fill the batches, and none waits for a batch that is not computed.
EveryoneEnds ==
    \A q \in Requests : req[q].pc = "acquire" ~> (req[q].pc = "done" \/ ~Alive)
=============================================================================
