------------------------- MODULE RunnerLogitsProofs -------------------------
(***************************************************************************)
(* Proofs about Runner: a token is sampled from the logits of the last     *)
(* input of its sequence in the batch that yields it, although forwardBatch*)
(* is ahead by a batch and seq.iBatch is overwritten by then.              *)
(***************************************************************************)
EXTENDS RunnerProofs

-----------------------------------------------------------------------------
(* The invariant *)

\* The n-th output of a batch is the last entry that q has in it.
LogitsOf(b, q, n) ==
    /\ n \in DOMAIN b.outputs
    /\ b.outputs[n] \in DOMAIN b.entries
    /\ b.entries[b.outputs[n]].q = q
    /\ \A e \in DOMAIN b.entries : b.entries[e].q = q => e <= b.outputs[n]

EntriesShape(b) ==
    /\ IsSeq(b.entries) /\ IsSeq(b.outputs)
    /\ \A e \in DOMAIN b.entries : DOMAIN b.entries[e] = {"slot", "pos", "input", "q"}

BatchShape(b) ==
    /\ DOMAIN b = {"stage", "waits", "entries", "outputs", "seqs", "loc", "mask", "tokens",
                   "next", "iBatches"}
    /\ EntriesShape(b)

InputsShape(s) == IsSeq(s) /\ (Len(s) = 0 => s = <<>>)

\* A request that waits to be loaded has inputs.
InputsOK(rq) ==
    \A q \in Requests : /\ InputsShape(rq[q].inputs)
                        /\ rq[q].pc \in {"acquire", "load"} => Len(rq[q].inputs) >= 1

\* A batch that is not computed yet is the last one.
OnlyLastWaits ==
    \A k \in DOMAIN inflight : k < Len(inflight) \/ prevNil => inflight[k].stage = "started"

\* The index that computeBatch keeps is the one of the batch itself.
KeptIndex ==
    \A k \in DOMAIN inflight : \A i \in Idx :
        inflight[k].next[i] # None =>
            LogitsOf(inflight[k], inflight[k].seqs[i], inflight[k].iBatches[i])

\* A sequence without inputs has its last ones in a batch that is ready, and
\* seq.iBatch is still about that batch.
UsedUp ==
    \A i \in Occupied(seqs) :
        Len(req[seqs[i]].inputs) = 0 =>
            \E k \in DOMAIN inflight :
                /\ inflight[k].stage = "ready"
                /\ inflight[k].seqs[i] = seqs[i]
                /\ LogitsOf(inflight[k], seqs[i], req[seqs[i]].iBatch)

LogitsInv ==
    /\ IsSeq(inflight)
    /\ \A k \in DOMAIN inflight : BatchShape(inflight[k])
    /\ prevNil \in BOOLEAN
    /\ nextSeq \in 0 .. NumSlots
    /\ InputsOK(req)
    /\ OnlyLastWaits
    /\ KeptIndex
    /\ Alive => UsedUp

-----------------------------------------------------------------------------
(* Batches *)

\* The output of q stays when a batch gets entries of others.
LEMMA LogitsStay ==
    ASSUME NEW b, NEW c, NEW q, NEW n, LogitsOf(b, q, n),
           \A m \in DOMAIN b.outputs : m \in DOMAIN c.outputs /\ c.outputs[m] = b.outputs[m],
           \A e \in DOMAIN b.entries : e \in DOMAIN c.entries /\ c.entries[e].q = b.entries[e].q,
           \A e \in DOMAIN c.entries : c.entries[e].q = q => e \in DOMAIN b.entries
    PROVE  LogitsOf(c, q, n)
BY DEF LogitsOf

\* It is the one that OwnLogits asks for.
LEMMA LogitsAreOwn ==
    ASSUME NEW b, NEW q, NEW n, LogitsOf(b, q, n), EntriesShape(b)
    PROVE  n \in DOMAIN b.outputs /\ b.outputs[n] = Max({e \in DOMAIN b.entries : b.entries[e].q = q})
<1> DEFINE S == {e \in DOMAIN b.entries : b.entries[e].q = q}
           m == b.outputs[n]
<1>1. n \in DOMAIN b.outputs /\ m \in S /\ \A e \in S : m >= e
  BY DEF LogitsOf, EntriesShape, IsSeq
<1>2. S \subseteq Nat
  BY DEF EntriesShape, IsSeq
<1> HIDE DEF S, m
<1>3. Max(S) \in S /\ \A e \in S : Max(S) >= e
  BY <1>1 DEF Max
<1>4. m = Max(S)
  <2>1. m \in Nat /\ Max(S) \in Nat /\ m >= Max(S) /\ Max(S) >= m
    BY <1>1, <1>2, <1>3
  <2> HIDE DEF S
  <2> QED BY <2>1
<1> QED BY <1>1, <1>4 DEF S, m

-----------------------------------------------------------------------------
(* The loop of forwardBatch *)

\* What a round passes to the next: the inputs of a sequence that has none left
\* are in the batch.
VisitLogits(w) ==
    /\ EntriesShape(w)
    /\ InputsOK(w.req)
    /\ DOMAIN w.snapshot = Idx
    /\ \A i \in Occupied(w.seqs) :
        Len(w.req[w.seqs[i]].inputs) = 0 =>
            /\ w.snapshot[i] = w.seqs[i]
            /\ LogitsOf(w, w.seqs[i], w.req[w.seqs[i]].iBatch)

\* Taking inputs of sequence i into the batch.
LEMMA TakeLogits ==
    ASSUME NEW w, VisitInv(w), VisitLogits(w), NEW i \in Occupied(w.seqs),
           w.snapshot[i] = w.seqs[i], Len(w.req[w.seqs[i]].inputs) >= 1,
           NEW past, NEW n \in Int, n <= Len(w.req[w.seqs[i]].inputs),
           NEW v, v = Take(w, w.seqs[i], past, n)
    PROVE  VisitLogits(v) /\ v.snapshot = w.snapshot /\ v.seqs = w.seqs
<1> DEFINE q    == w.seqs[i]
           all  == w.req[q].inputs
           more == [j \in 1 .. n |-> [slot |-> w.req[q].slot, pos |-> past + j - 1,
                                      input |-> w.req[q].inputs[j], q |-> q]]
           out  == IF n = Len(all) THEN Append(w.outputs, Len(w.entries) + n) ELSE w.outputs
           iB   == Len(w.outputs) + 1
           took == SubSeq(all, 1, n)
           left == SubSeq(all, n + 1, Len(all))
<1>1. q \in Requests /\ w.req[q].pc = "stream"
  BY DEF VisitInv, Acc, Owners, Occupied
<1>2. /\ v.entries = w.entries \o more /\ v.outputs = out
      /\ v.snapshot = w.snapshot /\ v.seqs = w.seqs
      /\ v.req = [w.req EXCEPT ![q].iBatch = iB, ![q].pending = took, ![q].inputs = left]
  <2>1. DOMAIN w = {"req", "seqs", "sem", "ic", "snapshot", "entries", "outputs", "resume"}
        /\ DOMAIN w.req = Requests
        /\ DOMAIN w.req[q] = {"pc", "inputs", "pending", "slot", "iBatch", "predicted", "held",
                              "quit", "limit", "keep", "shift", "reason"}
    BY <1>1 DEF VisitInv, Acc, ReqShape
  <2>2. v = [w EXCEPT !.entries = @ \o more, !.outputs = out,
                      !.req[q].iBatch = iB, !.req[q].pending = took, !.req[q].inputs = left]
    BY <2>1 DEF Take
  <2> HIDE DEF more, out, iB, took, left, q
  <2> QED BY <2>1, <2>2
<1>3. Len(all) \in Nat /\ Len(all) >= 1 /\ n <= Len(all)
  BY <1>1 DEF VisitInv, Acc, ReqShape, IsSeq
<1>4. /\ IsSeq(more) /\ Len(more) = IF n < 0 THEN 0 ELSE n
      /\ \A j \in 1 .. Len(more) : DOMAIN more[j] = {"slot", "pos", "input", "q"} /\ more[j].q = q
  <2>1. IsSeq(more) /\ Len(more) = IF n < 0 THEN 0 ELSE n
    <3>1. DOMAIN more = 1 .. n
      OBVIOUS
    <3> HIDE DEF more
    <3> QED BY <3>1, FunIsSeq
  <2>2. \A j \in 1 .. n : DOMAIN more[j] = {"slot", "pos", "input", "q"} /\ more[j].q = q
    OBVIOUS
  <2> HIDE DEF more
  <2> QED BY <2>1, <2>2
<1>5. InputsShape(left) /\ Len(left) = Len(all) - n
  <2>1. Len(left) = Len(all) - n /\ IsSeq(left)
    BY <1>3, SubIsSeq
  <2>2. Len(left) = 0 => left = <<>>
    BY <1>3, <2>1
  <2> QED BY <2>1, <2>2 DEF InputsShape
<1>6. IsSeq(w.entries) /\ IsSeq(w.outputs)
  BY DEF VisitLogits, EntriesShape
<1>7. /\ IsSeq(out) /\ \A m \in DOMAIN w.outputs : m \in DOMAIN out /\ out[m] = w.outputs[m]
      /\ n = Len(all) => iB \in DOMAIN out /\ out[iB] = Len(w.entries) + n
  BY <1>6 DEF IsSeq
<1> HIDE DEF all, more, out, iB, took, left
<1>8. /\ IsSeq(v.entries) /\ Len(v.entries) = Len(w.entries) + Len(more)
      /\ \A e \in DOMAIN w.entries : e \in DOMAIN v.entries /\ v.entries[e] = w.entries[e]
      /\ \A e \in DOMAIN v.entries : e \in DOMAIN w.entries
            \/ \E j \in 1 .. Len(more) : e = Len(w.entries) + j /\ v.entries[e] = more[j]
  <2>1. IsSeq(w.entries \o more) /\ Len(w.entries \o more) = Len(w.entries) + Len(more)
    BY <1>4, <1>6, CatIsSeq
  <2>2. \A e \in 1 .. Len(w.entries) : (w.entries \o more)[e] = w.entries[e]
    BY <1>4, <1>6 DEF IsSeq
  <2>3. \A j \in 1 .. Len(more) : (w.entries \o more)[Len(w.entries) + j] = more[j]
    BY <1>4, <1>6 DEF IsSeq
  <2>4. \A e \in 1 .. Len(w.entries) + Len(more) :
          e \in 1 .. Len(w.entries) \/ \E j \in 1 .. Len(more) : e = Len(w.entries) + j
    <3> TAKE e \in 1 .. Len(w.entries) + Len(more)
    <3>1. Len(w.entries) \in Nat /\ Len(more) \in Nat
      BY <1>4, <1>6 DEF IsSeq
    <3>2. CASE e > Len(w.entries)
      <4>1. e - Len(w.entries) \in 1 .. Len(more) /\ e = Len(w.entries) + (e - Len(w.entries))
        BY <3>1, <3>2
      <4> QED BY <4>1
    <3>3. CASE ~(e > Len(w.entries))
      BY <3>1, <3>3
    <3> QED BY <3>2, <3>3
  <2>5. DOMAIN w.entries = 1 .. Len(w.entries) /\ v.entries = w.entries \o more
        /\ DOMAIN v.entries = 1 .. Len(w.entries) + Len(more)
        /\ Len(w.entries) \in Nat /\ Len(more) \in Nat
    BY <1>2, <1>4, <1>6, <2>1 DEF IsSeq
  <2>6. \A e \in DOMAIN w.entries : e \in DOMAIN v.entries /\ v.entries[e] = w.entries[e]
    BY <2>2, <2>5
  <2>7. \A e \in DOMAIN v.entries : e \in DOMAIN w.entries
            \/ \E j \in 1 .. Len(more) : e = Len(w.entries) + j /\ v.entries[e] = more[j]
    <3> TAKE e \in DOMAIN v.entries
    <3>1. CASE e \in 1 .. Len(w.entries)
      BY <2>5, <3>1
    <3>2. CASE e \notin 1 .. Len(w.entries)
      <4>1. PICK j \in 1 .. Len(more) : e = Len(w.entries) + j
        BY <2>4, <2>5, <3>2
      <4>2. v.entries[e] = more[j]
        BY <2>3, <2>5, <4>1
      <4> QED BY <4>1, <4>2
    <3> QED BY <3>1, <3>2
  <2> QED BY <1>2, <2>1, <2>6, <2>7
<1>9. EntriesShape(v)
  <2>1. \A e \in DOMAIN v.entries : DOMAIN v.entries[e] = {"slot", "pos", "input", "q"}
    <3> TAKE e \in DOMAIN v.entries
    <3>1. CASE e \in DOMAIN w.entries
      BY <1>8, <3>1 DEF EntriesShape, VisitLogits
    <3>2. CASE e \notin DOMAIN w.entries
      BY <1>4, <1>8, <3>2
    <3> QED BY <3>1, <3>2
  <2> QED BY <1>2, <1>7, <1>8, <2>1 DEF EntriesShape
<1>10. \A x \in Requests : /\ v.req[x].pc = w.req[x].pc
                           /\ v.req[x].inputs = IF x = q THEN left ELSE w.req[x].inputs
                           /\ v.req[x].iBatch = IF x = q THEN iB ELSE w.req[x].iBatch
  BY <1>1, <1>2 DEF VisitInv, Acc, ReqShape
<1>11. InputsOK(v.req)
  BY <1>1, <1>5, <1>10 DEF InputsOK, VisitLogits
<1>12. ASSUME NEW j \in Occupied(v.seqs), Len(v.req[v.seqs[j]].inputs) = 0
       PROVE  v.snapshot[j] = v.seqs[j] /\ LogitsOf(v, v.seqs[j], v.req[v.seqs[j]].iBatch)
  <2>1. j \in Occupied(w.seqs) /\ w.seqs[j] \in Requests /\ v.seqs[j] = w.seqs[j]
    BY <1>2, <1>12 DEF VisitInv, Acc, Owners, Occupied
  <2>2. CASE j = i
    <3>1. n = Len(all) /\ v.req[q].iBatch = iB
      <4>1. v.seqs[j] = q /\ v.req[q].inputs = left /\ v.req[q].iBatch = iB
        BY <1>1, <1>10, <2>1, <2>2
      <4>2. Len(left) = 0
        BY <1>12, <4>1
      <4> QED BY <1>3, <1>5, <4>1, <4>2
    <3>2. Len(more) = n /\ n \in 1 .. Len(more) /\ Len(w.entries) \in Nat
      BY <1>3, <1>4, <1>6, <3>1 DEF IsSeq
    <3> DEFINE last == Len(w.entries) + n
    <3>3. last \in DOMAIN v.entries /\ \A e \in DOMAIN v.entries : e <= last
      BY <1>8, <3>2 DEF IsSeq
    <3>4. v.entries[last].q = q
      <4>1. last \notin DOMAIN w.entries
        BY <1>6, <3>2 DEF IsSeq
      <4> QED BY <1>4, <1>8, <3>3, <4>1
    <3>5. iB \in DOMAIN v.outputs /\ v.outputs[iB] = last
      BY <1>2, <1>7, <3>1
    <3> HIDE DEF last
    <3>6. LogitsOf(v, q, iB)
      BY <3>3, <3>4, <3>5 DEF LogitsOf
    <3> QED BY <1>2, <2>1, <2>2, <3>1, <3>6
  <2>3. CASE j # i
    <3>1. w.seqs[j] # q
      BY <2>1, <2>3 DEF VisitInv, Acc, Owners
    <3>2. /\ w.snapshot[j] = w.seqs[j] /\ LogitsOf(w, w.seqs[j], w.req[w.seqs[j]].iBatch)
          /\ v.req[w.seqs[j]].iBatch = w.req[w.seqs[j]].iBatch
      BY <1>10, <1>12, <2>1, <3>1 DEF VisitLogits
    <3>3. \A m \in DOMAIN w.outputs : m \in DOMAIN v.outputs /\ v.outputs[m] = w.outputs[m]
      BY <1>2, <1>7
    <3>4. \A e \in DOMAIN v.entries : v.entries[e].q = w.seqs[j] => e \in DOMAIN w.entries
      BY <1>4, <1>8, <3>1
    <3>5. LogitsOf(v, w.seqs[j], w.req[w.seqs[j]].iBatch)
      BY <1>8, <3>2, <3>3, <3>4, LogitsStay
    <3> QED BY <1>2, <2>1, <3>2, <3>5
  <2> QED BY <2>2, <2>3
<1> QED BY <1>2, <1>9, <1>11, <1>12 DEF VisitLogits

\* Nothing of this is about the cache.
LEMMA SameVisit ==
    ASSUME NEW w, VisitLogits(w),
           NEW v, v.entries = w.entries, v.outputs = w.outputs, v.req = w.req,
           v.seqs = w.seqs, v.snapshot = w.snapshot
    PROVE  VisitLogits(v)
<1>1. EntriesShape(v)
  BY DEF VisitLogits, EntriesShape
<1>2. \A q, n : LogitsOf(w, q, n) => LogitsOf(v, q, n)
  BY DEF LogitsOf
<1> QED BY <1>1, <1>2 DEF VisitLogits

\* As many inputs as there is room for.
LEMMA TakeInputsLogits ==
    ASSUME NEW w, VisitInv(w), VisitLogits(w), NEW i \in Occupied(w.seqs),
           w.snapshot[i] = w.seqs[i], Len(w.req[w.seqs[i]].inputs) >= 1,
           NEW v, v = TakeInputs(w, w.seqs[i])
    PROVE  VisitLogits(v) /\ v.snapshot = w.snapshot /\ v.seqs = w.seqs
<1> DEFINE q == w.seqs[i]
           a == BatchSize - Len(w.entries)
           b == NumCtx - Cached(w, q)
           c == Len(w.req[q].inputs)
<1>1. q \in Requests /\ w.req[q].slot \in Slots
  BY DEF VisitInv, Acc, Owners, Occupied
<1>2. Cached(w, q) \in Int
  BY <1>1 DEF VisitInv, Acc, CacheShape, SlotShape, Cached, IsSeq
<1>3. a \in Int /\ b \in Int /\ c \in Int
  BY <1>1, <1>2, CacheConstants DEF VisitInv, Acc, ReqShape, IsSeq
<1>4. v = Take(w, q, Cached(w, q), Min({a, b, c}))
  BY DEF TakeInputs
<1> HIDE DEF a, b, c
<1>5. Min({a, b, c}) \in Int /\ Min({a, b, c}) <= c
  BY <1>3, MinOfThree
<1> QED BY <1>4, <1>5, TakeLogits DEF c

\* A sequence that ends takes nothing from the others.
LEMMA RemoveFields ==
    ASSUME NEW w, {"req", "seqs", "sem", "ic"} \subseteq DOMAIN w,
           Acc(w.req, w.seqs, w.sem, w.ic), InputsOK(w.req),
           NEW i \in Idx, w.seqs[i] # None, NEW why, NEW v, v = removeSequence(w, i, why)
    PROVE  /\ \A j \in Idx : v.seqs[j] = IF j = i THEN None ELSE w.seqs[j]
           /\ InputsOK(v.req)
           /\ \A j \in Occupied(v.seqs) : /\ j \in Occupied(w.seqs) /\ v.seqs[j] = w.seqs[j]
                                          /\ w.seqs[j] \in Requests
                                          /\ v.req[v.seqs[j]] = w.req[w.seqs[j]]
<1> DEFINE q   == w.seqs[i]
           new == [Blank EXCEPT !.pc = "done", !.reason = why, !.predicted = w.req[q].predicted]
<1>1. /\ v.req = [w.req EXCEPT ![q] = new]
      /\ v.seqs = [w.seqs EXCEPT ![i] = None]
  BY DEF removeSequence
<1>2. new.pc = "done" /\ new.inputs = <<>>
  BY DEF Blank
<1>3. q \in Requests /\ i \in Occupied(w.seqs)
  BY DEF Acc, Owners, Occupied
<1> HIDE DEF q, new
<1>4. \A p \in Requests : v.req[p] = IF p = q THEN new ELSE w.req[p]
  BY <1>1 DEF Acc, ReqShape
<1>5. \A j \in Idx : v.seqs[j] = IF j = i THEN None ELSE w.seqs[j]
  BY <1>1 DEF Acc, Owners
<1>6. InputsOK(v.req)
  <2>1. InputsShape(<<>>)
    BY DEF InputsShape, IsSeq
  <2> QED BY <1>2, <1>4, <2>1 DEF InputsOK
<1>7. \A j \in Occupied(v.seqs) : /\ j \in Occupied(w.seqs) /\ v.seqs[j] = w.seqs[j]
                                  /\ w.seqs[j] \in Requests
                                  /\ v.req[v.seqs[j]] = w.req[w.seqs[j]]
  <2> TAKE j \in Occupied(v.seqs)
  <2>1. j \in Occupied(w.seqs) /\ j # i /\ v.seqs[j] = w.seqs[j]
    BY <1>5 DEF Occupied
  <2>2. w.seqs[j] \in Requests /\ w.seqs[j] # q
    BY <2>1, <1>3 DEF Acc, Owners, Occupied, q
  <2> QED BY <2>1, <2>2, <1>4
<1> QED BY <1>5, <1>6, <1>7

\* What is joined with something has something.
LEMMA JoinedSome ==
    ASSUME NEW s, NEW t, IsSeq(s), IsSeq(t), Len(t) >= 1
    PROVE  IsSeq(s \o t) /\ Len(s \o t) >= 1
<1> DEFINE j == s \o t
<1>1. IsSeq(j) /\ Len(j) = Len(s) + Len(t)
  BY CatIsSeq
<1>2. Len(s) \in Nat /\ Len(t) \in Nat
  BY DEF IsSeq
<1> HIDE DEF j
<1>3. Len(j) >= 1
  BY <1>1, <1>2
<1> QED BY <1>1, <1>3 DEF j

\* A round of the loop.
LEMMA VisitRound ==
    ASSUME NEW w, VisitInv(w), VisitLogits(w), NEW i \in Idx, w.snapshot[i] = w.seqs[i],
           NEW v, v = VisitIndex(w, i)
    PROVE  /\ VisitLogits(v)
           /\ \A j \in Idx \ {i} : v.snapshot[j] = w.snapshot[j] /\ v.seqs[j] = w.seqs[j]
<1> DEFINE q == w.seqs[i]
<1>1. v = Visit(w, i, q)
  BY DEF VisitIndex
<1>2. CASE q = None \/ w.req[q].inputs = <<>>
  <2>1. v = w
    BY <1>1, <1>2 DEF Visit
  <2> QED BY <2>1
<1>3. CASE q # None /\ w.req[q].inputs # <<>>
  <2>1. /\ q \in Requests /\ w.req[q].slot \in Slots /\ w.req[q].keep \in Int
        /\ i \in Occupied(w.seqs) /\ w.req[q].pc = "stream"
    BY <1>3 DEF VisitInv, Acc, Owners, Occupied, ReqShape
  <2>2. IsSeq(w.req[q].inputs) /\ Len(w.req[q].inputs) >= 1
    BY <1>3, <2>1 DEF VisitLogits, InputsOK, InputsShape, IsSeq
  <2> HIDE DEF q
  <2>3. CASE Len(w.entries) = BatchSize
    <3>1. v = [w EXCEPT !.resume = IF @ = None THEN i ELSE @]
      BY <1>1, <1>3, <2>3 DEF Visit
    <3>2. /\ v.entries = w.entries /\ v.outputs = w.outputs /\ v.req = w.req
          /\ v.seqs = w.seqs /\ v.snapshot = w.snapshot
      BY <3>1 DEF VisitInv
    <3>3. VisitLogits(v)
      BY <3>2, SameVisit
    <3> QED BY <3>2, <3>3
  <2>4. CASE Len(w.entries) # BatchSize /\ Cached(w, q) + 1 <= NumCtx
    <3>1. v = TakeInputs(w, q)
      BY <1>1, <1>3, <2>4 DEF Visit
    <3>2. VisitLogits(v) /\ v.snapshot = w.snapshot /\ v.seqs = w.seqs
      BY <2>1, <2>2, <3>1, TakeInputsLogits DEF q
    <3> QED BY <3>2
  <2>5. CASE Len(w.entries) # BatchSize /\ ~(Cached(w, q) + 1 <= NumCtx) /\ ~w.req[q].shift
    <3> DEFINE u == removeSequence(w, i, "length")
    <3>1. v = [u EXCEPT !.snapshot[i] = None]
      BY <1>1, <1>3, <2>5 DEF Visit
    <3>2. /\ DOMAIN u = DOMAIN w /\ u.snapshot = w.snapshot
          /\ u.entries = w.entries /\ u.outputs = w.outputs
      BY DEF VisitInv, removeSequence
    <3>3. /\ \A j \in Idx : u.seqs[j] = IF j = i THEN None ELSE w.seqs[j]
          /\ InputsOK(u.req)
          /\ \A j \in Occupied(u.seqs) : /\ j \in Occupied(w.seqs) /\ u.seqs[j] = w.seqs[j]
                                         /\ w.seqs[j] \in Requests
                                         /\ u.req[u.seqs[j]] = w.req[w.seqs[j]]
      BY <1>3, RemoveFields DEF VisitInv, VisitLogits, q
    <3> HIDE DEF u
    <3>4. /\ v.req = u.req /\ v.seqs = u.seqs /\ v.entries = u.entries /\ v.outputs = u.outputs
          /\ v.snapshot = [w.snapshot EXCEPT ![i] = None]
      BY <3>1, <3>2 DEF VisitInv
    <3>5. /\ DOMAIN v.snapshot = Idx
          /\ \A j \in Idx \ {i} : v.snapshot[j] = w.snapshot[j] /\ v.seqs[j] = w.seqs[j]
      BY <3>3, <3>4 DEF VisitLogits
    <3>6. ASSUME NEW j \in Occupied(v.seqs), Len(v.req[v.seqs[j]].inputs) = 0
          PROVE  v.snapshot[j] = v.seqs[j] /\ LogitsOf(v, v.seqs[j], v.req[v.seqs[j]].iBatch)
      <4>1. j \in Occupied(w.seqs) /\ v.seqs[j] = w.seqs[j] /\ v.req[v.seqs[j]] = w.req[w.seqs[j]]
        BY <3>3, <3>4, <3>6
      <4>2. w.snapshot[j] = w.seqs[j] /\ LogitsOf(w, w.seqs[j], w.req[w.seqs[j]].iBatch)
        BY <3>6, <4>1 DEF VisitLogits
      <4>3. j \in Idx /\ j # i
        BY <3>3, <3>4 DEF Occupied
      <4>4. LogitsOf(v, w.seqs[j], w.req[w.seqs[j]].iBatch)
        BY <4>2, <3>2, <3>4 DEF LogitsOf
      <4> QED BY <4>1, <4>2, <4>3, <4>4, <3>5
    <3>7. EntriesShape(v)
      BY <3>2, <3>4 DEF EntriesShape, VisitLogits
    <3> QED BY <3>3, <3>4, <3>5, <3>6, <3>7 DEF VisitLogits
  <2>6. CASE Len(w.entries) # BatchSize /\ ~(Cached(w, q) + 1 <= NumCtx) /\ w.req[q].shift
    <3> DEFINE shifted == ShiftCacheSlot(w.ic, w.req[q].slot, w.req[q].keep)
    <3>1. v = AfterShift(w, i, q, shifted)
      BY <1>1, <1>3, <2>6 DEF Visit
    <3>2. SameUse(w.ic, shifted.ic) /\ IsSeq(shifted.reprocess)
      BY <2>1, ShiftKeeps DEF VisitInv, Acc
    <3> HIDE DEF shifted
    <3>3. CASE shifted.ok
      <4> DEFINE u == [w EXCEPT !.ic = shifted.ic]
      <4>1. SameReq(w.req, w.req)
        BY DEF VisitInv, Acc, SameReq
      <4>2. Acc(w.req, w.seqs, w.sem, shifted.ic)
        BY <3>2, <4>1, SameKeeps DEF VisitInv
      <4>3. VisitInv(u)
        BY <4>2 DEF VisitInv
      <4>4. v = TakeInputs(u, q)
        BY <3>1, <3>3 DEF AfterShift
      <4>5. /\ u.entries = w.entries /\ u.outputs = w.outputs /\ u.req = w.req
            /\ u.seqs = w.seqs /\ u.snapshot = w.snapshot
        BY DEF VisitInv
      <4> HIDE DEF u
      <4>6. VisitLogits(u)
        BY <4>5, SameVisit
      <4>7. VisitLogits(v) /\ v.snapshot = u.snapshot /\ v.seqs = u.seqs
        BY <2>1, <2>2, <4>3, <4>4, <4>5, <4>6, TakeInputsLogits DEF q
      <4> QED BY <4>5, <4>7
    <3>4. CASE ~shifted.ok
      <4> DEFINE all == shifted.reprocess \o w.req[q].inputs
      <4>1. v = [w EXCEPT !.ic = shifted.ic, !.req[q].inputs = all, !.snapshot[i] = None]
        BY <2>1, <3>1, <3>4 DEF AfterShift, VisitInv, Acc, ReqShape
      <4>2. IsSeq(all) /\ Len(all) >= 1
        BY <2>2, <3>2, JoinedSome
      <4> HIDE DEF all
      <4>3. /\ v.entries = w.entries /\ v.outputs = w.outputs /\ v.seqs = w.seqs
            /\ v.req = [w.req EXCEPT ![q].inputs = all]
            /\ v.snapshot = [w.snapshot EXCEPT ![i] = None]
        BY <4>1 DEF VisitInv
      <4>4. \A x \in Requests : /\ v.req[x].pc = w.req[x].pc
                                /\ v.req[x].inputs = IF x = q THEN all ELSE w.req[x].inputs
                                /\ v.req[x].iBatch = w.req[x].iBatch
        BY <2>1, <4>3 DEF VisitInv, Acc, ReqShape
      <4>5. InputsOK(v.req)
        BY <4>2, <4>4 DEF InputsOK, InputsShape, VisitLogits
      <4>6. /\ DOMAIN v.snapshot = Idx
            /\ \A j \in Idx \ {i} : v.snapshot[j] = w.snapshot[j] /\ v.seqs[j] = w.seqs[j]
        BY <4>3 DEF VisitLogits
      <4>7. ASSUME NEW j \in Occupied(v.seqs), Len(v.req[v.seqs[j]].inputs) = 0
            PROVE  v.snapshot[j] = v.seqs[j] /\ LogitsOf(v, v.seqs[j], v.req[v.seqs[j]].iBatch)
        <5>1. j \in Occupied(w.seqs) /\ j \in Idx /\ w.seqs[j] \in Requests /\ v.seqs[j] = w.seqs[j]
          BY <4>3, <4>7 DEF VisitInv, Acc, Owners, Occupied
        <5>2. w.seqs[j] # q
          BY <4>2, <4>4, <4>7, <5>1
        <5>3. j # i
          BY <5>2 DEF q
        <5>4. w.snapshot[j] = w.seqs[j] /\ LogitsOf(w, w.seqs[j], w.req[w.seqs[j]].iBatch)
          BY <4>4, <4>7, <5>1, <5>2 DEF VisitLogits
        <5>5. LogitsOf(v, w.seqs[j], w.req[w.seqs[j]].iBatch)
          BY <5>4, <4>3 DEF LogitsOf
        <5> QED BY <4>4, <4>6, <5>1, <5>3, <5>4, <5>5
      <4>8. EntriesShape(v)
        BY <4>3 DEF EntriesShape, VisitLogits
      <4> QED BY <4>5, <4>6, <4>7, <4>8 DEF VisitLogits
    <3> QED BY <3>3, <3>4
  <2> QED BY <2>3, <2>4, <2>5, <2>6
<1> QED BY <1>2, <1>3

At(m) == (nextSeq + m) % NumSlots

\* The loop comes to every index once.
LEMMA IndexOnce ==
    ASSUME nextSeq \in 0 .. NumSlots, NEW m \in 0 .. NumSlots - 1, NEW n \in 0 .. NumSlots - 1, m # n
    PROVE  At(m) \in Idx /\ At(n) \in Idx /\ At(m) # At(n)
<1>1. NumSlots \in Nat /\ NumSlots > 0
  BY SlotCount
<1>2. ASSUME NEW x \in 0 .. NumSlots - 1
      PROVE  /\ At(x) \in 0 .. NumSlots - 1
             /\ \/ At(x) = nextSeq + x
                \/ At(x) = nextSeq + x - NumSlots /\ nextSeq + x >= NumSlots
  <2> DEFINE y == nextSeq + x
             d == y \div NumSlots
             r == y % NumSlots
  <2>1. y \in Nat /\ y < 2 * NumSlots
    BY <1>1
  <2>2. d \in Nat /\ r \in 0 .. NumSlots - 1 /\ y = NumSlots * d + r
    BY <1>1, <2>1
  <2> HIDE DEF d, r
  <2>3. d = 0 \/ d = 1
    <3> SUFFICES ASSUME d >= 2 PROVE FALSE
      BY <2>2
    <3>1. NumSlots * d >= NumSlots * 2
      BY <1>1, <2>2
    <3> QED BY <1>1, <2>1, <2>2, <3>1
  <2> QED BY <1>1, <2>1, <2>2, <2>3 DEF At, r
<1> HIDE DEF At
<1> QED BY <1>1, <1>2 DEF Idx, Slots

\* The loop of forwardBatch.
LEMMA VisitAllLogits ==
    ASSUME NEW w0, VisitInv(w0), VisitLogits(w0), w0.snapshot = w0.seqs, nextSeq \in 0 .. NumSlots
    PROVE  VisitLogits(VisitAll(w0))
<1> DEFINE V    == Visited(w0)
           P(n) == /\ VisitInv(V[n]) /\ VisitLogits(V[n])
                   /\ \A m \in n .. NumSlots - 1 : V[n].snapshot[At(m)] = V[n].seqs[At(m)]
           S    == {n \in Nat : n <= NumSlots => P(n)}
<1>1. V = [n \in 0 .. NumSlots |->
            IF n = 0 THEN w0 ELSE VisitIndex(V[n - 1], (nextSeq + n - 1) % NumSlots)]
  BY VisitedRounds
<1> HIDE DEF V
<1>2. 0 \in S
  BY <1>1, SlotCount
<1>3. ASSUME NEW n \in Nat, n \in S PROVE n + 1 \in S
  <2> SUFFICES ASSUME n + 1 <= NumSlots PROVE P(n + 1)
    OBVIOUS
  <2> DEFINE w == V[n]
             v == V[n + 1]
             i == At(n)
  <2>0. P(n)
    BY <1>3, SlotCount
  <2>1. VisitInv(w) /\ VisitLogits(w)
    BY <2>0
  <2>2. n \in n .. NumSlots - 1 /\ n \in 0 .. NumSlots - 1
    BY SlotCount
  <2>3. w.snapshot[i] = w.seqs[i]
    BY <2>0, <2>2
  <2>4. n + 1 \in 0 .. NumSlots /\ n + 1 # 0 /\ (n + 1) - 1 = n
    BY SlotCount
  <2>5. v = VisitIndex(w, (nextSeq + (n + 1) - 1) % NumSlots)
    BY <1>1, <2>4
  <2>6. nextSeq + (n + 1) - 1 = nextSeq + n
    BY SlotCount
  <2>7. v = VisitIndex(w, i)
    BY <2>5, <2>6 DEF At
  <2>8. i \in Idx
    BY SlotCount DEF At, Idx, Slots
  <2> HIDE DEF v, w, i
  <2>9. VisitInv(v)
    BY <2>1, <2>7, <2>8, VisitKeeps
  <2>10. /\ VisitLogits(v)
         /\ \A j \in Idx \ {i} : v.snapshot[j] = w.snapshot[j] /\ v.seqs[j] = w.seqs[j]
    BY <2>1, <2>3, <2>7, <2>8, VisitRound
  <2>11. ASSUME NEW m \in n + 1 .. NumSlots - 1 PROVE v.snapshot[At(m)] = v.seqs[At(m)]
    <3>1. m \in 0 .. NumSlots - 1 /\ m # n /\ m \in n .. NumSlots - 1
      BY SlotCount
    <3>2. At(m) \in Idx \ {i}
      BY <2>2, <3>1, IndexOnce DEF i
    <3>3. w.snapshot[At(m)] = w.seqs[At(m)]
      BY <2>0, <3>1 DEF w
    <3> QED BY <2>10, <3>2, <3>3
  <2> QED BY <2>9, <2>10, <2>11 DEF v
<1> HIDE DEF S
<1>4. NumSlots \in S
  BY <1>2, <1>3, Induct, SlotCount
<1> QED BY <1>4, SlotCount DEF S, V, VisitAll

-----------------------------------------------------------------------------
(* The invariant holds *)

\* forwardBatch runs when every batch before it is being computed, so that no
\* sequence waits for its placeholder then.
LEMMA ForwardLogits == ASSUME SlotInv, LogitsInv, ForwardBatch PROVE LogitsInv'
<1> DEFINE w0 == [req |-> req, seqs |-> seqs, sem |-> sem, ic |-> ic, snapshot |-> seqs,
                  entries |-> <<>>, outputs |-> <<>>, resume |-> None]
           w  == VisitAll(w0)
<1>1. \A k \in DOMAIN inflight : inflight[k].stage = "started"
  <2> TAKE k \in DOMAIN inflight
  <2>1. Len(inflight) \in Nat /\ k \in 1 .. Len(inflight) /\ prevNil \in BOOLEAN
    BY DEF LogitsInv, IsSeq
  <2>2. CASE k < Len(inflight) \/ prevNil
    BY <2>2 DEF LogitsInv, OnlyLastWaits
  <2>3. CASE ~(k < Len(inflight) \/ prevNil)
    <3>1. k = Len(inflight) /\ ~prevNil /\ inflight # <<>>
      BY <2>1, <2>3
    <3> QED BY <3>1 DEF ForwardBatch, CanForward
  <2> QED BY <2>2, <2>3
<1>2. \A i \in Occupied(seqs) : Len(req[seqs[i]].inputs) # 0
  BY <1>1 DEF ForwardBatch, CanForward, LogitsInv, UsedUp
<1>3. VisitInv(w0) /\ VisitLogits(w0) /\ w0.snapshot = w0.seqs /\ nextSeq \in 0 .. NumSlots
  <2>1. /\ DOMAIN w0 = {"req", "seqs", "sem", "ic", "snapshot", "entries", "outputs", "resume"}
        /\ w0.req = req /\ w0.seqs = seqs /\ w0.sem = sem /\ w0.ic = ic /\ w0.snapshot = seqs
        /\ w0.entries = <<>> /\ w0.outputs = <<>> /\ w0.resume = None
    OBVIOUS
  <2>2. IsSeq(<<>>) /\ DOMAIN <<>> = {}
    BY DEF IsSeq
  <2> HIDE DEF w0
  <2>3. VisitInv(w0)
    BY <2>1, <2>2 DEF SlotInv, VisitInv
  <2>4. EntriesShape(w0)
    BY <2>1, <2>2 DEF EntriesShape
  <2>5. InputsOK(w0.req) /\ DOMAIN w0.snapshot = Idx
    BY <2>1 DEF LogitsInv, SlotInv, Acc, Owners
  <2> QED BY <1>2, <2>1, <2>3, <2>4, <2>5 DEF VisitLogits, LogitsInv
<1>4. /\ req' = w.req /\ seqs' = w.seqs
      /\ nextSeq' = IF w.resume # None THEN w.resume
                    ELSE ((nextSeq + NumSlots - 1) % NumSlots) + 1
      /\ prevNil' = (w.entries = <<>>)
      /\ IF w.entries = <<>> THEN UNCHANGED <<inflight, panic>>
         ELSE \E f \in {StartForward(w.ic.kv, w.entries)} :
                IF f.full THEN panic' = "kv full" /\ UNCHANGED inflight
                ELSE inflight' = Append(inflight, NewBatch(w, f)) /\ UNCHANGED panic
  BY DEF ForwardBatch
<1> HIDE DEF w0
<1>5. VisitInv(w) /\ VisitLogits(w)
  BY <1>3, VisitAllKeeps, VisitAllLogits, SlotCount
<1> HIDE DEF w
<1>6. nextSeq' \in 0 .. NumSlots
  <2>1. w.resume # None => w.resume \in 0 .. NumSlots
    BY <1>5, SlotCount DEF VisitInv, Idx, Slots
  <2>2. ((nextSeq + NumSlots - 1) % NumSlots) + 1 \in 0 .. NumSlots
    BY <1>3, SlotCount
  <2> QED BY <1>4, <2>1, <2>2
<1>7. prevNil' \in BOOLEAN /\ InputsOK(req')
  BY <1>4, <1>5 DEF VisitLogits
<1>8. Len(inflight) \in Nat /\ DOMAIN inflight = 1 .. Len(inflight)
  BY DEF LogitsInv, IsSeq
<1>9. CASE UNCHANGED inflight
  <2>1. IsSeq(inflight') /\ (\A k \in DOMAIN inflight' : BatchShape(inflight'[k]))
    BY <1>9 DEF LogitsInv
  <2>2. OnlyLastWaits'
    BY <1>1, <1>9 DEF OnlyLastWaits
  <2>3. KeptIndex'
    BY <1>9 DEF KeptIndex, LogitsInv
  <2>4. Alive' => UsedUp'
    <3> SUFFICES ASSUME Alive' PROVE UsedUp'
      OBVIOUS
    <3>1. w.entries = <<>>
      <4> SUFFICES ASSUME w.entries # <<>> PROVE FALSE
        OBVIOUS
      <4>1. PICK f : IF f.full THEN panic' = "kv full" /\ UNCHANGED inflight
                     ELSE inflight' = Append(inflight, NewBatch(w, f)) /\ UNCHANGED panic
        BY <1>4
      <4>2. inflight' = Append(inflight, NewBatch(w, f))
        BY <4>1 DEF Alive
      <4>3. Len(inflight') = Len(inflight) + 1
        BY <1>8, <4>2
      <4> QED BY <1>8, <1>9, <4>3
    <3>2. \A q, n : ~LogitsOf(w, q, n)
      <4>1. DOMAIN w.entries = {}
        BY <3>1
      <4> QED BY <4>1 DEF LogitsOf
    <3> QED BY <1>4, <1>5, <3>2 DEF UsedUp, VisitLogits
  <2> QED BY <1>6, <1>7, <2>1, <2>2, <2>3, <2>4 DEF LogitsInv
<1>10. CASE \E f : inflight' = Append(inflight, NewBatch(w, f)) /\ w.entries # <<>>
  <2>1. PICK f : inflight' = Append(inflight, NewBatch(w, f)) /\ w.entries # <<>>
    BY <1>10
  <2> DEFINE b == NewBatch(w, f)
             L == Len(inflight) + 1
  <2>2. /\ DOMAIN b = {"stage", "waits", "entries", "outputs", "seqs", "loc", "mask", "tokens",
                       "next", "iBatches"}
        /\ b.stage = "ready" /\ b.entries = w.entries /\ b.outputs = w.outputs
        /\ b.seqs = w.snapshot /\ \A i \in Idx : b.next[i] = None
    BY DEF NewBatch
  <2> HIDE DEF b
  <2>3. /\ Len(inflight') = L /\ DOMAIN inflight' = 1 .. L /\ inflight'[L] = b /\ L \in Nat
        /\ \A k \in DOMAIN inflight : k \in DOMAIN inflight' /\ inflight'[k] = inflight[k]
    BY <1>8, <2>1 DEF b
  <2>4. \A k \in DOMAIN inflight' : k = L \/ (k \in DOMAIN inflight /\ inflight'[k] = inflight[k])
    BY <1>8, <2>3
  <2>5. BatchShape(b)
    BY <1>5, <2>2 DEF BatchShape, EntriesShape, VisitLogits
  <2>6. IsSeq(inflight') /\ (\A k \in DOMAIN inflight' : BatchShape(inflight'[k]))
    BY <2>3, <2>4, <2>5 DEF IsSeq, LogitsInv
  <2>7. OnlyLastWaits'
    <3> SUFFICES ASSUME NEW k \in DOMAIN inflight', k < Len(inflight') \/ prevNil'
                 PROVE  inflight'[k].stage = "started"
      BY DEF OnlyLastWaits
    <3>1. ~prevNil'
      BY <1>4, <2>1
    <3>2. k # L
      BY <2>3, <3>1
    <3> QED BY <1>1, <2>4, <3>2
  <2>8. KeptIndex'
    <3> SUFFICES ASSUME NEW k \in DOMAIN inflight', NEW i \in Idx, inflight'[k].next[i] # None
                 PROVE  LogitsOf(inflight'[k], inflight'[k].seqs[i], inflight'[k].iBatches[i])
      BY DEF KeptIndex
    <3>1. k # L
      BY <2>2, <2>3
    <3> QED BY <2>4, <3>1 DEF LogitsInv, KeptIndex
  <2>9. UsedUp'
    <3> SUFFICES ASSUME NEW i \in Occupied(seqs'), Len(req'[seqs'[i]].inputs) = 0
                 PROVE  \E k \in DOMAIN inflight' :
                          /\ inflight'[k].stage = "ready"
                          /\ inflight'[k].seqs[i] = seqs'[i]
                          /\ LogitsOf(inflight'[k], seqs'[i], req'[seqs'[i]].iBatch)
      BY DEF UsedUp
    <3>1. w.snapshot[i] = w.seqs[i] /\ LogitsOf(w, w.seqs[i], w.req[w.seqs[i]].iBatch)
      BY <1>4, <1>5 DEF VisitLogits
    <3>2. LogitsOf(b, w.seqs[i], w.req[w.seqs[i]].iBatch)
      BY <2>2, <3>1 DEF LogitsOf
    <3>3. L \in DOMAIN inflight'
      BY <2>3
    <3> QED BY <1>4, <2>2, <2>3, <3>1, <3>2, <3>3
  <2> QED BY <1>6, <1>7, <2>6, <2>7, <2>8, <2>9 DEF LogitsInv
<1> QED BY <1>4, <1>9, <1>10

\* The batch whose inputs are gathered is the one that took the last inputs of
\* the sequences without any: seq.iBatch is kept before forwardBatch sets it for
\* the next batch.
LEMMA GatherLogits == ASSUME SlotInv, LogitsInv, NEW k, GatherInputs(k) PROVE LogitsInv'
<1>0. PICK own \in {{i \in Idx : seqs[i] # None /\ inflight[k].seqs[i] = seqs[i]}},
           tokens \in {[e \in DOMAIN inflight[k].entries |-> inflight[k].entries[e].input.token]} :
        /\ req' = [q \in Requests |->
                    IF \E i \in own : seqs[i] = q
                    THEN [req[q] EXCEPT !.pending = <<>>,
                                        !.inputs = IF @ = <<>>
                                                   THEN <<Placeholder(q, FreshNth(q))>> ELSE @]
                    ELSE req[q]]
        /\ inflight' = [inflight EXCEPT
                    ![k].stage = "gathered",
                    ![k].tokens = tokens,
                    ![k].next = [i \in Idx |->
                        IF i \in own /\ req[seqs[i]].inputs = <<>>
                        THEN Placeholder(seqs[i], FreshNth(seqs[i])) ELSE None],
                    ![k].iBatches = [i \in Idx |->
                        IF i \in own /\ req[seqs[i]].inputs = <<>>
                        THEN req[seqs[i]].iBatch ELSE 0]]
  BY DEF GatherInputs
<1> DEFINE next == [i \in Idx |-> IF i \in own /\ req[seqs[i]].inputs = <<>>
                                  THEN Placeholder(seqs[i], FreshNth(seqs[i])) ELSE None]
           kept == [i \in Idx |-> IF i \in own /\ req[seqs[i]].inputs = <<>>
                                  THEN req[seqs[i]].iBatch ELSE 0]
           b    == inflight[k]
           c    == inflight'[k]
<1>1. /\ k \in DOMAIN inflight /\ b.stage = "ready" /\ Alive
      /\ UNCHANGED <<seqs, prevNil, nextSeq, panic>>
  BY DEF GatherInputs
<1>2. own = {i \in Idx : seqs[i] # None /\ inflight[k].seqs[i] = seqs[i]}
  BY <1>0
<1>3. Len(inflight) \in Nat /\ DOMAIN inflight = 1 .. Len(inflight) /\ BatchShape(b)
  BY <1>1 DEF LogitsInv, IsSeq
<1>4. ~prevNil /\ k = Len(inflight) /\ \A j \in DOMAIN inflight : inflight[j].stage = "ready" => j = k
  <2>1. \A j \in DOMAIN inflight :
           inflight[j].stage = "ready" => ~prevNil /\ ~(j < Len(inflight))
    BY DEF LogitsInv, OnlyLastWaits
  <2>2. \A j \in DOMAIN inflight : ~(j < Len(inflight)) => j = Len(inflight)
    BY <1>3
  <2> QED BY <1>1, <2>1, <2>2
<1>5. \A i \in Occupied(seqs) : Len(req[seqs[i]].inputs) = 0 =>
         i \in own /\ LogitsOf(b, seqs[i], req[seqs[i]].iBatch)
  <2> SUFFICES ASSUME NEW i \in Occupied(seqs), Len(req[seqs[i]].inputs) = 0
               PROVE  i \in own /\ LogitsOf(b, seqs[i], req[seqs[i]].iBatch)
    OBVIOUS
  <2>1. PICK j \in DOMAIN inflight :
           /\ inflight[j].stage = "ready" /\ inflight[j].seqs[i] = seqs[i]
           /\ LogitsOf(inflight[j], seqs[i], req[seqs[i]].iBatch)
    BY <1>1 DEF LogitsInv, UsedUp
  <2>2. j = k
    BY <1>4, <2>1
  <2> QED BY <1>2, <2>1, <2>2 DEF Occupied
<1>6. /\ DOMAIN c = DOMAIN b /\ c.stage = "gathered" /\ c.next = next /\ c.iBatches = kept
      /\ c.entries = b.entries /\ c.outputs = b.outputs /\ c.seqs = b.seqs
  <2> HIDE DEF next, kept
  <2>1. inflight' = [inflight EXCEPT ![k].stage = "gathered", ![k].tokens = tokens,
                                     ![k].next = next, ![k].iBatches = kept]
    BY <1>0 DEF next, kept
  <2> QED BY <1>1, <1>3, <2>1 DEF BatchShape
<1>7. /\ DOMAIN inflight' = DOMAIN inflight
      /\ \A j \in DOMAIN inflight : j # k => inflight'[j] = inflight[j]
  BY <1>0
<1>8. \A i \in Idx : c.next[i] # None =>
          i \in own /\ req[seqs[i]].inputs = <<>> /\ c.iBatches[i] = req[seqs[i]].iBatch
  BY <1>6
<1> HIDE DEF b, c, next, kept
<1>9. IsSeq(inflight') /\ Len(inflight') = Len(inflight)
  BY <1>3, <1>7, FunIsSeq
<1>10. \A j \in DOMAIN inflight' : BatchShape(inflight'[j])
  <2>1. BatchShape(c)
    BY <1>3, <1>6 DEF BatchShape, EntriesShape
  <2> QED BY <1>7, <2>1 DEF c, LogitsInv
<1>11. OnlyLastWaits'
  <2> SUFFICES ASSUME NEW j \in DOMAIN inflight', j < Len(inflight') \/ prevNil'
               PROVE  inflight'[j].stage = "started"
    BY DEF OnlyLastWaits
  <2>1. j # k /\ j < Len(inflight)
    BY <1>1, <1>3, <1>4, <1>9
  <2> QED BY <1>7, <2>1 DEF LogitsInv, OnlyLastWaits
<1>12. KeptIndex'
  <2> SUFFICES ASSUME NEW j \in DOMAIN inflight', NEW i \in Idx, inflight'[j].next[i] # None
               PROVE  LogitsOf(inflight'[j], inflight'[j].seqs[i], inflight'[j].iBatches[i])
    BY DEF KeptIndex
  <2>1. CASE j # k
    BY <1>7, <2>1 DEF LogitsInv, KeptIndex
  <2>2. CASE j = k
    <3>1. i \in own /\ req[seqs[i]].inputs = <<>> /\ c.iBatches[i] = req[seqs[i]].iBatch
      BY <1>8, <2>2 DEF c
    <3>2. i \in Occupied(seqs) /\ b.seqs[i] = seqs[i]
      BY <1>2, <3>1 DEF Occupied, b
    <3>3. Len(req[seqs[i]].inputs) = 0
      BY <3>1
    <3>4. LogitsOf(b, seqs[i], req[seqs[i]].iBatch)
      BY <1>5, <3>2, <3>3
    <3>5. LogitsOf(c, c.seqs[i], c.iBatches[i])
      BY <1>6, <3>1, <3>2, <3>4 DEF LogitsOf
    <3> QED BY <2>2, <3>5 DEF c
  <2> QED BY <2>1, <2>2
<1>13. \A i \in own : i \in Occupied(seqs) /\ seqs[i] \in Requests
  BY <1>2 DEF SlotInv, Acc, Owners, Occupied
<1>14. \A q \in Requests :
         /\ req'[q].pc = req[q].pc
         /\ InputsShape(req'[q].inputs)
         /\ (\E i \in own : seqs[i] = q) => Len(req'[q].inputs) >= 1
         /\ ~(\E i \in own : seqs[i] = q) => req'[q] = req[q]
         /\ Len(req[q].inputs) >= 1 => Len(req'[q].inputs) >= 1
  <2> TAKE q \in Requests
  <2>1. /\ DOMAIN req[q] = {"pc", "inputs", "pending", "slot", "iBatch", "predicted", "held",
                            "quit", "limit", "keep", "shift", "reason"}
        /\ InputsShape(req[q].inputs)
    BY DEF SlotInv, Acc, ReqShape, LogitsInv, InputsOK
  <2>2. CASE ~(\E i \in own : seqs[i] = q)
    <3>1. req'[q] = req[q]
      BY <1>0, <2>2
    <3> QED BY <2>1, <2>2, <3>1
  <2>3. CASE \E i \in own : seqs[i] = q
    <3> DEFINE h == <<Placeholder(q, FreshNth(q))>>
    <3>1. InputsShape(h) /\ Len(h) >= 1
      BY DEF InputsShape, IsSeq
    <3> HIDE DEF h
    <3>2. req'[q] = [req[q] EXCEPT !.pending = <<>>, !.inputs = IF @ = <<>> THEN h ELSE @]
      BY <1>0, <2>3 DEF h
    <3>3. req'[q].pc = req[q].pc /\ req'[q].inputs = IF req[q].inputs = <<>> THEN h ELSE req[q].inputs
      BY <2>1, <3>2
    <3>4. req[q].inputs # <<>> => Len(req[q].inputs) >= 1
      BY <2>1 DEF InputsShape, IsSeq
    <3>5. InputsShape(req'[q].inputs) /\ Len(req'[q].inputs) >= 1
      BY <2>1, <3>1, <3>3, <3>4
    <3> QED BY <2>3, <3>3, <3>5
  <2> QED BY <2>2, <2>3
<1>15. InputsOK(req')
  BY <1>14 DEF InputsOK, LogitsInv
<1>16. UsedUp'
  <2>1. \A i \in Occupied(seqs') : Len(req'[seqs'[i]].inputs) # 0
    <3> TAKE i \in Occupied(seqs')
    <3>1. i \in Occupied(seqs) /\ seqs'[i] = seqs[i] /\ seqs[i] \in Requests
      BY <1>1 DEF SlotInv, Acc, Owners, Occupied
    <3>2. CASE \E j \in own : seqs[j] = seqs[i]
      <4>1. Len(req'[seqs[i]].inputs) >= 1
        BY <1>14, <3>1, <3>2
      <4> QED BY <3>1, <4>1
    <3>3. CASE ~(\E j \in own : seqs[j] = seqs[i])
      <4>1. req'[seqs[i]] = req[seqs[i]]
        BY <1>14, <3>1, <3>3
      <4> QED BY <1>5, <3>1, <3>3, <4>1
    <3> QED BY <3>2, <3>3
  <2> QED BY <2>1 DEF UsedUp
<1> QED BY <1>1, <1>9, <1>10, <1>11, <1>12, <1>15, <1>16 DEF LogitsInv

\* A step that builds, computes and ends no batch, and leaves no sequence
\* without inputs.
LEMMA QuietLogits ==
    ASSUME LogitsInv, UNCHANGED <<inflight, prevNil, nextSeq>>, InputsOK(req'), Alive' => Alive,
           \A i \in Occupied(seqs') : Len(req'[seqs'[i]].inputs) = 0 =>
               /\ i \in Occupied(seqs) /\ seqs'[i] = seqs[i]
               /\ Len(req[seqs[i]].inputs) = 0 /\ req'[seqs[i]].iBatch = req[seqs[i]].iBatch
    PROVE  LogitsInv'
<1>1. OnlyLastWaits' /\ KeptIndex'
  BY DEF LogitsInv, OnlyLastWaits, KeptIndex
<1>2. Alive' => UsedUp'
  BY DEF LogitsInv, UsedUp
<1> QED BY <1>1, <1>2 DEF LogitsInv

\* In the beginning there are no batches.
LEMMA LogitsInit == Init => LogitsInv
<1> SUFFICES ASSUME Init PROVE LogitsInv
  OBVIOUS
<1>1. IsSeq(inflight) /\ DOMAIN inflight = {}
  BY DEF Init, IsSeq
<1>2. \A q \in Requests : req[q].inputs = <<>> /\ req[q].pc = "new"
  BY DEF Init, Blank
<1>3. InputsShape(<<>>)
  BY DEF InputsShape, IsSeq
<1>4. InputsOK(req)
  BY <1>2, <1>3 DEF InputsOK
<1>5. prevNil \in BOOLEAN /\ nextSeq \in 0 .. NumSlots /\ Occupied(seqs) = {}
  BY SlotCount DEF Init, Occupied
<1> QED BY <1>1, <1>4, <1>5 DEF LogitsInv, OnlyLastWaits, KeptIndex, UsedUp

\* NewSequence leaves something of a prompt that it truncates.
LEMMA TruncatedSome ==
    ASSUME NEW shape \in Shapes
    PROVE  IsSeq(Truncated(shape)) /\ Len(Truncated(shape)) >= 1
<1> DEFINE a == NumCtx - 1
           n == Len(shape.prompt)
           b == IF shape.keep < 0 THEN n ELSE shape.keep
           K == Keep(shape)
           s == SubSeq(shape.prompt, 1, K)
           t == SubSeq(shape.prompt, K + n - NumCtx + 1, n)
<1>1. shape.prompt \in Seq(Nat \ {0}) /\ shape.prompt # <<>> /\ shape.keep \in Int /\ NumCtx \in Int
  BY RunnerConstants, CacheConstants
<1>2. n \in Int /\ a \in Int /\ b \in Int /\ IsSeq(shape.prompt) /\ n >= 1
  BY <1>1 DEF IsSeq
<1> HIDE DEF b
<1>3. K \in Int /\ K <= a
  <2> HIDE DEF a
  <2> QED BY <1>2, MinOfTwo DEF Keep, a, b
<1>4. IsSeq(s) /\ IsSeq(t)
  BY <1>1, <1>2, <1>3, SubIsSeq
<1> HIDE DEF K
<1>5. Len(t) >= 1
  BY <1>1, <1>2, <1>3
<1>6. CASE n <= NumCtx
  BY <1>2, <1>6 DEF Truncated
<1>7. CASE ~(n <= NumCtx)
  <2>1. Truncated(shape) = s \o t
    BY <1>7 DEF Truncated, K
  <2> HIDE DEF s, t
  <2> QED BY <1>4, <1>5, <2>1, JoinedSome
<1> QED BY <1>6, <1>7

\* A request that is accepted has inputs.
LEMMA SubmitLogits == ASSUME SlotInv, LogitsInv, NEW q \in Requests, Submit(q) PROVE LogitsInv'
<1>1. PICK shape \in Shapes :
        \/ req' = [req EXCEPT ![q].pc = "done", ![q].reason = "error"]
        \/ req' = [req EXCEPT ![q] =
              [Blank EXCEPT !.pc = "acquire",
                            !.inputs = [i \in DOMAIN Truncated(shape) |-> Input(Truncated(shape)[i])],
                            !.limit = shape.limit, !.keep = Keep(shape), !.shift = shape.shift]]
  BY DEF Submit
<1>2. req[q].pc = "new" /\ UNCHANGED <<seqs, inflight, prevNil, nextSeq, panic>>
  BY DEF Submit
<1>3. /\ \A x \in Requests : x # q => req'[x] = req[x]
      /\ InputsShape(req'[q].inputs)
      /\ req'[q].pc \in {"acquire", "load"} => Len(req'[q].inputs) >= 1
  <2>1. /\ DOMAIN req = Requests /\ InputsShape(req[q].inputs)
        /\ DOMAIN req[q] = {"pc", "inputs", "pending", "slot", "iBatch", "predicted", "held",
                            "quit", "limit", "keep", "shift", "reason"}
    BY DEF SlotInv, Acc, ReqShape, LogitsInv, InputsOK
  <2>2. CASE req' = [req EXCEPT ![q].pc = "done", ![q].reason = "error"]
    <3>1. req'[q].inputs = req[q].inputs /\ req'[q].pc = "done"
      BY <2>1, <2>2
    <3> QED BY <2>1, <2>2, <3>1
  <2>3. CASE req' = [req EXCEPT ![q] =
              [Blank EXCEPT !.pc = "acquire",
                            !.inputs = [i \in DOMAIN Truncated(shape) |-> Input(Truncated(shape)[i])],
                            !.limit = shape.limit, !.keep = Keep(shape), !.shift = shape.shift]]
    <3> DEFINE T == Truncated(shape)
               f == [i \in DOMAIN T |-> Input(T[i])]
    <3>0. IsSeq(T) /\ Len(T) >= 1
      BY TruncatedSome
    <3>1. IsSeq(f) /\ Len(f) >= 1
      <4> HIDE DEF T
      <4>1. DOMAIN f = 1 .. Len(T) /\ Len(T) \in Int
        BY <3>0 DEF IsSeq
      <4> HIDE DEF f
      <4>2. IsSeq(f) /\ Len(f) = IF Len(T) < 0 THEN 0 ELSE Len(T)
        BY <4>1, FunIsSeq
      <4>3. Len(f) >= 1
        BY <3>0, <4>1, <4>2
      <4> QED BY <4>2, <4>3 DEF f
    <3> HIDE DEF f
    <3>2. /\ \A x \in Requests : x # q => req'[x] = req[x]
          /\ req'[q] = [Blank EXCEPT !.pc = "acquire", !.inputs = f,
                        !.limit = shape.limit, !.keep = Keep(shape), !.shift = shape.shift]
      BY <2>1, <2>3 DEF f
    <3>3. req'[q].inputs = f
      BY <3>2 DEF Blank
    <3> QED BY <3>1, <3>2, <3>3 DEF InputsShape
  <2> QED BY <1>1, <2>2, <2>3
<1>4. InputsOK(req')
  BY <1>3 DEF InputsOK, LogitsInv
<1>5. \A i \in Occupied(seqs) : seqs[i] \in Requests /\ req'[seqs[i]] = req[seqs[i]]
  BY <1>2, <1>3 DEF SlotInv, Acc, Owners, Occupied
<1> QED BY <1>2, <1>4, <1>5, QuietLogits DEF Alive

\* Acquire.
LEMMA AcquireLogits == ASSUME SlotInv, LogitsInv, NEW q \in Requests, Acquire(q) PROVE LogitsInv'
<1>1. /\ req[q].pc = "acquire" /\ req' = [req EXCEPT ![q].pc = "load"]
      /\ UNCHANGED <<seqs, inflight, prevNil, nextSeq, panic>>
  BY DEF Acquire
<1>2. \A x \in Requests : /\ req'[x].inputs = req[x].inputs
                          /\ req'[x].pc = IF x = q THEN "load" ELSE req[x].pc
                          /\ req'[x].iBatch = req[x].iBatch
  BY <1>1 DEF SlotInv, Acc, ReqShape
<1>3. InputsOK(req')
  BY <1>1, <1>2 DEF InputsOK, LogitsInv
<1>4. \A i \in Occupied(seqs) : seqs[i] \in Requests
  BY DEF SlotInv, Acc, Owners, Occupied
<1> QED BY <1>1, <1>2, <1>3, <1>4, QuietLogits DEF Alive

\* LoadCacheSlot leaves an input to compute, whatever the cache has.
LEMMA LoadLogits == ASSUME SlotInv, LogitsInv, NEW q \in Requests, Load(q) PROVE LogitsInv'
<1>1. PICK at, got :
         /\ at \in Idx /\ Loaded(ic, req[q].inputs, got)
         /\ req' = [req EXCEPT ![q].pc = "stream", ![q].slot = got.slot, ![q].inputs = got.inputs]
         /\ seqs' = [seqs EXCEPT ![at] = q]
         /\ panic' = panic
  BY LoadStep
<1>2. req[q].pc = "load" /\ UNCHANGED <<inflight, prevNil, nextSeq>>
  BY DEF Load
<1>3. IsSeq(got.inputs) /\ Len(got.inputs) >= 1
  BY <1>1, <1>2 DEF Loaded, LogitsInv, InputsOK
<1>4. /\ \A x \in Requests : x # q => req'[x] = req[x]
      /\ req'[q].inputs = got.inputs /\ req'[q].pc = "stream"
  BY <1>1 DEF SlotInv, Acc, ReqShape
<1>5. InputsOK(req')
  BY <1>3, <1>4 DEF InputsOK, InputsShape, LogitsInv
<1>6. at \in Idx /\ \A i \in Idx : seqs'[i] = IF i = at THEN q ELSE seqs[i]
  BY <1>1 DEF SlotInv, Acc, Owners
<1>7. ASSUME NEW i \in Occupied(seqs'), Len(req'[seqs'[i]].inputs) = 0
      PROVE  /\ i \in Occupied(seqs) /\ seqs'[i] = seqs[i]
             /\ Len(req[seqs[i]].inputs) = 0 /\ req'[seqs[i]].iBatch = req[seqs[i]].iBatch
  <2>1. i # at
    <3> SUFFICES ASSUME i = at PROVE FALSE
      OBVIOUS
    <3>1. seqs'[i] = q
      BY <1>6
    <3>2. Len(got.inputs) = 0
      BY <3>1, <1>4, <1>7
    <3> QED BY <3>2, <1>3
  <2>2. i \in Occupied(seqs) /\ seqs'[i] = seqs[i]
    BY <1>6, <2>1 DEF Occupied
  <2>3. seqs[i] \in Requests /\ seqs[i] # q
    BY <1>2, <2>2 DEF SlotInv, Acc, Owners, Occupied
  <2> QED BY <1>4, <1>7, <2>2, <2>3
<1> QED BY <1>1, <1>2, <1>5, <1>7, QuietLogits DEF Alive

\* A client that goes away takes no inputs with it.
LEMMA GoneLogits == ASSUME SlotInv, LogitsInv, NEW q \in Requests, ClientGone(q) PROVE LogitsInv'
<1>1. UNCHANGED <<seqs, inflight, prevNil, nextSeq, panic>>
  BY DEF ClientGone
<1>2. \A i \in Occupied(seqs) : seqs[i] \in Requests /\ req[seqs[i]].pc = "stream"
  BY DEF SlotInv, Acc, Owners, Occupied
<1>3. CASE req[q].pc = "acquire"
  <2> DEFINE new == [Blank EXCEPT !.pc = "done", !.reason = "gone"]
  <2>1. req' = [req EXCEPT ![q] = new]
    BY <1>3 DEF ClientGone
  <2>2. new.pc = "done" /\ InputsShape(new.inputs)
    BY DEF Blank, InputsShape, IsSeq
  <2> HIDE DEF new
  <2>3. \A x \in Requests : req'[x] = IF x = q THEN new ELSE req[x]
    BY <2>1 DEF SlotInv, Acc, ReqShape
  <2>4. InputsOK(req')
    BY <2>2, <2>3 DEF InputsOK, LogitsInv
  <2>5. \A i \in Occupied(seqs) : req'[seqs[i]] = req[seqs[i]]
    BY <1>2, <1>3, <2>3
  <2> QED BY <1>1, <2>4, <2>5, QuietLogits DEF Alive
<1>4. CASE req[q].pc # "acquire"
  <2>1. req' = [req EXCEPT ![q].quit = TRUE]
    BY <1>4 DEF ClientGone
  <2>2. \A x \in Requests : /\ req'[x].inputs = req[x].inputs /\ req'[x].pc = req[x].pc
                            /\ req'[x].iBatch = req[x].iBatch
    BY <2>1 DEF SlotInv, Acc, ReqShape
  <2>3. InputsOK(req')
    BY <2>2 DEF InputsOK, LogitsInv
  <2> QED BY <1>1, <1>2, <2>2, <2>3, QuietLogits DEF Alive
<1> QED BY <1>3, <1>4

\* Computing a batch that is gathered.
LEMMA ComputeLogits == ASSUME SlotInv, LogitsInv, NEW k, Compute(k) PROVE LogitsInv'
<1>1. /\ k \in DOMAIN inflight /\ inflight[k].stage = "gathered"
      /\ inflight' = [inflight EXCEPT ![k].stage = "started"]
      /\ UNCHANGED <<req, seqs, prevNil, nextSeq, panic>>
  BY DEF Compute
<1>2. Len(inflight) \in Nat /\ DOMAIN inflight = 1 .. Len(inflight) /\ BatchShape(inflight[k])
  BY <1>1 DEF LogitsInv, IsSeq
<1>3. /\ DOMAIN inflight' = DOMAIN inflight
      /\ \A j \in DOMAIN inflight : j # k => inflight'[j] = inflight[j]
      /\ inflight'[k].stage = "started" /\ DOMAIN inflight'[k] = DOMAIN inflight[k]
  BY <1>1, <1>2 DEF BatchShape
<1>4. \A j \in DOMAIN inflight :
         /\ inflight'[j].entries = inflight[j].entries /\ inflight'[j].outputs = inflight[j].outputs
         /\ inflight'[j].seqs = inflight[j].seqs /\ inflight'[j].next = inflight[j].next
         /\ inflight'[j].iBatches = inflight[j].iBatches
  BY <1>1, <1>2 DEF BatchShape
<1>5. \A j \in DOMAIN inflight : \A q, n : LogitsOf(inflight[j], q, n) => LogitsOf(inflight'[j], q, n)
  BY <1>4 DEF LogitsOf
<1>6. IsSeq(inflight') /\ Len(inflight') = Len(inflight)
  BY <1>2, <1>3, FunIsSeq
<1>7. \A j \in DOMAIN inflight' : BatchShape(inflight'[j])
  <2>1. BatchShape(inflight'[k])
    BY <1>1, <1>2, <1>3, <1>4 DEF BatchShape, EntriesShape
  <2> QED BY <1>3, <2>1 DEF LogitsInv
<1>8. OnlyLastWaits'
  BY <1>1, <1>3, <1>6 DEF LogitsInv, OnlyLastWaits
<1>9. KeptIndex'
  BY <1>3, <1>4, <1>5 DEF LogitsInv, KeptIndex
<1>10. Alive' => UsedUp'
  <2> SUFFICES ASSUME Alive', NEW i \in Occupied(seqs'), Len(req'[seqs'[i]].inputs) = 0
               PROVE  \E j \in DOMAIN inflight' :
                        /\ inflight'[j].stage = "ready"
                        /\ inflight'[j].seqs[i] = seqs'[i]
                        /\ LogitsOf(inflight'[j], seqs'[i], req'[seqs'[i]].iBatch)
    BY DEF UsedUp
  <2>1. PICK j \in DOMAIN inflight :
           /\ inflight[j].stage = "ready" /\ inflight[j].seqs[i] = seqs[i]
           /\ LogitsOf(inflight[j], seqs[i], req[seqs[i]].iBatch)
    BY <1>1 DEF LogitsInv, UsedUp, Alive
  <2>2. j # k
    BY <1>1, <2>1
  <2> QED BY <1>1, <1>3, <1>5, <2>1, <2>2
<1> QED BY <1>1, <1>6, <1>7, <1>8, <1>9, <1>10 DEF LogitsInv

-----------------------------------------------------------------------------
(* The loop of computeBatch *)

\* Batches that differ in the tokens of their inputs only.
SameBatch(b, c) ==
    /\ BatchShape(c)
    /\ c.stage = b.stage /\ c.outputs = b.outputs /\ c.seqs = b.seqs
    /\ c.next = b.next /\ c.iBatches = b.iBatches
    /\ DOMAIN c.entries = DOMAIN b.entries
    /\ \A e \in DOMAIN b.entries : c.entries[e].q = b.entries[e].q

\* What a round passes to the next: the sequences that are left have as many
\* inputs as before the loop, and the batches yield for whom they did.
DecodeLogits(w, sq, rq, fl) ==
    /\ InputsOK(w.req)
    /\ \A i \in Occupied(w.seqs) :
        /\ w.seqs[i] = sq[i]
        /\ Len(w.req[w.seqs[i]].inputs) = Len(rq[sq[i]].inputs)
        /\ w.req[w.seqs[i]].iBatch = rq[sq[i]].iBatch
    /\ DOMAIN w.inflight = DOMAIN fl
    /\ \A j \in DOMAIN fl : SameBatch(fl[j], w.inflight[j])

\* The output of q is the same.
LEMMA SameLogits ==
    ASSUME NEW b, NEW c, SameBatch(b, c), NEW q, NEW n, LogitsOf(b, q, n)
    PROVE  LogitsOf(c, q, n)
BY DEF SameBatch, LogitsOf

\* A token that becomes known in a batch.
LEMMA FilledSame ==
    ASSUME NEW b, NEW c, SameBatch(b, c), NEW p, NEW t, NEW d, d = FilledBatch(c, p, t)
    PROVE  SameBatch(b, d)
<1> DEFINE en == [e \in DOMAIN c.entries |->
                    [c.entries[e] EXCEPT !.input = IF c.entries[e].input = p THEN Input(t)
                                                   ELSE c.entries[e].input]]
<1>1. /\ IsSeq(c.entries) /\ IsSeq(c.outputs)
      /\ DOMAIN c = {"stage", "waits", "entries", "outputs", "seqs", "loc", "mask", "tokens",
                     "next", "iBatches"}
      /\ \A e \in DOMAIN c.entries : DOMAIN c.entries[e] = {"slot", "pos", "input", "q"}
  BY DEF SameBatch, BatchShape, EntriesShape
<1>2. d = [c EXCEPT !.entries = en]
  BY DEF FilledBatch
<1>3. /\ DOMAIN en = DOMAIN c.entries
      /\ \A e \in DOMAIN c.entries : DOMAIN en[e] = {"slot", "pos", "input", "q"}
                                     /\ en[e].q = c.entries[e].q
  BY <1>1
<1> HIDE DEF en
<1>4. IsSeq(en)
  BY <1>1, <1>3, FunIsSeq DEF IsSeq
<1>5. /\ DOMAIN d = DOMAIN c /\ d.entries = en /\ d.stage = c.stage /\ d.outputs = c.outputs
      /\ d.seqs = c.seqs /\ d.next = c.next /\ d.iBatches = c.iBatches
  BY <1>1, <1>2
<1>6. BatchShape(d)
  BY <1>1, <1>3, <1>4, <1>5 DEF BatchShape, EntriesShape
<1> QED BY <1>3, <1>5, <1>6 DEF SameBatch

\* A token that becomes known.
LEMMA ResolveLogits ==
    ASSUME NEW w, NEW n, NEW sq, DecodeInv(w, n, sq), NEW rq, NEW fl, DecodeLogits(w, sq, rq, fl),
           NEW p, NEW t, NEW v, v = Known(w, p, t)
    PROVE  DecodeLogits(v, sq, rq, fl)
<1> DEFINE q  == p.of
           r  == Resolve(w, p, t)
           nf == [k \in DOMAIN w.inflight |-> FilledBatch(w.inflight[k], p, t)]
<1>1. DOMAIN w = {"req", "seqs", "sem", "ic", "inflight", "panic"} /\ DOMAIN w.req = Requests
  BY DEF DecodeInv, Acc, ReqShape
<1>2. /\ DOMAIN r = DOMAIN w /\ r.seqs = w.seqs /\ r.inflight = nf
  BY <1>1 DEF Resolve
<1>3. r.req = [w.req EXCEPT ![q].inputs = Filled(@, p, t), ![q].pending = Filled(@, p, t)]
  BY <1>1 DEF Resolve
<1>4. v = [r EXCEPT !.req[q].predicted = @ + 1]
  BY DEF Known
<1> HIDE DEF r, nf
<1>5. v.seqs = w.seqs /\ v.inflight = nf /\ v.req = [r.req EXCEPT ![q].predicted = @ + 1]
  BY <1>1, <1>2, <1>4
<1>6. \A x \in Requests :
        /\ v.req[x].pc = w.req[x].pc /\ v.req[x].iBatch = w.req[x].iBatch
        /\ v.req[x].inputs = IF x = q THEN Filled(w.req[x].inputs, p, t) ELSE w.req[x].inputs
  <2>1. \A x \in Requests : DOMAIN w.req[x] = {"pc", "inputs", "pending", "slot", "iBatch",
                                "predicted", "held", "quit", "limit", "keep", "shift", "reason"}
    BY DEF DecodeInv, Acc, ReqShape
  <2>2. /\ DOMAIN r.req = Requests
        /\ \A x \in Requests :
            /\ DOMAIN r.req[x] = DOMAIN w.req[x]
            /\ r.req[x].pc = w.req[x].pc /\ r.req[x].iBatch = w.req[x].iBatch
            /\ r.req[x].inputs = IF x = q THEN Filled(w.req[x].inputs, p, t) ELSE w.req[x].inputs
    BY <1>1, <1>3, <2>1
  <2> QED BY <1>5, <2>1, <2>2
<1>7. \A x \in Requests : InputsShape(v.req[x].inputs) /\ Len(v.req[x].inputs) = Len(w.req[x].inputs)
  <2> TAKE x \in Requests
  <2> DEFINE f == Filled(w.req[x].inputs, p, t)
  <2>1. InputsShape(w.req[x].inputs)
    BY DEF DecodeLogits, InputsOK
  <2>2. IsSeq(f) /\ Len(f) = Len(w.req[x].inputs)
    BY <2>1, FilledIsSeq DEF InputsShape
  <2>3. Len(f) = 0 => f = <<>>
    <3> SUFFICES ASSUME Len(f) = 0 PROVE f = <<>>
      OBVIOUS
    <3>1. w.req[x].inputs = <<>>
      BY <2>1, <2>2 DEF InputsShape
    <3> QED BY <3>1 DEF Filled
  <2> HIDE DEF f
  <2>4. InputsShape(f)
    BY <2>2, <2>3 DEF InputsShape
  <2> QED BY <1>6, <2>1, <2>2, <2>4 DEF f
<1>8. InputsOK(v.req)
  BY <1>6, <1>7 DEF InputsOK, DecodeLogits
<1>9. \A i \in Occupied(w.seqs) : w.seqs[i] \in Requests
  BY DEF DecodeInv, Acc, Owners, Occupied
<1>10. \A i \in Occupied(v.seqs) :
        /\ v.seqs[i] = sq[i]
        /\ Len(v.req[v.seqs[i]].inputs) = Len(rq[sq[i]].inputs)
        /\ v.req[v.seqs[i]].iBatch = rq[sq[i]].iBatch
  BY <1>5, <1>6, <1>7, <1>9 DEF DecodeLogits
<1>11. DOMAIN v.inflight = DOMAIN fl /\ \A j \in DOMAIN fl : SameBatch(fl[j], v.inflight[j])
  <2>1. DOMAIN v.inflight = DOMAIN fl
    BY <1>5 DEF nf, DecodeLogits
  <2>2. ASSUME NEW j \in DOMAIN fl PROVE SameBatch(fl[j], v.inflight[j])
    <3>1. v.inflight[j] = FilledBatch(w.inflight[j], p, t) /\ SameBatch(fl[j], w.inflight[j])
      BY <1>5 DEF nf, DecodeLogits
    <3> QED BY <3>1, FilledSame
  <2> QED BY <2>1, <2>2
<1> QED BY <1>8, <1>10, <1>11 DEF DecodeLogits

\* A sequence that ends.
LEMMA RemoveLogits ==
    ASSUME NEW w, NEW i \in Idx, NEW n, NEW sq, DecodeInv(w, n, sq), w.seqs[i] # None,
           NEW rq, NEW fl, DecodeLogits(w, sq, rq, fl),
           NEW why, NEW v, v = removeSequence(w, i, why)
    PROVE  DecodeLogits(v, sq, rq, fl)
<1>1. {"req", "seqs", "sem", "ic"} \subseteq DOMAIN w /\ Acc(w.req, w.seqs, w.sem, w.ic)
  BY DEF DecodeInv
<1>2. v.inflight = w.inflight
  BY DEF DecodeInv, removeSequence
<1>3. /\ InputsOK(v.req)
      /\ \A j \in Occupied(v.seqs) : /\ j \in Occupied(w.seqs) /\ v.seqs[j] = w.seqs[j]
                                     /\ v.req[v.seqs[j]] = w.req[w.seqs[j]]
  BY <1>1, RemoveFields DEF DecodeLogits
<1> QED BY <1>2, <1>3 DEF DecodeLogits

\* Sampling a token.
LEMMA SampledLogits ==
    ASSUME NEW w, NEW i \in Idx, NEW sq, DecodeInv(w, i, sq), w.seqs[i] # None,
           NEW rq, NEW fl, DecodeLogits(w, sq, rq, fl), NEW q, NEW o, o.cut \in Int
    PROVE  DecodeLogits(Sampled(w, i, q, o), sq, rq, fl)
<1> DEFINE v == Sampled(w, i, q, o)
<1>1. ASSUME NEW why, v = removeSequence(w, i, why) PROVE DecodeLogits(v, sq, rq, fl)
  <2> HIDE DEF v
  <2> QED BY <1>1, RemoveLogits
<1>2. ASSUME NEW x, v = [w EXCEPT !.req[q].held = x] PROVE DecodeLogits(v, sq, rq, fl)
  <2> HIDE DEF v
  <2>1. v.seqs = w.seqs /\ v.inflight = w.inflight /\ v.req = [w.req EXCEPT ![q].held = x]
    BY <1>2 DEF DecodeInv
  <2>2. \A y \in Requests : /\ v.req[y].pc = w.req[y].pc /\ v.req[y].inputs = w.req[y].inputs
                            /\ v.req[y].iBatch = w.req[y].iBatch
    BY <2>1 DEF DecodeInv, Acc, ReqShape
  <2>3. InputsOK(v.req)
    BY <2>2 DEF InputsOK, DecodeLogits
  <2>4. \A j \in Occupied(w.seqs) : w.seqs[j] \in Requests
    BY DEF DecodeInv, Acc, Owners, Occupied
  <2> QED BY <2>1, <2>2, <2>3, <2>4 DEF DecodeLogits
<1>3. ASSUME v = StopAt(w, i, w.req[q].slot, o.cut) PROVE DecodeLogits(v, sq, rq, fl)
  <2> DEFINE s == w.req[q].slot
             x == SubSeq(w.ic.slots[s].inputs, 1, Len(w.ic.slots[s].inputs) - o.cut)
             u == [w EXCEPT !.ic.slots[s].inputs = x]
  <2> HIDE DEF v
  <2>1. CASE o.cut > Len(w.ic.slots[s].inputs)
    <3>1. v = [w EXCEPT !.panic = "stop"]
      BY <1>3, <2>1 DEF StopAt
    <3>2. v.seqs = w.seqs /\ v.inflight = w.inflight /\ v.req = w.req
      BY <3>1 DEF DecodeInv
    <3> QED BY <3>2 DEF DecodeLogits
  <2>2. CASE ~(o.cut > Len(w.ic.slots[s].inputs))
    <3>1. v = removeSequence(u, i, "stop")
      BY <1>3, <2>2 DEF StopAt
    <3>2. s \in Slots => IsSeq(x)
      BY SubIsSeq DEF DecodeInv, Acc, CacheShape, SlotShape, IsSeq
    <3> HIDE DEF s, x
    <3>3. /\ DOMAIN u = DOMAIN w /\ u.seqs = w.seqs /\ u.sem = w.sem /\ u.panic = w.panic
          /\ u.req = w.req /\ u.inflight = w.inflight
          /\ u.ic = [w.ic EXCEPT !.slots[s].inputs = x]
      BY DEF DecodeInv
    <3> HIDE DEF u
    <3>4. SameUse(w.ic, u.ic)
      <4>1. u.ic = [w.ic EXCEPT !.kv = w.ic.kv, !.slots[s].inputs = x]
        BY <3>3 DEF DecodeInv, Acc, CacheShape
      <4>2. CacheShape(w.ic)
        BY DEF DecodeInv, Acc
      <4> QED BY <4>1, <4>2, <3>2, InputsOfSlot
    <3>5. SameReq(w.req, u.req)
      BY <3>3 DEF SameReq, DecodeInv, Acc
    <3>6. Acc(u.req, u.seqs, u.sem, u.ic)
      BY <3>3, <3>4, <3>5, SameKeeps DEF DecodeInv
    <3>7. DecodeInv(u, i, sq) /\ u.seqs[i] # None
      BY <3>3, <3>6 DEF DecodeInv
    <3>8. DecodeLogits(u, sq, rq, fl)
      BY <3>3 DEF DecodeLogits
    <3> QED BY <3>1, <3>7, <3>8, RemoveLogits
  <2> QED BY <2>1, <2>2
<1>4. \/ \E why : v = removeSequence(w, i, why)
      \/ \E x : v = [w EXCEPT !.req[q].held = x]
      \/ v = StopAt(w, i, w.req[q].slot, o.cut)
  BY SampledWays
<1> QED BY <1>1, <1>2, <1>3, <1>4

\* A round of the loop.
LEMMA DecodeOneLogits ==
    ASSUME NEW w, NEW i \in Idx, NEW sq, DecodeInv(w, i, sq), w.seqs[i] # None,
           NEW rq, NEW fl, DecodeLogits(w, sq, rq, fl), NEW p, NEW o, o.cut \in Int
    PROVE  DecodeLogits(DecodeOne(w, i, p, o), sq, rq, fl)
<1>1. CASE w.panic # "no"
  BY <1>1 DEF DecodeOne
<1>2. CASE w.panic = "no"
  <2> DEFINE v == Known(w, p, o.token)
  <2>1. DecodeOne(w, i, p, o) = Sampled(v, i, p.of, o)
    BY <1>2 DEF DecodeOne, Known
  <2>2. DecodeInv(v, i, sq) /\ v.seqs = w.seqs
    BY ResolveKeeps
  <2>3. DecodeLogits(v, sq, rq, fl)
    BY ResolveLogits
  <2> HIDE DEF v
  <2> QED BY <2>1, <2>2, <2>3, SampledLogits
<1> QED BY <1>1, <1>2

\* The loop of computeBatch.
LEMMA DecodeAllLogits ==
    ASSUME NEW w0, NEW b, NEW sq, DecodeInv(w0, 0, sq),
           NEW rq, NEW fl, DecodeLogits(w0, sq, rq, fl),
           NEW mine \in SUBSET {i \in Idx : sq[i] # None}, NEW outcome \in [mine -> Outcomes]
    PROVE  DecodeLogits(DecodeAll(w0, b, outcome), sq, rq, fl)
<1> DEFINE D == Decoded(w0, b, outcome)
           S == {n \in Nat : n <= NumSlots => DecodeInv(D[n], n, sq) /\ DecodeLogits(D[n], sq, rq, fl)}
<1>1. D = [n \in 0 .. NumSlots |-> IF n = 0 THEN w0 ELSE DecodeIndex(D[n - 1], n - 1, b, outcome)]
  BY DecodedRounds
<1> HIDE DEF D
<1>2. 0 \in S
  BY <1>1, SlotCount
<1>3. ASSUME NEW n \in Nat, n \in S PROVE n + 1 \in S
  <2> SUFFICES ASSUME n + 1 <= NumSlots
               PROVE  DecodeInv(D[n + 1], n + 1, sq) /\ DecodeLogits(D[n + 1], sq, rq, fl)
    OBVIOUS
  <2>1. DecodeInv(D[n], n, sq) /\ DecodeLogits(D[n], sq, rq, fl)
    BY <1>3, SlotCount
  <2>2. n + 1 \in 0 .. NumSlots /\ n + 1 # 0 /\ (n + 1) - 1 = n /\ n \in Idx /\ n >= n
    BY SlotCount DEF Idx, Slots
  <2>3. D[n + 1] = DecodeIndex(D[n], n, b, outcome)
    BY <1>1, <2>2
  <2>4. CASE n \in mine
    <3>1. D[n].seqs[n] # None
      BY <2>1, <2>2, <2>4 DEF DecodeInv
    <3>2. outcome[n].cut \in Int
      BY <2>4, RunnerConstants DEF Outcomes
    <3>3. D[n + 1] = DecodeOne(D[n], n, b.next[n], outcome[n])
      BY <2>3, <2>4 DEF DecodeIndex
    <3> QED BY <2>1, <2>2, <3>1, <3>2, <3>3, DecodeOneKeeps, DecodeOneLogits
  <2>5. CASE n \notin mine
    <3>1. D[n + 1] = D[n]
      BY <2>3, <2>5 DEF DecodeIndex
    <3> QED BY <2>1, <2>2, <3>1, StayInRound
  <2> QED BY <2>4, <2>5
<1> HIDE DEF S
<1>4. NumSlots \in S
  BY <1>2, <1>3, Induct, SlotCount
<1> QED BY <1>4, SlotCount DEF S, D, DecodeAll

\* Where the batches are when the k-th is done with.
LEMMA FinishedBatches ==
    ASSUME LogitsInv, NEW k \in DOMAIN inflight, NEW F, F = Finished(k)
    PROVE  /\ IsSeq(F) /\ Len(F) = Len(inflight) - 1
           /\ \A j \in DOMAIN F : \E m \in DOMAIN inflight :
                m # k /\ SameBatch(inflight[m], F[j]) /\ (j < Len(F) => m < Len(inflight))
           /\ \A m \in DOMAIN inflight : m # k =>
                \E j \in DOMAIN F : SameBatch(inflight[m], F[j])
<1> DEFINE L == Len(inflight)
<1>1. L \in Nat /\ DOMAIN inflight = 1 .. L /\ k \in 1 .. L
  BY DEF LogitsInv, IsSeq
<1>2. DOMAIN F = 1 .. L - 1
  BY DEF Finished
<1> HIDE DEF L
<1>3. IsSeq(F) /\ Len(F) = L - 1
  <2>1. L - 1 \in Int /\ ~(L - 1 < 0)
    BY <1>1
  <2> QED BY <1>2, <2>1, FunIsSeq
<1>4. \A m \in DOMAIN inflight : SameBatch(inflight[m], inflight[m])
  BY DEF LogitsInv, SameBatch
<1>5. ASSUME NEW j \in 1 .. L - 1, j < k PROVE SameBatch(inflight[j], F[j])
  <2>1. F[j] = inflight[j] /\ j \in DOMAIN inflight
    BY <1>1, <1>5 DEF Finished, L
  <2> QED BY <1>4, <2>1
<1>6. ASSUME NEW j \in 1 .. L - 1, ~(j < k) PROVE SameBatch(inflight[j + 1], F[j])
  <2>1. j + 1 \in DOMAIN inflight
    BY <1>1
  <2>2. BatchShape(inflight[j + 1])
    BY <2>1 DEF LogitsInv
  <2>3. F[j] = [inflight[j + 1] EXCEPT !.waits = @ /\ j # k]
    BY <1>6 DEF Finished, L
  <2>4. PICK x : F[j] = [inflight[j + 1] EXCEPT !.waits = x]
    BY <2>3
  <2> DEFINE b == inflight[j + 1]
             c == F[j]
  <2> HIDE DEF b, c
  <2>5. /\ DOMAIN c = DOMAIN b /\ c.stage = b.stage /\ c.entries = b.entries /\ c.seqs = b.seqs
        /\ c.outputs = b.outputs /\ c.next = b.next /\ c.iBatches = b.iBatches
    BY <2>2, <2>4 DEF BatchShape, b, c
  <2>6. SameBatch(b, c)
    BY <2>2, <2>5 DEF SameBatch, BatchShape, EntriesShape, b
  <2> QED BY <2>6 DEF b, c
<1>7. ASSUME NEW j \in DOMAIN F
      PROVE  \E m \in DOMAIN inflight :
                m # k /\ SameBatch(inflight[m], F[j]) /\ (j < Len(F) => m < L)
  <2>1. CASE j < k
    <3>1. j \in DOMAIN inflight /\ j # k /\ j < L
      BY <1>1, <1>2, <2>1
    <3> QED BY <1>2, <1>5, <2>1, <3>1
  <2>2. CASE ~(j < k)
    <3>1. j + 1 \in DOMAIN inflight /\ j + 1 # k /\ (j < L - 1 => j + 1 < L)
      BY <1>1, <1>2, <2>2
    <3> QED BY <1>2, <1>3, <1>6, <2>2, <3>1
  <2> QED BY <2>1, <2>2
<1>8. ASSUME NEW m \in DOMAIN inflight, m # k
      PROVE  \E j \in DOMAIN F : SameBatch(inflight[m], F[j])
  <2>1. CASE m < k
    <3>1. m \in 1 .. L - 1
      BY <1>1, <2>1
    <3> QED BY <1>2, <1>5, <2>1, <3>1
  <2>2. CASE ~(m < k)
    <3>1. m - 1 \in 1 .. L - 1 /\ ~(m - 1 < k) /\ (m - 1) + 1 = m
      BY <1>1, <1>8, <2>2
    <3> QED BY <1>2, <1>6, <3>1
  <2> QED BY <2>1, <2>2
<1> QED BY <1>3, <1>7, <1>8 DEF L

\* A batch that is done with was not waited for by its own sequences.
LEMMA DecodeStepLogits == ASSUME SlotInv, LogitsInv, NEW k, Decode(k) PROVE LogitsInv'
<1> DEFINE mine == {i \in Idx : /\ seqs[i] # None
                                /\ inflight[k].next[i] # None
                                /\ inflight[k].seqs[i] = seqs[i]}
           F    == Finished(k)
           w0   == [req |-> req, seqs |-> seqs, sem |-> sem, ic |-> ic,
                    inflight |-> F, panic |-> panic]
<1>1. PICK outcome \in [mine -> Outcomes] :
         \E w \in {DecodeAll(w0, inflight[k], outcome)} :
            /\ req' = w.req /\ seqs' = w.seqs /\ sem' = w.sem /\ ic' = w.ic
            /\ inflight' = w.inflight /\ panic' = w.panic
  BY DEF Decode
<1> DEFINE w == DecodeAll(w0, inflight[k], outcome)
<1>2. req' = w.req /\ seqs' = w.seqs /\ inflight' = w.inflight
  BY <1>1
<1>3. /\ k \in DOMAIN inflight /\ inflight[k].stage = "started" /\ Alive
      /\ prevNil' = (prevNil \/ k = Len(inflight)) /\ UNCHANGED nextSeq
  BY DEF Decode
<1>4. /\ IsSeq(F) /\ Len(F) = Len(inflight) - 1
      /\ \A j \in DOMAIN F : \E m \in DOMAIN inflight :
           m # k /\ SameBatch(inflight[m], F[j]) /\ (j < Len(F) => m < Len(inflight))
      /\ \A m \in DOMAIN inflight : m # k => \E j \in DOMAIN F : SameBatch(inflight[m], F[j])
  BY <1>3, FinishedBatches
<1>5. DecodeInv(w0, 0, seqs)
  BY <1>3 DEF Alive, SlotInv, DecodeInv
<1>6. w0.req = req /\ w0.seqs = seqs /\ w0.inflight = F
  OBVIOUS
<1> HIDE DEF w0, F
<1>7. DecodeLogits(w0, seqs, req, F)
  <2>1. \A j \in DOMAIN F : SameBatch(F[j], F[j])
    BY <1>4 DEF SameBatch
  <2> QED BY <1>6, <2>1 DEF DecodeLogits, LogitsInv
<1>8. DecodeLogits(w, seqs, req, F)
  <2>1. mine \in SUBSET {i \in Idx : seqs[i] # None}
    OBVIOUS
  <2> HIDE DEF mine
  <2> QED BY <1>5, <1>7, <2>1, DecodeAllLogits
<1> HIDE DEF w
<1>9. /\ IsSeq(inflight') /\ Len(inflight') = Len(F) /\ DOMAIN inflight' = DOMAIN F
  BY <1>2, <1>4, <1>8, FunIsSeq DEF DecodeLogits, IsSeq
<1>10. /\ \A j \in DOMAIN inflight' : SameBatch(F[j], inflight'[j])
       /\ InputsOK(req')
  BY <1>2, <1>8 DEF DecodeLogits
<1>11. \A j \in DOMAIN inflight' : BatchShape(inflight'[j])
  BY <1>10 DEF SameBatch
<1>12. OnlyLastWaits'
  <2> SUFFICES ASSUME NEW j \in DOMAIN inflight', j < Len(inflight') \/ prevNil'
               PROVE  inflight'[j].stage = "started"
    BY DEF OnlyLastWaits
  <2>1. PICK m \in DOMAIN inflight :
           m # k /\ SameBatch(inflight[m], F[j]) /\ (j < Len(F) => m < Len(inflight))
    BY <1>4, <1>9
  <2>2. m < Len(inflight) \/ prevNil
    <3>1. DOMAIN inflight = 1 .. Len(inflight) /\ Len(inflight) \in Nat
      BY DEF LogitsInv, IsSeq
    <3>2. CASE j < Len(inflight')
      BY <1>9, <2>1, <3>2
    <3>3. CASE prevNil'
      <4>1. prevNil \/ k = Len(inflight)
        BY <1>3, <3>3
      <4>2. k = Len(inflight) => m < Len(inflight)
        BY <2>1, <3>1
      <4> QED BY <4>1, <4>2
    <3> QED BY <3>2, <3>3
  <2>3. inflight[m].stage = "started"
    BY <2>2 DEF LogitsInv, OnlyLastWaits
  <2> QED BY <1>10, <2>1, <2>3 DEF SameBatch
<1>13. KeptIndex'
  <2> SUFFICES ASSUME NEW j \in DOMAIN inflight', NEW i \in Idx, inflight'[j].next[i] # None
               PROVE  LogitsOf(inflight'[j], inflight'[j].seqs[i], inflight'[j].iBatches[i])
    BY DEF KeptIndex
  <2>1. PICK m \in DOMAIN inflight : SameBatch(inflight[m], F[j])
    BY <1>4, <1>9
  <2>2. /\ inflight'[j].next = inflight[m].next /\ inflight'[j].seqs = inflight[m].seqs
        /\ inflight'[j].iBatches = inflight[m].iBatches
    BY <1>10, <2>1 DEF SameBatch
  <2>3. LogitsOf(inflight[m], inflight[m].seqs[i], inflight[m].iBatches[i])
    BY <2>2 DEF LogitsInv, KeptIndex
  <2>4. LogitsOf(F[j], inflight[m].seqs[i], inflight[m].iBatches[i])
    BY <2>1, <2>3, SameLogits
  <2>5. LogitsOf(inflight'[j], inflight[m].seqs[i], inflight[m].iBatches[i])
    BY <1>10, <2>4, SameLogits
  <2> QED BY <2>2, <2>5
<1>14. UsedUp'
  <2> SUFFICES ASSUME NEW i \in Occupied(seqs'), Len(req'[seqs'[i]].inputs) = 0
               PROVE  \E j \in DOMAIN inflight' :
                        /\ inflight'[j].stage = "ready"
                        /\ inflight'[j].seqs[i] = seqs'[i]
                        /\ LogitsOf(inflight'[j], seqs'[i], req'[seqs'[i]].iBatch)
    BY DEF UsedUp
  <2>1. /\ seqs'[i] = seqs[i] /\ Len(req[seqs[i]].inputs) = 0
        /\ req'[seqs'[i]].iBatch = req[seqs[i]].iBatch
    BY <1>2, <1>8 DEF DecodeLogits
  <2>2. i \in Occupied(seqs)
    BY <2>1 DEF Occupied
  <2>3. PICK m \in DOMAIN inflight :
           /\ inflight[m].stage = "ready" /\ inflight[m].seqs[i] = seqs[i]
           /\ LogitsOf(inflight[m], seqs[i], req[seqs[i]].iBatch)
    BY <1>3, <2>1, <2>2 DEF LogitsInv, UsedUp
  <2>4. m # k
    BY <1>3, <2>3
  <2>5. PICK j \in DOMAIN F : SameBatch(inflight[m], F[j])
    BY <1>4, <2>4
  <2>6. LogitsOf(F[j], seqs[i], req[seqs[i]].iBatch)
    BY <2>3, <2>5, SameLogits
  <2>7. LogitsOf(inflight'[j], seqs[i], req[seqs[i]].iBatch)
    BY <1>9, <1>10, <2>5, <2>6, SameLogits
  <2>8. inflight'[j].stage = "ready" /\ inflight'[j].seqs[i] = seqs[i]
    BY <1>9, <1>10, <2>3, <2>5 DEF SameBatch
  <2> QED BY <1>9, <2>1, <2>5, <2>7, <2>8
<1>15. prevNil' \in BOOLEAN /\ nextSeq' \in 0 .. NumSlots
  BY <1>3 DEF LogitsInv
<1> QED BY <1>9, <1>10, <1>11, <1>12, <1>13, <1>14, <1>15 DEF LogitsInv

-----------------------------------------------------------------------------
(* The theorem *)

\* The invariant is inductive, together with the account of the slots.
LEMMA LogitsNext == SlotInv /\ LogitsInv /\ [Next]_vars => LogitsInv'
<1> SUFFICES ASSUME SlotInv, LogitsInv, [Next]_vars PROVE LogitsInv'
  OBVIOUS
<1>1. ASSUME NEW q \in Requests, Submit(q) \/ Acquire(q) \/ Load(q) \/ ClientGone(q)
      PROVE  LogitsInv'
  BY <1>1, SubmitLogits, AcquireLogits, LoadLogits, GoneLogits
<1>2. CASE ForwardBatch
  BY <1>2, ForwardLogits
<1>3. ASSUME NEW k, GatherInputs(k) \/ Compute(k) \/ Decode(k) PROVE LogitsInv'
  BY <1>3, GatherLogits, ComputeLogits, DecodeStepLogits
<1>4. CASE UNCHANGED vars
  BY <1>4 DEF vars, LogitsInv, InputsOK, OnlyLastWaits, KeptIndex, UsedUp, Alive, Occupied
<1> QED BY <1>1, <1>2, <1>3, <1>4 DEF Next

\* The index that a batch keeps is that of the last input of the sequence.
LEMMA OwnFromInv == LogitsInv => OwnLogits
<1> SUFFICES ASSUME LogitsInv, NEW k \in DOMAIN inflight, NEW i \in Idx, inflight[k].next[i] # None
             PROVE  LET b == inflight[k]
                    IN  /\ b.iBatches[i] \in DOMAIN b.outputs
                        /\ b.outputs[b.iBatches[i]] =
                             Max({e \in DOMAIN b.entries : b.entries[e].q = b.seqs[i]})
  BY DEF OwnLogits
<1>1. LogitsOf(inflight[k], inflight[k].seqs[i], inflight[k].iBatches[i])
  BY DEF LogitsInv, KeptIndex
<1>2. EntriesShape(inflight[k])
  BY DEF LogitsInv, BatchShape
<1> QED BY <1>1, <1>2, LogitsAreOwn

\* computeBatch samples a token from the logits of the last input that its
\* sequence has in the batch it decodes: forwardBatch may have set seq.iBatch
\* for the next batch already, but the index was kept before it could.
THEOREM LogitsAreTheirOwn == Spec => []OwnLogits
<1>1. Init => SlotInv /\ LogitsInv
  BY SlotInit, LogitsInit
<1>2. SlotInv /\ LogitsInv /\ [Next]_vars => (SlotInv /\ LogitsInv)'
  BY SlotNext, LogitsNext
<1>3. LogitsInv => OwnLogits
  BY OwnFromInv
<1> QED BY <1>1, <1>2, <1>3, PTL DEF Spec
=============================================================================
