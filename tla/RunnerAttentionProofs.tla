----------------------- MODULE RunnerAttentionProofs -----------------------
(***************************************************************************)
(* Proof that a batch of the runner attends to exactly what its sequences  *)
(* consist of, for any number of slots, cells, requests and batches, with  *)
(* a sliding window or without.                                            *)
(*                                                                         *)
(* First the invariant: what the cells of a slot hold, or will hold when   *)
(* the batches under way are computed, is what the slot records.  Then     *)
(* why it implies the property, and each action: those of a request, the   *)
(* stages of a batch, and the one that takes most of the module, a round   *)
(* of forwardBatch, which shifts full slots, takes inputs of every         *)
(* sequence and finds cells for them.                                      *)
(***************************************************************************)
EXTENDS RunnerCacheProofs, FunctionTheorems

-----------------------------------------------------------------------------
(* The invariant *)

\* A request that shifts keeps so little of its beginning that a window that
\* forgets lies behind what is discarded, or keeps nothing.  A cache that cannot
\* shift computes again what is left, unless nothing is left in it.
KeepFits(r, kv) ==
    r.shift /\ kv.memory # MaxInt /\ (CanShift \/ r.keep = NumCtx - 1) =>
        r.keep = 0 \/ r.keep + 2 * kv.window <= NumCtx

\* The same, of what may be asked for.
KeptOutOfWindow ==
    \A window \in Windows, shape \in Shapes :
        shape.shift /\ SwaMemory(window) # MaxInt /\ (CanShift \/ Keep(shape) = NumCtx - 1) =>
            Keep(shape) = 0 \/ Keep(shape) + 2 * window <= NumCtx

\* The tokens of x are known.
Known0(x) == \A j \in DOMAIN x : x[j].token # 0

\* The tokens of x that are not known are those of request q.
OwnHoles(q, x) == \A j \in DOMAIN x : x[j].token = 0 => x[j].of = q

\* What holds of a request, whatever it does.
ReqGood(rq, kv) ==
    \A q \in Requests :
        KeepFits(rq[q], kv) /\ OwnHoles(q, rq[q].inputs) /\ OwnHoles(q, rq[q].pending)

\* A batch is made for requests that stream; it writes a cell once.
FromStreams(rq, b) ==
    /\ \A i \in Idx : b.seqs[i] # None => b.seqs[i] \in Requests /\ rq[b.seqs[i]].pc \in {"stream", "done"}
    /\ \A e \in DOMAIN b.entries : b.entries[e].q \in Requests
LocOnce(b) == \A d, e \in DOMAIN b.entries : b.loc[d] = b.loc[e] => d = e
BatchesGood(rq, fl) == \A k \in DOMAIN fl : FromStreams(rq, fl[k]) /\ LocOnce(fl[k])

\* Batch b writes cell c.
Writes(b, c) == \E e \in DOMAIN b.entries : b.loc[e] = c

\* Cell c holds the key of token t for position p, or will when the batch that
\* has gathered its tokens is computed.
Holds(kv, fl, c, t, p) ==
    /\ \A k \in DOMAIN fl : fl[k].stage = "gathered" =>
         \A e \in DOMAIN fl[k].entries :
             fl[k].loc[e] = c => fl[k].tokens[e] = t /\ fl[k].entries[e].pos = p
    /\ (\A k \in DOMAIN fl : fl[k].stage = "gathered" => ~Writes(fl[k], c)) =>
         kv.data[c].token = t /\ kv.data[c].pos = p

\* Nor is it waiting for a batch whose tokens are not gathered.
Settled(fl, c) == \A k \in DOMAIN fl : fl[k].stage = "ready" => ~Writes(fl[k], c)

\* The cells of sequence s hold the inputs x, as far as these go.
Records(kv, fl, s, x) ==
    \A c \in CellsOf(kv, s) : kv.cells[c].pos < Len(x) =>
        Settled(fl, c) /\ Holds(kv, fl, c, x[kv.cells[c].pos + 1].token, kv.cells[c].pos)

HasCell(kv, s, p) == \E c \in CellsOf(kv, s) : kv.cells[c].pos = p
HasLow(kv, s, p)  == \E c \in CellsOf(kv, s) : kv.cells[c].pos <= p

\* The positions of a sequence have no gap.
Convex(kv, s) ==
    \A c, d \in CellsOf(kv, s) : \A p \in Nat :
        kv.cells[c].pos <= p /\ p <= kv.cells[d].pos => HasCell(kv, s, p)

\* Without a window nothing of the first n inputs is forgotten.
Whole(kv, s, n) ==
    kv.memory = MaxInt /\ n > 0 =>
        HasCell(kv, s, 0) /\ \E c \in CellsOf(kv, s) : kv.cells[c].pos >= n - 1

SlotGood(kv, fl, s, x) == Known0(x) /\ Records(kv, fl, s, x) /\ Convex(kv, s) /\ Whole(kv, s, Len(x))

\* The first position that what is at position n attends to.
LowOf(kv, n) == IF kv.memory = MaxInt \/ n <= kv.window THEN 0 ELSE n - kv.window

\* The n inputs of a sequence are there, as far as the next one attends to them.
Reaches(kv, s, n) == n > 0 => HasCell(kv, s, n - 1) /\ HasLow(kv, s, LowOf(kv, n))

\* Entry e of batch b is placed in sequence s, and attends to all it has to.
Stands(kv, b, e, s) ==
    /\ b.entries[e].slot = s
    /\ b.loc[e] \in CellsOf(kv, s) /\ kv.cells[b.loc[e]].pos = b.entries[e].pos
    /\ b.mask[e] = Seen(kv, b.entries[e])
    /\ HasLow(kv, s, LowOf(kv, b.entries[e].pos))

\* The entries of request q in a batch that is not computed: x is what its slot
\* s records, y what is taken of it.
Entries(kv, b, q, s, x, y) ==
    /\ \A e \in DOMAIN b.entries : b.entries[e].q = q =>
        /\ Stands(kv, b, e, s)
        /\ b.stage = "ready" =>
             \E j \in DOMAIN y : b.entries[e].pos = Len(x) + j - 1 /\ b.entries[e].input = y[j]
        /\ b.stage = "gathered" => b.entries[e].pos < Len(x)
    /\ b.stage = "ready" =>
        \A j \in DOMAIN y : \E e \in DOMAIN b.entries :
            b.entries[e].q = q /\ b.entries[e].pos = Len(x) + j - 1

SeqGood(rq, sq, c, fl, i) ==
    LET q == sq[i]
        s == rq[q].slot
        x == c.slots[s].inputs
        y == rq[q].pending
    IN  /\ Reaches(c.kv, s, Len(x) + Len(y))
        /\ \A k \in DOMAIN fl :
             fl[k].stage # "started" /\ fl[k].seqs[i] = q => Entries(c.kv, fl[k], q, s, x, y)

\* What holds of requests rq, sequences sq, a cache c and batches fl.
Sound(rq, sq, c, fl) ==
    /\ ReqGood(rq, c.kv)
    /\ BatchesGood(rq, fl)
    /\ \A s \in Slots : SlotGood(c.kv, fl, s, c.slots[s].inputs)
    /\ \A i \in Occupied(sq) : SeqGood(rq, sq, c, fl, i)

AttentionOK == Sound(req, seqs, ic, inflight)

AttentionInv == ~unresolved => AttentionOK

-----------------------------------------------------------------------------
(* What a batch attends to *)

\* The window and the memory of a cache, and how LowOf relates to them.
LEMMA KvNumbers ==
    ASSUME NEW kv, KvShape(kv)
    PROVE  /\ kv.window \in Nat /\ kv.window > 0 /\ kv.memory \in Nat /\ kv.memory > 0
           /\ kv.memory >= kv.window
           /\ kv.memory # MaxInt => kv.memory < NumCtx
           /\ NumCtx \in Nat /\ NumCtx > 0 /\ MaxInt \in Nat
           /\ \A c \in DOMAIN kv.cells : kv.cells[c].pos \in Nat /\ kv.cells[c].pos < NumCtx
           /\ \A s : CellsOf(kv, s) \subseteq DOMAIN kv.cells
<1>1. kv.window \in Windows /\ kv.memory = SwaMemory(kv.window)
  BY DEF KvShape
<1>2. kv.window \in Nat /\ kv.window > 0
  BY <1>1, WindowNat
<1>3. kv.memory \in Nat /\ kv.memory > 0 /\ kv.memory >= kv.window
  BY <1>1, Sizes
<1>4. \A c \in DOMAIN kv.cells : kv.cells[c].pos \in Nat /\ kv.cells[c].pos < NumCtx
  BY CellsAreNumbers
<1>5. NumCtx \in Nat /\ NumCtx > 0 /\ MaxInt \in Nat
  BY CacheConstants
<1>6. kv.memory # MaxInt => kv.memory < NumCtx
  BY <1>1, <1>2, <1>5 DEF SwaMemory
<1>7. \A s : CellsOf(kv, s) \subseteq DOMAIN kv.cells
  BY DEF CellsOf
<1> QED BY <1>2, <1>3, <1>4, <1>5, <1>6, <1>7

\* LowOf is a number, and grows.
LEMMA LowGrows ==
    ASSUME NEW kv, KvShape(kv), NEW m \in Nat, NEW n \in Nat, m <= n
    PROVE  /\ LowOf(kv, m) \in Nat /\ LowOf(kv, n) \in Nat /\ LowOf(kv, m) <= LowOf(kv, n)
           /\ LowOf(kv, n) <= n /\ (n > 0 => LowOf(kv, n) <= n - 1)
BY KvNumbers DEF LowOf

\* Through the cells M the inputs x are read at the positions P, each once.
Reads(kv, M, x, P) ==
    /\ {<<kv.data[c].pos, kv.data[c].token>> : c \in M} = {<<p, x[p + 1].token>> : p \in P}
    /\ Cardinality(M) = Cardinality({<<p, x[p + 1].token>> : p \in P})

\* What an entry of a gathered batch attends to when it is computed.
LEMMA AttendsToContext ==
    ASSUME NEW kv, KvOK(kv), NEW fl, NEW k \in DOMAIN fl, fl[k].stage = "gathered",
           \A j \in DOMAIN fl : j # k => fl[j].stage # "gathered", LocOnce(fl[k]),
           NEW s, NEW x, Len(x) \in Nat, Records(kv, fl, s, x), Convex(kv, s),
           NEW e \in DOMAIN fl[k].entries, Stands(kv, fl[k], e, s), fl[k].entries[e].pos < Len(x),
           NEW r, r = Put(kv, fl[k].entries, fl[k].loc, fl[k].tokens),
           NEW P, P = Max({0, fl[k].entries[e].pos - kv.window}) .. fl[k].entries[e].pos
    PROVE  Reads(r, fl[k].mask[e], x, P)
<1> DEFINE b == fl[k]
           n == b.entries[e].pos
           M == b.mask[e]
           X == {<<p, x[p + 1].token>> : p \in P}
           low == Max({0, n - kv.window})
<1>1. /\ kv.window \in Nat /\ kv.window > 0 /\ KvShape(kv) /\ Once(kv)
      /\ \A c \in CellsOf(kv, s) : c \in DOMAIN kv.cells /\ kv.cells[c].pos \in Nat
  BY KvNumbers DEF KvOK
<1>2. /\ b.loc[e] \in CellsOf(kv, s) /\ kv.cells[b.loc[e]].pos = n /\ b.entries[e].slot = s
      /\ M = Seen(kv, b.entries[e]) /\ HasLow(kv, s, LowOf(kv, n))
  BY DEF Stands
<1>3. n \in Nat /\ n < Len(x)
  BY <1>1, <1>2
<1>4. low \in Nat /\ low >= n - kv.window /\ LowOf(kv, n) <= low /\ (low = 0 \/ low = n - kv.window)
  <2>1. low = IF n - kv.window > 0 THEN n - kv.window ELSE 0
    BY <1>1, <1>3, MaxOfTwo
  <2> HIDE DEF low
  <2> QED BY <1>1, <1>3, <2>1 DEF LowOf
<1>5. M = {c \in CellsOf(kv, s) : kv.cells[c].pos <= n /\ kv.cells[c].pos >= n - kv.window}
  BY <1>2 DEF Seen
<1>6. P = low .. n
  OBVIOUS
<1> HIDE DEF low, M, n
<1>7. ASSUME NEW c \in M
      PROVE  /\ c \in CellsOf(kv, s) /\ c \in DOMAIN kv.cells /\ kv.cells[c].pos \in P
             /\ kv.cells[c].pos < Len(x) /\ kv.cells[c].pos \in Nat
  <2>1. /\ c \in CellsOf(kv, s) /\ kv.cells[c].pos <= n /\ kv.cells[c].pos >= n - kv.window
        /\ kv.cells[c].pos \in Nat /\ c \in DOMAIN kv.cells
    BY <1>1, <1>5
  <2>2. low <= kv.cells[c].pos /\ kv.cells[c].pos < Len(x)
    BY <1>1, <1>3, <1>4, <2>1
  <2>3. kv.cells[c].pos \in low .. n
    BY <1>3, <1>4, <2>1, <2>2
  <2> QED BY <1>6, <2>1, <2>2, <2>3
<1>8. ASSUME NEW p \in P PROVE \E c \in M : kv.cells[c].pos = p
  <2>1. p \in Nat /\ low <= p /\ p <= n /\ LowOf(kv, n) <= p
    <3>1. LowOf(kv, n) \in Nat
      BY <1>1, <1>3, LowGrows
    <3>2. p \in low .. n
      BY <1>6
    <3>3. p \in Nat /\ low <= p /\ p <= n
      BY <1>3, <1>4, <3>2
    <3> QED BY <1>4, <3>1, <3>3
  <2>2. PICK a \in CellsOf(kv, s) : kv.cells[a].pos <= LowOf(kv, n)
    BY <1>2 DEF HasLow, n
  <2>3. kv.cells[a].pos <= p /\ p <= kv.cells[b.loc[e]].pos
    <3>1. LowOf(kv, n) \in Nat
      BY <1>1, <1>3, LowGrows
    <3> QED BY <1>1, <1>2, <2>1, <2>2, <3>1 DEF n
  <2>4. PICK c \in CellsOf(kv, s) : kv.cells[c].pos = p
    BY <1>2, <2>1, <2>2, <2>3 DEF Convex, HasCell
  <2>5. p >= n - kv.window
    BY <1>1, <1>3, <1>4, <2>1
  <2> QED BY <1>5, <2>1, <2>4, <2>5
<1>9. ASSUME NEW c \in M
      PROVE  r.data[c].pos = kv.cells[c].pos /\ r.data[c].token = x[kv.cells[c].pos + 1].token
  <2>1. Holds(kv, fl, c, x[kv.cells[c].pos + 1].token, kv.cells[c].pos) /\ c \in DOMAIN kv.data
    BY <1>1, <1>7 DEF Records, KvShape
  <2>2. CASE Writes(b, c)
    <3>1. PICK d \in DOMAIN b.entries : b.loc[d] = c
      BY <2>2 DEF Writes
    <3>2. r.data[c].token = b.tokens[d] /\ r.data[c].pos = b.entries[d].pos
      BY <1>1, <2>1, <3>1, PutData DEF LocOnce
    <3> QED BY <2>1, <3>1, <3>2 DEF Holds
  <2>3. CASE ~Writes(b, c)
    <3>1. r.data[c] = kv.data[c]
      BY <1>1, <2>1, <2>3, PutData DEF Writes
    <3>2. \A j \in DOMAIN fl : fl[j].stage = "gathered" => ~Writes(fl[j], c)
      BY <2>3
    <3> QED BY <2>1, <3>1, <3>2 DEF Holds
  <2> QED BY <2>2, <2>3
<1>10. {<<r.data[c].pos, r.data[c].token>> : c \in M} = X
  <2>1. ASSUME NEW c \in M PROVE <<r.data[c].pos, r.data[c].token>> \in X
    BY <1>7, <1>9, <2>1
  <2>2. ASSUME NEW p \in P PROVE \E c \in M : <<p, x[p + 1].token>> = <<r.data[c].pos, r.data[c].token>>
    <3>1. PICK c \in M : kv.cells[c].pos = p
      BY <1>8
    <3> QED BY <1>9, <3>1
  <2>3. {<<r.data[c].pos, r.data[c].token>> : c \in M} \subseteq X
    BY <2>1
  <2>4. ASSUME NEW z \in X PROVE z \in {<<r.data[c].pos, r.data[c].token>> : c \in M}
    <3>1. PICK p \in P : z = <<p, x[p + 1].token>>
      OBVIOUS
    <3>2. PICK c \in M : <<p, x[p + 1].token>> = <<r.data[c].pos, r.data[c].token>>
      BY <2>2
    <3> QED BY <3>1, <3>2
  <2> QED BY <2>3, <2>4
<1>11. IsFiniteSet(P)
  BY <1>3, <1>4, <1>6, FS_Interval
<1>12. Cardinality(M) = Cardinality(P)
  <2> DEFINE at == [c \in M |-> kv.cells[c].pos]
  <2>1. \A c, d \in M : at[c] = at[d] => c = d
    BY <1>1, <1>7 DEF Once, CellsOf, KvShape
  <2>2. at \in [M -> P] /\ \A p \in P : \E c \in M : at[c] = p
    BY <1>7, <1>8
  <2> HIDE DEF at
  <2>3. at \in Bijection(M, P)
    BY <2>1, <2>2, Fun_IsBij
  <2>4. PICK g : g \in Bijection(P, M)
    BY <2>3, Fun_BijInverse
  <2> QED BY <1>11, <2>4, FS_Bijection DEF ExistsBijection
<1>13. Cardinality(X) = Cardinality(P)
  <2> DEFINE at == [p \in P |-> <<p, x[p + 1].token>>]
  <2>1. at \in [P -> X] /\ (\A p, q \in P : at[p] = at[q] => p = q) /\ \A z \in X : \E p \in P : at[p] = z
    OBVIOUS
  <2> HIDE DEF at
  <2>2. at \in Bijection(P, X)
    BY <2>1, Fun_IsBij
  <2> QED BY <1>11, <2>2, FS_Bijection DEF ExistsBijection
<1> QED BY <1>10, <1>12, <1>13 DEF M, Reads

\* At most one batch is not computed yet.
LEMMA OneWaits ==
    ASSUME LogitsInv, NEW k \in DOMAIN inflight, inflight[k].stage # "started",
           NEW j \in DOMAIN inflight, j # k
    PROVE  inflight[j].stage = "started"
<1>1. Len(inflight) \in Nat /\ DOMAIN inflight = 1 .. Len(inflight) /\ prevNil \in BOOLEAN
  BY DEF LogitsInv, IsSeq
<1>2. ~(k < Len(inflight) \/ prevNil)
  BY DEF LogitsInv, OnlyLastWaits
<1>3. j < Len(inflight)
  BY <1>1, <1>2
<1> QED BY <1>3 DEF LogitsInv, OnlyLastWaits

\* The invariant says that every entry attends to what it ought to.
LEMMA ExactFromInv ==
    ASSUME SlotInv, LogitsInv, CacheInv, AttentionInv
    PROVE  AttentionExact
<1> SUFFICES ASSUME ~unresolved, NEW k \in DOMAIN inflight, inflight[k].stage = "gathered",
                    NEW kv, kv = Put(ic.kv, inflight[k].entries, inflight[k].loc, inflight[k].tokens),
                    NEW e \in DOMAIN inflight[k].entries, Owned(inflight[k], e)
             PROVE  /\ Attends(inflight[k], kv, e) = Context(inflight[k], e)
                    /\ Cardinality(inflight[k].mask[e]) = Cardinality(Context(inflight[k], e))
  BY DEF AttentionExact
<1> DEFINE b == inflight[k]
<1>1. AttentionOK
  BY DEF AttentionInv
<1>2. PICK i \in Idx : seqs[i] = b.entries[e].q /\ b.seqs[i] = seqs[i]
  BY DEF Owned
<1>3. i \in Occupied(seqs)
  BY <1>1, <1>2, RunnerConstants DEF AttentionOK, Sound, BatchesGood, FromStreams, Occupied
<1> DEFINE q == seqs[i]
           s == req[q].slot
           x == ic.slots[s].inputs
<1>4. s \in Slots /\ x \in Seq(InputType)
  BY <1>3 DEF SlotInv, Acc, Owners, CacheInv, CacheTypes, SlotTypes
<1>5. KvOK(ic.kv) /\ \A j \in DOMAIN inflight : j # k => inflight[j].stage # "gathered"
  BY OneWaits DEF CacheInv, CacheTypes
<1>6. Records(ic.kv, inflight, s, x) /\ Convex(ic.kv, s) /\ LocOnce(b)
  BY <1>1, <1>4 DEF AttentionOK, Sound, SlotGood, BatchesGood
<1>7. SeqGood(req, seqs, ic, inflight, i)
  BY <1>1, <1>3 DEF AttentionOK, Sound
<1>8. Entries(ic.kv, b, q, s, x, req[q].pending)
  BY <1>2, <1>7 DEF SeqGood
<1>9. Stands(ic.kv, b, e, s) /\ b.entries[e].pos < Len(x) /\ b.entries[e].slot = s
  BY <1>2, <1>8 DEF Entries, Stands
<1>10. Len(x) \in Nat
  BY <1>4, LengthNat
<1> DEFINE P == Max({0, b.entries[e].pos - ic.kv.window}) .. b.entries[e].pos
<1>11. Reads(kv, b.mask[e], x, P)
  <2>1. P = Max({0, b.entries[e].pos - ic.kv.window}) .. b.entries[e].pos
    OBVIOUS
  <2>2. \A j \in DOMAIN inflight : j # k => inflight[j].stage # "gathered"
    BY <1>5
  <2> HIDE DEF s, x, P
  <2> QED BY <1>5, <1>6, <1>9, <1>10, <2>1, <2>2, AttendsToContext
<1>12. Context(b, e) = {<<p, x[p + 1].token>> : p \in P}
  BY <1>9 DEF Context
<1>13. Attends(b, kv, e) = {<<kv.data[c].pos, kv.data[c].token>> : c \in b.mask[e]}
  BY DEF Attends
<1> QED BY <1>11, <1>12, <1>13 DEF Reads

-----------------------------------------------------------------------------
(* What is left alone *)

\* Sequence t has in r what it has in kv, and r is a cache of the same kind.
Alike(kv, r, t) == r.window = kv.window /\ r.memory = kv.memory /\ SameFor(kv, r, t)

\* What holds of a sequence holds as long as nobody touches it.
LEMMA AlikeGood ==
    ASSUME NEW kv, NEW r, NEW t, Alike(kv, r, t)
    PROVE  /\ \A fl, x : Records(kv, fl, t, x) => Records(r, fl, t, x)
           /\ Convex(kv, t) => Convex(r, t)
           /\ \A n : Whole(kv, t, n) => Whole(r, t, n)
           /\ \A n : HasLow(kv, t, n) => HasLow(r, t, n)
           /\ \A n : Reaches(kv, t, n) => Reaches(r, t, n)
           /\ \A fl, x : SlotGood(kv, fl, t, x) => SlotGood(r, fl, t, x)
<1>1. /\ r.window = kv.window /\ r.memory = kv.memory /\ CellsOf(r, t) = CellsOf(kv, t)
      /\ \A c \in CellsOf(kv, t) : r.cells[c].pos = kv.cells[c].pos /\ r.data[c] = kv.data[c]
  BY DEF Alike, SameFor
<1>2. ASSUME NEW fl, NEW x, Records(kv, fl, t, x) PROVE Records(r, fl, t, x)
  BY <1>1, <1>2 DEF Records, Holds
<1>3. ASSUME Convex(kv, t) PROVE Convex(r, t)
  BY <1>1, <1>3 DEF Convex, HasCell
<1>4. ASSUME NEW n, Whole(kv, t, n) PROVE Whole(r, t, n)
  BY <1>1, <1>4 DEF Whole, HasCell
<1>5. ASSUME NEW n, HasLow(kv, t, n) PROVE HasLow(r, t, n)
  BY <1>1, <1>5 DEF HasLow
<1>6. ASSUME NEW n, Reaches(kv, t, n) PROVE Reaches(r, t, n)
  <2>1. LowOf(r, n) = LowOf(kv, n)
    BY <1>1 DEF LowOf
  <2> QED BY <1>1, <1>5, <1>6, <2>1 DEF Reaches, HasCell
<1> QED BY <1>2, <1>3, <1>4, <1>5, <1>6 DEF SlotGood

\* So does what holds of its entries.
LEMMA AlikeStands ==
    ASSUME NEW kv, NEW r, NEW t, Alike(kv, r, t), NEW b, NEW e, Stands(kv, b, e, t)
    PROVE  Stands(r, b, e, t)
<1>1. /\ r.window = kv.window /\ r.memory = kv.memory /\ CellsOf(r, t) = CellsOf(kv, t)
      /\ \A c \in CellsOf(kv, t) : r.cells[c].pos = kv.cells[c].pos
  BY DEF Alike, SameFor
<1>2. Seen(r, b.entries[e]) = Seen(kv, b.entries[e])
  BY <1>1 DEF Stands, Seen
<1>3. HasLow(r, t, LowOf(r, b.entries[e].pos))
  BY <1>1 DEF Stands, HasLow, LowOf
<1> QED BY <1>1, <1>2, <1>3 DEF Stands

\* A cache in which only s is different.
LEMMA OnlyAlike ==
    ASSUME NEW kv, NEW r, NEW s, OnlyFor(kv, r, s), NEW t \in Slots, t # s
    PROVE  Alike(kv, r, t)
BY DEF OnlyFor, Alike

-----------------------------------------------------------------------------
(* Handlers *)

\* In the beginning there is nothing to attend to.
LEMMA AttentionInit == Init => AttentionInv
<1> SUFFICES ASSUME Init PROVE AttentionOK
  BY DEF AttentionInv
<1>1. PICK window \in Windows, multi \in MultiUser : ic = NewInputCache(window, multi)
  BY DEF Init
<1>2. ic.kv = NewCache(window) /\ ic.slots = [s \in Slots |-> [inputs |-> <<>>, inUse |-> FALSE]]
  BY <1>1 DEF NewInputCache
<1>3. \A s \in Slots : CellsOf(ic.kv, s) = {}
  BY <1>2, NewCacheOK
<1>4. \A s \in Slots : ic.slots[s].inputs = <<>>
  BY <1>2
<1>5. \A q \in Requests : req[q].inputs = <<>> /\ req[q].pending = <<>> /\ req[q].shift = FALSE
  BY DEF Init, Blank
<1>6. Occupied(seqs) = {} /\ DOMAIN inflight = {} /\ Len(<<>>) = 0
  BY DEF Init, Occupied
<1>7. ReqGood(req, ic.kv)
  BY <1>5 DEF ReqGood, KeepFits, OwnHoles
<1>8. ASSUME NEW s \in Slots PROVE SlotGood(ic.kv, inflight, s, ic.slots[s].inputs)
  <2>1. Known0(<<>>) /\ ~(Len(<<>>) > 0)
    BY DEF Known0
  <2> QED BY <1>3, <1>4, <2>1 DEF SlotGood, Records, Convex, Whole
<1> QED BY <1>6, <1>7, <1>8 DEF AttentionOK, Sound, BatchesGood

\* A step that touches neither the cache nor a batch nor a sequence.
LEMMA QuietAttention ==
    ASSUME SlotInv, AttentionInv, UNCHANGED <<ic, inflight, seqs, unresolved>>,
           ReqGood(req, ic.kv) => ReqGood(req', ic.kv),
           \A q \in Requests : req[q].pc \in {"stream", "done"} => req'[q].pc \in {"stream", "done"},
           \A i \in Occupied(seqs) : /\ req'[seqs[i]].slot = req[seqs[i]].slot
                                     /\ req'[seqs[i]].pending = req[seqs[i]].pending
    PROVE  AttentionInv'
<1> SUFFICES ASSUME ~unresolved PROVE AttentionOK'
  BY DEF AttentionInv
<1>1. AttentionOK
  BY DEF AttentionInv
<1>2. ReqGood(req', ic.kv)
  BY <1>1 DEF AttentionOK, Sound
<1>3. BatchesGood(req', inflight)
  BY <1>1 DEF AttentionOK, Sound, BatchesGood, FromStreams
<1>4. \A s \in Slots : SlotGood(ic.kv, inflight, s, ic.slots[s].inputs)
  BY <1>1 DEF AttentionOK, Sound
<1>5. \A i \in Occupied(seqs) : SeqGood(req', seqs, ic, inflight, i)
  BY <1>1 DEF AttentionOK, Sound, SeqGood
<1> QED BY <1>2, <1>3, <1>4, <1>5 DEF AttentionOK, Sound

\* A request is accepted.
LEMMA SubmitAttention ==
    ASSUME SlotInv, CacheInv, AttentionInv, KeptOutOfWindow, NEW q \in Requests, Submit(q)
    PROVE  AttentionInv'
<1>1. /\ req[q].pc = "new" /\ UNCHANGED <<seqs, ic, inflight, unresolved>>
      /\ \A x \in Requests \ {q} : req'[x] = req[x]
  BY SubmitStep
<1>2. PICK shape \in Shapes : Submitted(req, q, req'[q], shape)
  BY SubmitStep
<1> DEFINE T == Truncated(shape)
           f == [i \in DOMAIN T |-> Input(T[i])]
<1>3. \A j \in DOMAIN f : f[j].token # 0
  <2>1. T \in Seq(Nat \ {0})
    BY TruncatedTyped
  <2> HIDE DEF T
  <2> QED BY <2>1, PromptTyped
<1>4. ic.kv.window \in Windows /\ ic.kv.memory = SwaMemory(ic.kv.window)
  BY DEF CacheInv, CacheTypes, KvOK, KvShape
<1>5. ASSUME req'[q].keep = Keep(shape), req'[q].shift = shape.shift
      PROVE  KeepFits(req'[q], ic.kv)
  BY <1>4, <1>5 DEF KeptOutOfWindow, KeepFits
<1>6. OwnHoles(q, <<>>)
  BY DEF OwnHoles
<1>7. ASSUME ReqGood(req, ic.kv) PROVE ReqGood(req', ic.kv)
  <2>1. KeepFits(req[q], ic.kv) /\ OwnHoles(q, req[q].inputs) /\ OwnHoles(q, req[q].pending)
    BY <1>7 DEF ReqGood
  <2>2. OwnHoles(q, f)
    BY <1>3 DEF OwnHoles
  <2> HIDE DEF f
  <2>3. KeepFits(req'[q], ic.kv) /\ OwnHoles(q, req'[q].inputs) /\ OwnHoles(q, req'[q].pending)
    <3>1. CASE /\ req'[q].inputs = req[q].inputs /\ req'[q].pending = req[q].pending
               /\ req'[q].keep = req[q].keep /\ req'[q].shift = req[q].shift
      <4>1. KeepFits(req'[q], ic.kv)
        BY <2>1, <3>1 DEF KeepFits
      <4> QED BY <2>1, <3>1, <4>1
    <3>2. CASE /\ req'[q].pending = <<>> /\ req'[q].keep = Keep(shape) /\ req'[q].shift = shape.shift
               /\ req'[q].inputs = f
      BY <1>5, <1>6, <2>2, <3>2
    <3> QED BY <1>2, <3>1, <3>2 DEF Submitted, f
  <2> QED BY <1>1, <1>7, <2>3 DEF ReqGood
<1>8. \A i \in Occupied(seqs) : req'[seqs[i]] = req[seqs[i]]
  BY <1>1 DEF SlotInv, Acc, Owners, Occupied
<1>9. \A x \in Requests : req[x].pc \in {"stream", "done"} => req'[x] = req[x]
  BY <1>1
<1> QED BY <1>1, <1>7, <1>8, <1>9, QuietAttention

\* A permit is acquired.
LEMMA AcquireAttention ==
    ASSUME SlotInv, AttentionInv, NEW q \in Requests, Acquire(q)
    PROVE  AttentionInv'
<1>1. /\ req[q].pc = "acquire" /\ req' = [req EXCEPT ![q].pc = "load"]
      /\ UNCHANGED <<seqs, ic, inflight, unresolved>>
  BY DEF Acquire
<1>2. \A x \in Requests : /\ req'[x].pc = IF x = q THEN "load" ELSE req[x].pc
                          /\ req'[x].inputs = req[x].inputs /\ req'[x].pending = req[x].pending
                          /\ req'[x].slot = req[x].slot /\ req'[x].keep = req[x].keep
                          /\ req'[x].shift = req[x].shift
  BY <1>1 DEF SlotInv, Acc, ReqShape
<1>3. ReqGood(req, ic.kv) => ReqGood(req', ic.kv)
  BY <1>2 DEF ReqGood, KeepFits
<1>4. \A i \in Occupied(seqs) : seqs[i] \in Requests
  BY DEF SlotInv, Acc, Owners, Occupied
<1> QED BY <1>1, <1>2, <1>3, <1>4, QuietAttention

\* A client goes away.
LEMMA GoneAttention ==
    ASSUME SlotInv, AttentionInv, NEW q \in Requests, ClientGone(q)
    PROVE  AttentionInv'
<1>1. UNCHANGED <<seqs, ic, inflight, unresolved>>
  BY DEF ClientGone
<1>2. \A i \in Occupied(seqs) : seqs[i] \in Requests /\ req[seqs[i]].pc = "stream"
  BY DEF SlotInv, Acc, Owners, Occupied
<1>3. CASE req[q].pc = "acquire"
  <2> DEFINE new == [Blank EXCEPT !.pc = "done", !.reason = "gone"]
  <2>1. req' = [req EXCEPT ![q] = new]
    BY <1>3 DEF ClientGone
  <2>2. new.pc = "done" /\ new.inputs = <<>> /\ new.pending = <<>> /\ new.keep = 0
    BY DEF Blank
  <2> HIDE DEF new
  <2>3. \A x \in Requests : req'[x] = IF x = q THEN new ELSE req[x]
    BY <2>1 DEF SlotInv, Acc, ReqShape
  <2>4. OwnHoles(q, <<>>) /\ KeepFits(new, ic.kv)
    BY <2>2 DEF OwnHoles, KeepFits
  <2>5. ReqGood(req, ic.kv) => ReqGood(req', ic.kv)
    BY <2>2, <2>3, <2>4 DEF ReqGood
  <2>6. \A i \in Occupied(seqs) : req'[seqs[i]] = req[seqs[i]]
    BY <1>2, <1>3, <2>3
  <2> QED BY <1>1, <2>2, <2>3, <2>5, <2>6, QuietAttention
<1>4. CASE req[q].pc # "acquire"
  <2>1. req' = [req EXCEPT ![q].quit = TRUE]
    BY <1>4 DEF ClientGone
  <2>2. \A x \in Requests : /\ req'[x].pc = req[x].pc
                            /\ req'[x].inputs = req[x].inputs /\ req'[x].pending = req[x].pending
                            /\ req'[x].slot = req[x].slot /\ req'[x].keep = req[x].keep
                            /\ req'[x].shift = req[x].shift
    BY <2>1 DEF SlotInv, Acc, ReqShape
  <2>3. ReqGood(req, ic.kv) => ReqGood(req', ic.kv)
    BY <2>2 DEF ReqGood, KeepFits
  <2> QED BY <1>1, <1>2, <2>2, <2>3, QuietAttention
<1> QED BY <1>3, <1>4

-----------------------------------------------------------------------------
(* Loading *)

\* What sequence s has in r is what t has in kv below position m.
PrefixOf(kv, r, t, s, m) ==
    /\ r.window = kv.window /\ r.memory = kv.memory
    /\ CellsOf(r, s) = {c \in CellsOf(kv, t) : kv.cells[c].pos < m}
    /\ \A c \in CellsOf(r, s) : r.cells[c].pos = kv.cells[c].pos /\ r.data[c] = kv.data[c]

\* The beginning of a good sequence is a good one.
LEMMA PrefixGood ==
    ASSUME NEW kv, KvShape(kv), NEW r, NEW t, NEW s, NEW m \in Nat, PrefixOf(kv, r, t, s, m),
           NEW fl, NEW x \in Seq(InputType), SlotGood(kv, fl, t, x),
           NEW y \in Seq(InputType), Len(y) = m, m <= Len(x), Agree(x, y, m)
    PROVE  SlotGood(r, fl, s, y)
<1>1. /\ CellsOf(r, s) = {c \in CellsOf(kv, t) : kv.cells[c].pos < m}
      /\ \A c \in CellsOf(r, s) : r.cells[c].pos = kv.cells[c].pos /\ r.data[c] = kv.data[c]
      /\ r.memory = kv.memory
  BY DEF PrefixOf
<1>2. \A c \in CellsOf(kv, t) : kv.cells[c].pos \in Nat
  BY KvNumbers
<1>3. Len(x) \in Nat /\ DOMAIN x = 1 .. Len(x) /\ DOMAIN y = 1 .. m
  BY LengthNat
<1>4. Known0(x) /\ Records(kv, fl, t, x) /\ Convex(kv, t) /\ Whole(kv, t, Len(x))
  BY DEF SlotGood
<1>5. \A j \in 1 .. m : j \in DOMAIN x /\ y[j].token = x[j].token
  BY <1>3 DEF Agree
<1>6. Known0(y)
  BY <1>3, <1>4, <1>5 DEF Known0
<1>7. Records(r, fl, s, y)
  <2> SUFFICES ASSUME NEW c \in CellsOf(r, s)
               PROVE  Settled(fl, c) /\ Holds(r, fl, c, y[r.cells[c].pos + 1].token, r.cells[c].pos)
    BY DEF Records
  <2> DEFINE p == kv.cells[c].pos
  <2>1. c \in CellsOf(kv, t) /\ p \in Nat /\ p < m /\ p < Len(x) /\ p + 1 \in 1 .. m
    BY <1>1, <1>2, <1>3
  <2>2. Settled(fl, c) /\ Holds(kv, fl, c, x[p + 1].token, p)
    BY <1>4, <2>1 DEF Records
  <2>3. y[p + 1].token = x[p + 1].token
    BY <1>5, <2>1
  <2> QED BY <1>1, <2>2, <2>3 DEF Holds
<1>8. ASSUME NEW p \in Nat, p < m, HasCell(kv, t, p) PROVE HasCell(r, s, p)
  BY <1>1, <1>8 DEF HasCell
<1>9. Convex(r, s)
  <2> SUFFICES ASSUME NEW c \in CellsOf(r, s), NEW d \in CellsOf(r, s), NEW p \in Nat,
                      r.cells[c].pos <= p, p <= r.cells[d].pos
               PROVE  HasCell(r, s, p)
    BY DEF Convex
  <2>1. /\ c \in CellsOf(kv, t) /\ d \in CellsOf(kv, t) /\ kv.cells[d].pos < m
        /\ kv.cells[c].pos <= p /\ p <= kv.cells[d].pos
    BY <1>1
  <2>2. p < m
    BY <1>2, <2>1
  <2> QED BY <1>4, <1>8, <2>1, <2>2 DEF Convex
<1>10. Whole(r, s, m)
  <2> SUFFICES ASSUME kv.memory = MaxInt, m > 0
               PROVE  HasCell(r, s, 0) /\ HasCell(r, s, m - 1)
    BY <1>1 DEF Whole, HasCell
  <2>1. PICK b \in CellsOf(kv, t) : kv.cells[b].pos >= Len(x) - 1
    BY <1>3, <1>4 DEF Whole
  <2>2. PICK a \in CellsOf(kv, t) : kv.cells[a].pos = 0
    BY <1>3, <1>4 DEF Whole, HasCell
  <2>3. m - 1 \in Nat /\ kv.cells[a].pos <= m - 1 /\ m - 1 <= kv.cells[b].pos
    BY <1>2, <1>3, <2>1, <2>2
  <2>4. HasCell(kv, t, m - 1) /\ HasCell(kv, t, 0)
    BY <1>4, <2>2, <2>3 DEF Convex, HasCell
  <2> QED BY <1>8, <2>3, <2>4
<1> QED BY <1>6, <1>7, <1>9, <1>10 DEF SlotGood

\* A sequence without gaps that has position n - 1 and the first that the next
\* input attends to.
LEMMA ReachesFrom ==
    ASSUME NEW kv, KvShape(kv), NEW s, Convex(kv, s), NEW n \in Nat, HasLow(kv, s, LowOf(kv, n)),
           NEW d \in CellsOf(kv, s), kv.cells[d].pos >= n - 1
    PROVE  Reaches(kv, s, n)
<1> SUFFICES ASSUME n > 0 PROVE HasCell(kv, s, n - 1)
  BY DEF Reaches
<1>1. LowOf(kv, n) \in Nat /\ LowOf(kv, n) <= n - 1
  BY LowGrows
<1>2. PICK c \in CellsOf(kv, s) : kv.cells[c].pos <= LowOf(kv, n)
  BY DEF HasLow
<1>3. kv.cells[c].pos \in Nat /\ kv.cells[d].pos \in Nat
  BY KvNumbers
<1>4. n - 1 \in Nat /\ kv.cells[c].pos <= n - 1
  BY <1>1, <1>2, <1>3
<1> QED BY <1>2, <1>4 DEF Convex

\* Without a window a good sequence has all it records.
LEMMA WholeReaches ==
    ASSUME NEW kv, KvShape(kv), kv.memory = MaxInt, NEW s, Convex(kv, s), NEW n \in Nat, Whole(kv, s, n)
    PROVE  Reaches(kv, s, n)
<1> SUFFICES ASSUME n > 0 PROVE Reaches(kv, s, n)
  BY DEF Reaches
<1>1. LowOf(kv, n) = 0
  BY DEF LowOf
<1>2. HasLow(kv, s, 0)
  <2>1. PICK c \in CellsOf(kv, s) : kv.cells[c].pos = 0
    BY DEF Whole, HasCell
  <2>2. kv.cells[c].pos <= 0
    BY <2>1
  <2> QED BY <2>2 DEF HasLow
<1>3. PICK d \in CellsOf(kv, s) : kv.cells[d].pos >= n - 1
  BY DEF Whole
<1> QED BY <1>1, <1>2, <1>3, ReachesFrom

\* CanResume: the window has not forgotten what the next input attends to.
LEMMA ResumeReaches ==
    ASSUME NEW kv, KvOK(kv), kv.memory # MaxInt, NEW s \in Slots, Convex(kv, s), NEW n \in Nat,
           CanResume(kv, s, n)
    PROVE  Reaches(kv, s, n)
<1> DEFINE C == CellsOf(kv, s)
           P == PosOf(kv, C)
<1>1. KvShape(kv) /\ InRange(kv, s) = C
  BY DEF KvOK, Ranges, RangeFits, InRange
<1>2. C # {} /\ Max({0, n - kv.window}) >= Min(P) /\ n <= Max(P) + 1
  BY <1>1 DEF CanResume
<1>3. \A c \in C : kv.cells[c].pos \in 0 .. NumCtx - 1
  BY <1>1 DEF KvShape, CellsOf
<1>4. NumCtx - 1 \in Nat /\ kv.window \in Nat
  BY <1>1, KvNumbers
<1>5. P \in SUBSET (0 .. NumCtx - 1) /\ P \in SUBSET Nat
  BY <1>3, <1>4 DEF PosOf
<1>6. PICK z : z \in P
  BY <1>2 DEF PosOf
<1>7. Min(P) \in P /\ Max(P) \in P
  BY <1>4, <1>5, <1>6, MinIn, MaxIn
<1>8. PICK a \in C : kv.cells[a].pos = Min(P)
  BY <1>7 DEF PosOf
<1>9. PICK b \in C : kv.cells[b].pos = Max(P)
  BY <1>7 DEF PosOf
<1>10. Max({0, n - kv.window}) = LowOf(kv, n)
  <2>1. Max({0, n - kv.window}) = IF 0 >= n - kv.window THEN 0 ELSE n - kv.window
    BY <1>4, MaxOfTwo
  <2> QED BY <1>4, <2>1 DEF LowOf
<1>11. LowOf(kv, n) \in Nat
  BY <1>1, LowGrows
<1> HIDE DEF P
<1>12. kv.cells[a].pos \in Nat /\ kv.cells[b].pos \in Nat
  BY <1>1, KvNumbers
<1>13. HasLow(kv, s, LowOf(kv, n))
  <2>1. kv.cells[a].pos <= LowOf(kv, n)
    BY <1>2, <1>8, <1>10, <1>11, <1>12
  <2> QED BY <2>1 DEF HasLow
<1>14. kv.cells[b].pos >= n - 1
  BY <1>2, <1>9, <1>12
<1> QED BY <1>1, <1>13, <1>14, ReachesFrom

\* What a sequence has of its first n inputs it has when the rest is dropped.
LEMMA PrefixReaches ==
    ASSUME NEW kv, KvShape(kv), NEW r, NEW s, NEW n \in Nat, PrefixOf(kv, r, s, s, n), Reaches(kv, s, n)
    PROVE  Reaches(r, s, n)
<1> SUFFICES ASSUME n > 0 PROVE Reaches(r, s, n)
  BY DEF Reaches
<1>1. LowOf(r, n) = LowOf(kv, n) /\ LowOf(kv, n) \in Nat /\ LowOf(kv, n) <= n - 1
  <2>1. LowOf(r, n) = LowOf(kv, n)
    BY DEF PrefixOf, LowOf
  <2> QED BY <2>1, LowGrows
<1>2. \A c \in CellsOf(kv, s) : kv.cells[c].pos \in Nat
  BY KvNumbers
<1>3. HasCell(r, s, n - 1)
  BY DEF Reaches, HasCell, PrefixOf
<1>4. PICK c \in CellsOf(kv, s) : kv.cells[c].pos <= LowOf(kv, n)
  BY DEF Reaches, HasLow
<1>5. c \in CellsOf(r, s) /\ r.cells[c].pos <= LowOf(kv, n)
  BY <1>1, <1>2, <1>4 DEF PrefixOf
<1> QED BY <1>1, <1>3, <1>5 DEF Reaches, HasLow

\* The slot that was found is a good one, and so is a fork of another.
LEMMA FoundGood ==
    ASSUME NEW c, KvOK(c.kv), SlotTypes(c), NEW prompt, NEW c1, NEW s, NEW n \in Nat,
           Found(c, c1, s, prompt, n), NEW fl,
           \A t \in Slots : SlotGood(c.kv, fl, t, c.slots[t].inputs)
    PROVE  SlotGood(c1.kv, fl, s, c1.slots[s].inputs)
<1>1. s \in Slots
  BY DEF Found
<1>2. CASE c1 = c
  BY <1>1, <1>2
<1>3. ASSUME NEW src \in Slots, Forks(c, c1, src, s, n)
      PROVE  SlotGood(c1.kv, fl, s, c1.slots[s].inputs)
  <2> DEFINE x == c.slots[src].inputs
             y == c1.slots[s].inputs
  <2>1. /\ src # s /\ n <= Len(x) /\ c1.kv = CopyPrefix(c.kv, src, s, n)
        /\ y = SubSeq(x, 1, n)
    BY <1>3 DEF Forks
  <2>2. x \in Seq(InputType) /\ SlotGood(c.kv, fl, src, x) /\ KvShape(c.kv)
    BY DEF SlotTypes, KvOK
  <2>3. /\ OnlyFor(c.kv, c1.kv, s) /\ c1.kv.data = c.kv.data
        /\ CellsOf(c1.kv, s) = {d \in CellsOf(c.kv, src) : c.kv.cells[d].pos < n}
        /\ \A d \in DOMAIN c.kv.cells : c1.kv.cells[d].pos = c.kv.cells[d].pos
    BY <1>1, <2>1, CopyPrefixKeeps
  <2>4. PrefixOf(c.kv, c1.kv, src, s, n)
    BY <2>3 DEF PrefixOf, OnlyFor, CellsOf
  <2> HIDE DEF x
  <2>5. /\ SubSeq(x, 1, n) \in Seq(InputType) /\ Len(SubSeq(x, 1, n)) = n
        /\ \A j \in 1 .. n : SubSeq(x, 1, n)[j] = x[j]
    <3>1. /\ SubSeq(x, 1, n) \in Seq(InputType)
          /\ Len(SubSeq(x, 1, n)) = IF 1 <= n THEN n - 1 + 1 ELSE 0
          /\ \A j \in 1 .. Len(SubSeq(x, 1, n)) : SubSeq(x, 1, n)[j] = x[1 + j - 1]
      BY <2>1, <2>2, PartTyped
    <3>2. Len(SubSeq(x, 1, n)) = n
      BY <3>1
    <3>3. \A j \in 1 .. n : 1 + j - 1 = j
      OBVIOUS
    <3> QED BY <3>1, <3>2, <3>3
  <2>6. y \in Seq(InputType) /\ Len(y) = n /\ Agree(x, y, n)
    BY <2>1, <2>5 DEF Agree
  <2> HIDE DEF y
  <2>7. SlotGood(c1.kv, fl, s, y)
    <3>1. n <= Len(x)
      BY <2>1
    <3> QED BY <2>2, <2>4, <2>6, <3>1, PrefixGood
  <2> QED BY <2>7 DEF y
<1> QED BY <1>2, <1>3 DEF Found

\* LoadCacheSlot leaves good slots, and that of the prompt has all that the first
\* input to be computed attends to.
LEMMA LoadGood ==
    ASSUME NEW c, CacheShape(c), KvOK(c.kv), SlotTypes(c), NEW prompt \in Seq(InputType),
           NEW got, NEW c1, NEW n, NEW past, Loads(c, got, prompt, c1, n, past), NEW fl,
           \A t \in Slots : SlotGood(c.kv, fl, t, c.slots[t].inputs)
    PROVE  /\ \A t \in Slots : SlotGood(got.ic.kv, fl, t, got.ic.slots[t].inputs)
           /\ Reaches(got.ic.kv, got.slot, past)
           /\ \A t \in Slots \ {got.slot} : Alike(c.kv, got.ic.kv, t)
<1> DEFINE s == got.slot
           x == c1.slots[s].inputs
           y == got.ic.slots[s].inputs
<1>1. /\ s \in Slots /\ past \in Nat /\ n \in Nat /\ past <= n
      /\ KvOK(c1.kv) /\ SlotTypes(c1) /\ KvOK(got.ic.kv)
      /\ OnlyFor(c.kv, got.ic.kv, s) /\ Dropped(c1.kv, got.ic.kv, s, past) /\ SlotTypes(got.ic)
      /\ \A t \in Slots \ {s} : got.ic.slots[t].inputs = c.slots[t].inputs
      /\ Len(y) = past
  <2>1. past \in 0 .. n
    BY DEF Loads
  <2>2. n \in Nat
    BY LoadCache
  <2> QED BY <2>1, <2>2, LoadCache
<1>2. Found(c, c1, s, prompt, n) /\ (past = 0 \/ CanResume(c1.kv, s, past)) /\ y = SubSeq(prompt, 1, past)
  BY DEF Loads, LoadsAt
<1>3. SlotGood(c1.kv, fl, s, x)
  <2> HIDE DEF s
  <2> QED BY <1>1, <1>2, FoundGood
<1>4. x \in Seq(InputType) /\ y \in Seq(InputType) /\ KvShape(c1.kv) /\ KvShape(got.ic.kv)
  BY <1>1 DEF SlotTypes, KvOK
<1>5. PrefixOf(c1.kv, got.ic.kv, s, s, past)
  <2>1. CellsOf(got.ic.kv, s) = {d \in CellsOf(c1.kv, s) : c1.kv.cells[d].pos < past}
    BY <1>1, <1>4, DroppedCells
  <2> QED BY <1>1, <2>1 DEF PrefixOf, Dropped, CellsOf
<1>6. n <= Len(x) /\ Len(x) \in Nat /\ n <= Len(prompt) /\ Agree(x, prompt, n)
  BY <1>2, <1>4, LengthNat DEF Found
<1>7. past <= Len(x) /\ past <= Len(prompt) /\ Len(prompt) \in Nat
  <2>1. Len(prompt) \in Nat
    BY LengthNat
  <2> HIDE DEF x
  <2> QED BY <1>1, <1>6, <2>1
<1>8. Agree(x, y, past)
  <2>1. /\ Len(SubSeq(prompt, 1, past)) = IF 1 <= past THEN past - 1 + 1 ELSE 0
        /\ \A j \in 1 .. Len(SubSeq(prompt, 1, past)) : SubSeq(prompt, 1, past)[j] = prompt[1 + j - 1]
    BY <1>1, <1>7, PartTyped
  <2>2. \A j \in 1 .. past : y[j] = prompt[j] /\ j \in 1 .. n
    BY <1>1, <1>2, <2>1
  <2> HIDE DEF x, y
  <2> QED BY <1>6, <2>2 DEF Agree
<1>9. SlotGood(got.ic.kv, fl, s, y)
  <2> HIDE DEF x, y, s
  <2> QED BY <1>1, <1>3, <1>4, <1>5, <1>7, <1>8, PrefixGood
<1>10. \A t \in Slots \ {s} : Alike(c.kv, got.ic.kv, t)
  BY <1>1, OnlyAlike
<1>11. ASSUME NEW t \in Slots PROVE SlotGood(got.ic.kv, fl, t, got.ic.slots[t].inputs)
  <2>1. CASE t = s
    BY <1>9, <2>1
  <2>2. CASE t # s
    <3>1. Alike(c.kv, got.ic.kv, t) /\ SlotGood(c.kv, fl, t, c.slots[t].inputs)
      BY <1>10, <2>2
    <3>2. SlotGood(got.ic.kv, fl, t, c.slots[t].inputs)
      BY <3>1, AlikeGood
    <3> QED BY <1>1, <2>2, <3>2
  <2> QED BY <2>1, <2>2
<1>12. Reaches(got.ic.kv, s, past)
  <2>1. CASE past = 0
    BY <2>1 DEF Reaches
  <2>2. CASE c1.kv.memory = MaxInt
    <3>1. got.ic.kv.memory = MaxInt
      BY <1>1, <2>2 DEF Dropped
    <3>2. Convex(got.ic.kv, s) /\ Whole(got.ic.kv, s, past)
      BY <1>1, <1>9 DEF SlotGood
    <3> HIDE DEF s
    <3> QED BY <1>1, <1>4, <3>1, <3>2, WholeReaches
  <2>3. CASE past # 0 /\ c1.kv.memory # MaxInt
    <3>1. Convex(c1.kv, s)
      BY <1>3 DEF SlotGood
    <3>2. Reaches(c1.kv, s, past)
      BY <1>1, <1>2, <2>3, <3>1, ResumeReaches
    <3> HIDE DEF s
    <3> QED BY <1>1, <1>4, <1>5, <3>2, PrefixReaches
  <2> QED BY <2>1, <2>2, <2>3
<1> QED BY <1>10, <1>11, <1>12

\* The entries of a sequence that nobody touches stay as they are.
LEMMA AlikeEntries ==
    ASSUME NEW kv, NEW r, NEW t, Alike(kv, r, t), NEW b, NEW q, NEW x, NEW y, Entries(kv, b, q, t, x, y)
    PROVE  Entries(r, b, q, t, x, y)
BY AlikeStands DEF Entries

\* So do those of a sequence i of which neither the request nor the slot changes.
LEMMA AlikeSeq ==
    ASSUME NEW rq, NEW sq, NEW c, NEW fl, NEW i, SeqGood(rq, sq, c, fl, i),
           NEW rq1, NEW sq1, NEW c1, sq1[i] = sq[i], NEW s, s = rq[sq[i]].slot,
           rq1[sq[i]].slot = s, rq1[sq[i]].pending = rq[sq[i]].pending,
           c1.slots[s].inputs = c.slots[s].inputs, Alike(c.kv, c1.kv, s)
    PROVE  SeqGood(rq1, sq1, c1, fl, i)
<1> DEFINE q == sq[i]
           x == c.slots[s].inputs
           y == rq[q].pending
<1>1. Reaches(c1.kv, s, Len(x) + Len(y))
  <2>1. Reaches(c.kv, s, Len(x) + Len(y))
    BY DEF SeqGood
  <2> HIDE DEF x, y
  <2> QED BY <2>1, AlikeGood
<1>2. ASSUME NEW k \in DOMAIN fl, fl[k].stage # "started", fl[k].seqs[i] = q
      PROVE  Entries(c1.kv, fl[k], q, s, x, y)
  <2>1. Entries(c.kv, fl[k], q, s, x, y)
    BY <1>2 DEF SeqGood
  <2> HIDE DEF q, x, y
  <2> QED BY <2>1, AlikeEntries
<1> HIDE DEF x, y, q
<1> QED BY <1>1, <1>2 DEF SeqGood, x, y, q

\* The critical section of completion.
LEMMA LoadAttention ==
    ASSUME SlotInv, LogitsInv, CacheInv, AttentionInv, NEW q \in Requests, Load(q)
    PROVE  AttentionInv'
<1>1. PICK at, got, c1, n, past : LoadStepOf(q, at, got, c1, n, past)
  BY LoadStepIs
<1>2. /\ at \in Idx /\ seqs[at] = None /\ req[q].pc = "load" /\ ic' = got.ic
      /\ Loads(ic, got, req[q].inputs, c1, n, past)
      /\ UNCHANGED <<inflight, unresolved>> /\ seqs' = [seqs EXCEPT ![at] = q]
      /\ \A x \in Requests \ {q} : req'[x] = req[x]
      /\ req'[q].pc = "stream" /\ req'[q].slot = got.slot /\ req'[q].inputs = got.inputs
      /\ req'[q].pending = req[q].pending /\ req'[q].keep = req[q].keep
      /\ req'[q].shift = req[q].shift
  BY <1>1 DEF LoadStepOf
<1> SUFFICES ASSUME ~unresolved PROVE AttentionOK'
  BY <1>2 DEF AttentionInv
<1>3. AttentionOK
  BY DEF AttentionInv
<1>4. /\ CacheShape(ic) /\ KvOK(ic.kv) /\ SlotTypes(ic) /\ ReqTypes(req) /\ NothingTaken(req)
      /\ req[q].inputs \in Seq(InputType) /\ req[q].pending \in Seq(InputType)
      /\ seqs \in [Idx -> Requests \cup {None}]
  BY DEF SlotInv, Acc, Owners, CacheInv, CacheTypes, ReqTypes
<1>5. /\ \A t \in Slots : SlotGood(ic'.kv, inflight, t, ic'.slots[t].inputs)
      /\ Reaches(ic'.kv, got.slot, past)
      /\ \A t \in Slots \ {got.slot} : Alike(ic.kv, ic'.kv, t)
  BY <1>2, <1>3, <1>4, LoadGood DEF AttentionOK, Sound
<1>6. /\ got.slot \in Slots /\ past \in Nat /\ Len(ic'.slots[got.slot].inputs) = past
      /\ \A t \in Slots \ {got.slot} : ic'.slots[t].inputs = ic.slots[t].inputs
      /\ OnlyFor(ic.kv, ic'.kv, got.slot)
  BY <1>2, <1>4, LoadCache
<1>7. \A i \in Occupied(seqs) : /\ i # at /\ seqs[i] # q /\ seqs[i] \in Requests
                                /\ req[seqs[i]].slot \in Slots \ {got.slot}
  <2>1. ~ic.slots[got.slot].inUse
    BY <1>2 DEF Loads, Found
  <2> QED BY <1>2, <1>6, <2>1 DEF SlotInv, Acc, Owners, InUse, Occupied
<1>8. ReqGood(req', ic'.kv)
  <2>1. ReqGood(req, ic.kv) /\ ic'.kv.memory = ic.kv.memory /\ ic'.kv.window = ic.kv.window
    BY <1>3, <1>6 DEF AttentionOK, Sound, OnlyFor
  <2>2. \A x \in Requests : KeepFits(req'[x], ic'.kv)
    BY <1>2, <2>1 DEF ReqGood, KeepFits
  <2>3. OwnHoles(q, got.inputs)
    <3> DEFINE p == req[q].inputs
    <3>1. past \in Nat /\ past < Len(p) /\ got.inputs = SubSeq(p, past + 1, Len(p))
      BY <1>2, <1>6 DEF Loads, LoadsAt
    <3>2. p \in Seq(InputType) /\ OwnHoles(q, p)
      BY <1>4, <2>1 DEF ReqGood
    <3> HIDE DEF p
    <3>3. Len(p) \in Nat /\ DOMAIN p = 1 .. Len(p)
      BY <3>2, LengthNat
    <3>4. /\ Len(SubSeq(p, past + 1, Len(p))) = Len(p) - past
          /\ SubSeq(p, past + 1, Len(p)) \in Seq(InputType)
          /\ \A j \in 1 .. Len(SubSeq(p, past + 1, Len(p))) :
                SubSeq(p, past + 1, Len(p))[j] = p[past + 1 + j - 1]
      <4> DEFINE m == past + 1
      <4>1. m \in Nat /\ m >= 1 /\ m <= Len(p) /\ Len(p) - m + 1 = Len(p) - past
        BY <3>1, <3>3
      <4> HIDE DEF m
      <4>2. /\ Len(SubSeq(p, m, Len(p))) = IF m <= Len(p) THEN Len(p) - m + 1 ELSE 0
            /\ SubSeq(p, m, Len(p)) \in Seq(InputType)
            /\ \A j \in 1 .. Len(SubSeq(p, m, Len(p))) : SubSeq(p, m, Len(p))[j] = p[m + j - 1]
        BY <3>2, <3>3, <4>1, PartTyped
      <4>3. Len(SubSeq(p, m, Len(p))) = Len(p) - past
        BY <4>1, <4>2
      <4> QED BY <4>2, <4>3 DEF m
    <3>5. ASSUME NEW j \in DOMAIN got.inputs PROVE got.inputs[j].token = 0 => got.inputs[j].of = q
      <4>1. j \in 1 .. Len(p) - past
        BY <3>1, <3>4, LengthNat
      <4>2. past + 1 + j - 1 \in DOMAIN p
        BY <3>1, <3>3, <4>1
      <4> QED BY <3>1, <3>2, <3>4, <4>1, <4>2 DEF OwnHoles
    <3> QED BY <3>5 DEF OwnHoles
  <2>4. \A x \in Requests : OwnHoles(x, req'[x].inputs) /\ OwnHoles(x, req'[x].pending)
    BY <1>2, <2>1, <2>3 DEF ReqGood
  <2> QED BY <2>2, <2>4 DEF ReqGood
<1>9. BatchesGood(req', inflight)
  <2>1. \A x \in Requests : req[x].pc \in {"stream", "done"} => req'[x].pc \in {"stream", "done"}
    BY <1>2
  <2> QED BY <1>3, <2>1 DEF AttentionOK, Sound, BatchesGood, FromStreams
<1>10. ASSUME NEW i \in Occupied(seqs) PROVE SeqGood(req', seqs', ic', inflight, i)
  <2> DEFINE s == req[seqs[i]].slot
  <2>1. /\ SeqGood(req, seqs, ic, inflight, i) /\ i # at /\ req'[seqs[i]] = req[seqs[i]]
        /\ s \in Slots \ {got.slot} /\ i \in Idx
    BY <1>2, <1>3, <1>7 DEF AttentionOK, Sound, Occupied
  <2>2. seqs'[i] = seqs[i]
    BY <1>2, <1>4, <2>1
  <2>3. Alike(ic.kv, ic'.kv, s) /\ ic'.slots[s].inputs = ic.slots[s].inputs
    BY <1>5, <1>6, <2>1
  <2> HIDE DEF s
  <2>4. s = req[seqs[i]].slot /\ req'[seqs[i]].slot = s /\ req'[seqs[i]].pending = req[seqs[i]].pending
    BY <2>1 DEF s
  <2> QED BY <2>1, <2>2, <2>3, <2>4, AlikeSeq
<1>11. SeqGood(req', seqs', ic', inflight, at)
  <2>1. seqs'[at] = q
    BY <1>2, <1>4
  <2>2. Len(req[q].pending) = 0
    BY <1>2, <1>4 DEF NothingTaken
  <2>3. \A k \in DOMAIN inflight : inflight[k].seqs[at] # q
    <3>1. None # q /\ \A k \in DOMAIN inflight : FromStreams(req, inflight[k])
      BY <1>3, RunnerConstants DEF AttentionOK, Sound, BatchesGood
    <3> QED BY <1>2, <3>1 DEF FromStreams
  <2>4. Reaches(ic'.kv, req'[q].slot, Len(ic'.slots[req'[q].slot].inputs) + Len(req'[q].pending))
    BY <1>2, <1>5, <1>6, <2>2
  <2> QED BY <2>1, <2>3, <2>4 DEF SeqGood
<1>12. \A i \in Occupied(seqs') : i \in Occupied(seqs) \/ i = at
  BY <1>2, <1>4 DEF Occupied
<1> QED BY <1>2, <1>5, <1>8, <1>9, <1>10, <1>11, <1>12 DEF AttentionOK, Sound

-----------------------------------------------------------------------------
(* Computing and gathering *)

\* The computation of a batch.
LEMMA ComputeAttention ==
    ASSUME SlotInv, LogitsInv, CacheInv, AttentionInv, NEW k, Compute(k)
    PROVE  AttentionInv'
<1> DEFINE b == inflight[k]
<1>1. /\ k \in DOMAIN inflight /\ b.stage = "gathered"
      /\ DOMAIN inflight' = DOMAIN inflight
      /\ \A j \in DOMAIN inflight : j # k => inflight'[j] = inflight[j]
      /\ inflight'[k].stage = "started" /\ inflight'[k].entries = b.entries
      /\ inflight'[k].seqs = b.seqs
      /\ ic'.kv = Put(ic.kv, b.entries, b.loc, b.tokens) /\ ic'.slots = ic.slots
      /\ UNCHANGED <<req, seqs, unresolved>>
  BY ComputeStepIs DEF Computes
<1>2. inflight'[k].loc = b.loc
  BY <1>1 DEF Compute, LogitsInv, BatchShape
<1> SUFFICES ASSUME ~unresolved PROVE AttentionOK'
  BY <1>1 DEF AttentionInv
<1>3. AttentionOK
  BY DEF AttentionInv
<1>4. \A j \in DOMAIN inflight' : inflight'[j].stage = "started"
  BY <1>1, OneWaits
<1>5. \A j \in DOMAIN inflight : j # k => inflight[j].stage # "gathered"
  BY <1>1, OneWaits
<1>6. KvShape(ic.kv) /\ LocOnce(b)
  BY <1>1, <1>3 DEF CacheInv, CacheTypes, KvOK, AttentionOK, Sound, BatchesGood
<1>7. /\ ic'.kv.window = ic.kv.window /\ ic'.kv.memory = ic.kv.memory /\ ic'.kv.cells = ic.kv.cells
      /\ \A c \in DOMAIN ic.kv.data : ~Writes(b, c) => ic'.kv.data[c] = ic.kv.data[c]
      /\ \A e \in DOMAIN b.entries : b.loc[e] \in DOMAIN ic.kv.data =>
            ic'.kv.data[b.loc[e]].token = b.tokens[e] /\ ic'.kv.data[b.loc[e]].pos = b.entries[e].pos
  BY <1>1, <1>6, PutData DEF Writes, LocOnce
<1>8. ReqGood(req', ic'.kv)
  BY <1>1, <1>3, <1>7 DEF AttentionOK, Sound, ReqGood, KeepFits
<1>9. BatchesGood(req', inflight')
  BY <1>1, <1>2, <1>3 DEF AttentionOK, Sound, BatchesGood, FromStreams, LocOnce
<1>10. \A s : CellsOf(ic'.kv, s) = CellsOf(ic.kv, s)
  BY <1>7 DEF CellsOf
<1>11. ASSUME NEW s \in Slots PROVE SlotGood(ic'.kv, inflight', s, ic'.slots[s].inputs)
  <2> DEFINE x == ic.slots[s].inputs
  <2>1. Known0(x) /\ Records(ic.kv, inflight, s, x) /\ Convex(ic.kv, s) /\ Whole(ic.kv, s, Len(x))
    BY <1>3 DEF AttentionOK, Sound, SlotGood
  <2>2. Convex(ic'.kv, s) /\ Whole(ic'.kv, s, Len(x))
    BY <1>7, <1>10, <2>1 DEF Convex, Whole, HasCell
  <2>3. ASSUME NEW c \in CellsOf(ic.kv, s), NEW t, NEW p, Holds(ic.kv, inflight, c, t, p)
        PROVE  Settled(inflight', c) /\ Holds(ic'.kv, inflight', c, t, p)
    <3>1. c \in DOMAIN ic.kv.data
      BY <1>6 DEF CellsOf, KvShape
    <3>2. ic'.kv.data[c].token = t /\ ic'.kv.data[c].pos = p
      <4>1. CASE Writes(b, c)
        <5>1. PICK e \in DOMAIN b.entries : b.loc[e] = c
          BY <4>1 DEF Writes
        <5> QED BY <1>1, <1>7, <2>3, <3>1, <5>1 DEF Holds
      <4>2. CASE ~Writes(b, c)
        <5>1. \A j \in DOMAIN inflight : inflight[j].stage = "gathered" => ~Writes(inflight[j], c)
          BY <1>5, <4>2
        <5> QED BY <1>7, <2>3, <3>1, <4>2, <5>1 DEF Holds
      <4> QED BY <4>1, <4>2
    <3> QED BY <1>4, <3>2 DEF Settled, Holds
  <2>4. Records(ic'.kv, inflight', s, x)
    BY <1>7, <1>10, <2>1, <2>3 DEF Records
  <2> QED BY <1>1, <2>1, <2>2, <2>4 DEF SlotGood
<1>12. ASSUME NEW i \in Occupied(seqs) PROVE SeqGood(req', seqs', ic', inflight', i)
  <2>1. SeqGood(req, seqs, ic, inflight, i)
    BY <1>3 DEF AttentionOK, Sound
  <2>2. ASSUME NEW s, NEW n, Reaches(ic.kv, s, n) PROVE Reaches(ic'.kv, s, n)
    BY <1>7, <1>10, <2>2 DEF Reaches, HasCell, HasLow, LowOf
  <2> QED BY <1>1, <1>4, <2>1, <2>2 DEF SeqGood
<1> QED BY <1>1, <1>8, <1>9, <1>11, <1>12 DEF AttentionOK, Sound

\* An input that a batch has taken is that of its entry.
LEMMA EntryInput ==
    ASSUME NEW kv, NEW b, b.stage = "ready", NEW q, NEW s, NEW x, Len(x) \in Nat,
           NEW y \in Seq(InputType), Entries(kv, b, q, s, x, y), NEW j \in DOMAIN y
    PROVE  \E e \in DOMAIN b.entries : /\ b.entries[e].q = q /\ b.entries[e].pos = Len(x) + j - 1
                                       /\ b.entries[e].input = y[j] /\ Stands(kv, b, e, s)
<1>1. PICK e \in DOMAIN b.entries : b.entries[e].q = q /\ b.entries[e].pos = Len(x) + j - 1
  BY DEF Entries
<1>2. PICK m \in DOMAIN y : b.entries[e].pos = Len(x) + m - 1 /\ b.entries[e].input = y[m]
  BY <1>1 DEF Entries
<1>3. DOMAIN y = 1 .. Len(y) /\ Len(y) \in Nat
  BY LengthNat
<1>4. m = j
  BY <1>1, <1>2, <1>3
<1> QED BY <1>1, <1>2, <1>4 DEF Entries

\* A sequence that has what the next input attends to is whole without a window.
LEMMA ReachesWhole ==
    ASSUME NEW kv, KvShape(kv), NEW s, NEW n \in Nat, Reaches(kv, s, n)
    PROVE  Whole(kv, s, n)
<1> SUFFICES ASSUME kv.memory = MaxInt, n > 0 PROVE Whole(kv, s, n)
  BY DEF Whole
<1>1. \A c \in CellsOf(kv, s) : kv.cells[c].pos \in Nat
  BY KvNumbers
<1>2. PICK c \in CellsOf(kv, s) : kv.cells[c].pos <= 0
  BY DEF Reaches, HasLow, LowOf
<1>3. PICK d \in CellsOf(kv, s) : kv.cells[d].pos = n - 1
  BY DEF Reaches, HasCell
<1>4. kv.cells[c].pos = 0 /\ kv.cells[d].pos >= n - 1
  BY <1>1, <1>2, <1>3
<1> QED BY <1>4 DEF Whole, HasCell

\* What a sequence records after the tokens of batch k, in fl, were gathered: f
\* is the same list of batches before.
LEMMA GatheredRecords ==
    ASSUME NEW kv, KvOK(kv), NEW f, NEW fl, NEW k \in DOMAIN f, DOMAIN fl = DOMAIN f,
           \A j \in DOMAIN f : j # k => f[j].stage = "started" /\ fl[j] = f[j],
           f[k].stage = "ready", fl[k].stage = "gathered", LocOnce(f[k]),
           fl[k].entries = f[k].entries, fl[k].loc = f[k].loc,
           \A e \in DOMAIN f[k].entries : fl[k].tokens[e] = f[k].entries[e].input.token,
           NEW q, NEW s \in Slots, NEW x \in Seq(InputType), NEW y \in Seq(InputType),
           Entries(kv, f[k], q, s, x, y), Records(kv, f, s, x), Below(kv, s, Len(x) + Len(y))
    PROVE  Records(kv, fl, s, x \o y)
<1> DEFINE z == x \o y
<1>1. /\ Len(x) \in Nat /\ Len(y) \in Nat /\ DOMAIN y = 1 .. Len(y) /\ Len(z) = Len(x) + Len(y)
      /\ \A j \in 1 .. Len(x) : z[j] = x[j]
      /\ \A j \in 1 .. Len(y) : z[Len(x) + j] = y[j]
  BY LengthNat, JoinTyped
<1> HIDE DEF z
<1>2. \A c : Settled(fl, c)
  BY DEF Settled
<1>3. ASSUME NEW c \in CellsOf(kv, s)
      PROVE  Holds(kv, fl, c, z[kv.cells[c].pos + 1].token, kv.cells[c].pos)
  <2> DEFINE p == kv.cells[c].pos
  <2>1. p \in Nat /\ p < Len(x) + Len(y) /\ Once(kv)
    BY KvNumbers DEF KvOK, Below
  <2> HIDE DEF p
  <2>2. CASE p < Len(x)
    <3>1. p + 1 \in 1 .. Len(x)
      BY <1>1, <2>1, <2>2
    <3>2. z[p + 1] = x[p + 1]
      BY <1>1, <3>1
    <3>3. ~Writes(f[k], c) /\ Holds(kv, f, c, x[p + 1].token, p)
      BY <2>2 DEF Records, Settled, p
    <3>4. kv.data[c].token = x[p + 1].token /\ kv.data[c].pos = p
      BY <3>3 DEF Holds
    <3>5. \A j \in DOMAIN fl : fl[j].stage = "gathered" => j = k
      OBVIOUS
    <3> QED BY <3>2, <3>3, <3>4, <3>5 DEF Holds, Writes, p
  <2>3. CASE p >= Len(x)
    <3> DEFINE j == p - Len(x) + 1
    <3>1. j \in DOMAIN y /\ j \in 1 .. Len(y) /\ Len(x) + j - 1 = p /\ p + 1 = Len(x) + j
      BY <1>1, <2>1, <2>3
    <3> HIDE DEF j
    <3>2. PICK e \in DOMAIN f[k].entries :
              /\ f[k].entries[e].q = q /\ f[k].entries[e].pos = Len(x) + j - 1
              /\ f[k].entries[e].input = y[j] /\ Stands(kv, f[k], e, s)
      BY <1>1, <3>1, EntryInput
    <3>3. f[k].loc[e] = c
      BY <2>1, <3>1, <3>2 DEF Stands, Once, p
    <3>4. z[p + 1].token = fl[k].tokens[e] /\ f[k].entries[e].pos = p
      BY <1>1, <3>1, <3>2
    <3>5. \A d \in DOMAIN fl[k].entries : fl[k].loc[d] = c => d = e
      BY <3>3 DEF LocOnce
    <3>6. Writes(fl[k], c)
      BY <3>3 DEF Writes
    <3>7. \A m \in DOMAIN fl : fl[m].stage = "gathered" => m = k
      OBVIOUS
    <3> QED BY <3>4, <3>5, <3>6, <3>7 DEF Holds, p
  <2> QED BY <1>1, <2>1, <2>2, <2>3
<1> QED BY <1>2, <1>3 DEF Records, z

\* What another sequence records.
LEMMA GatheredOther ==
    ASSUME NEW kv, NEW f, NEW fl, NEW k \in DOMAIN f, DOMAIN fl = DOMAIN f,
           \A j \in DOMAIN f : j # k => f[j].stage = "started" /\ fl[j] = f[j],
           f[k].stage = "ready", fl[k].stage = "gathered",
           fl[k].entries = f[k].entries, fl[k].loc = f[k].loc,
           NEW s, NEW x, Records(kv, f, s, x)
    PROVE  Records(kv, fl, s, x)
<1> SUFFICES ASSUME NEW c \in CellsOf(kv, s), kv.cells[c].pos < Len(x), NEW t, NEW p,
                    Settled(f, c), Holds(kv, f, c, t, p)
             PROVE  Settled(fl, c) /\ Holds(kv, fl, c, t, p)
  BY DEF Records
<1>1. ~Writes(f[k], c) /\ ~Writes(fl[k], c)
  BY DEF Settled, Writes
<1>2. kv.data[c].token = t /\ kv.data[c].pos = p
  BY DEF Holds
<1>3. \A j \in DOMAIN fl : fl[j].stage = "gathered" => j = k
  OBVIOUS
<1> QED BY <1>1, <1>2, <1>3 DEF Settled, Holds, Writes

\* Entries that were ready are gathered, and their inputs recorded.
LEMMA GatheredEntries ==
    ASSUME NEW kv, NEW b, NEW b1, b.stage = "ready", b1.stage = "gathered", b1.entries = b.entries,
           b1.loc = b.loc, b1.mask = b.mask, NEW q, NEW s, NEW x \in Seq(InputType),
           NEW y \in Seq(InputType), Entries(kv, b, q, s, x, y)
    PROVE  Entries(kv, b1, q, s, x \o y, <<>>)
<1>1. /\ Len(x) \in Nat /\ Len(y) \in Nat /\ DOMAIN y = 1 .. Len(y) /\ Len(x \o y) = Len(x) + Len(y)
  BY LengthNat, JoinTyped
<1>2. ASSUME NEW e \in DOMAIN b.entries, b.entries[e].q = q
      PROVE  Stands(kv, b1, e, s) /\ b.entries[e].pos < Len(x \o y)
  <2>1. Stands(kv, b1, e, s)
    BY <1>2 DEF Entries, Stands
  <2>2. PICK j \in DOMAIN y : b.entries[e].pos = Len(x) + j - 1
    BY <1>2 DEF Entries
  <2> QED BY <1>1, <2>1, <2>2
<1> QED BY <1>2 DEF Entries

\* The first critical section of computeBatch.
LEMMA GatherAttention ==
    ASSUME SlotInv, LogitsInv, CacheInv, AttentionInv, NEW k, GatherInputs(k)
    PROVE  AttentionInv'
<1> DEFINE own == {i \in Occupied(seqs) : inflight[k].seqs[i] = seqs[i]}
           b == inflight[k]
           S(i) == req[seqs[i]].slot
           X(i) == ic.slots[S(i)].inputs
           Y(i) == req[seqs[i]].pending
<1>1. Gathers(k, own)
  BY GatherStepIs
<1> HIDE DEF own
<1>2. /\ k \in DOMAIN inflight /\ b.stage = "ready"
      /\ \A j \in DOMAIN inflight : j # k => inflight[j].stage = "started" /\ inflight'[j] = inflight[j]
      /\ seqs' = seqs /\ ic'.kv = ic.kv
      /\ DOMAIN inflight' = DOMAIN inflight
      /\ inflight'[k].stage = "gathered" /\ inflight'[k].entries = b.entries
      /\ inflight'[k].seqs = b.seqs /\ inflight'[k].loc = b.loc /\ inflight'[k].mask = b.mask
      /\ inflight'[k].tokens = [e \in DOMAIN b.entries |-> b.entries[e].input.token]
      /\ unresolved' = (unresolved \/ \E e \in DOMAIN inflight'[k].tokens : inflight'[k].tokens[e] = 0)
  BY <1>1 DEF Gathers
<1>3. own = {i \in Occupied(seqs) : b.seqs[i] = seqs[i]}
  BY DEF own
<1>4. /\ \A i \in own : ic'.slots[S(i)].inputs = X(i) \o Y(i)
      /\ \A s \in Slots : (\A i \in own : S(i) # s) => ic'.slots[s].inputs = ic.slots[s].inputs
  BY <1>1 DEF Gathers
<1>5. /\ \A i \in own : /\ SameBut(req[seqs[i]], req'[seqs[i]]) /\ req'[seqs[i]].pending = <<>>
                        /\ req'[seqs[i]].inputs = IF req[seqs[i]].inputs = <<>>
                                                  THEN <<Placeholder(seqs[i], FreshNth(seqs[i]))>>
                                                  ELSE req[seqs[i]].inputs
      /\ \A q \in Requests : (\A i \in own : seqs[i] # q) => req'[q] = req[q]
  BY <1>1 DEF Gathers
<1> SUFFICES ASSUME ~unresolved' PROVE AttentionOK'
  BY DEF AttentionInv
<1>6. AttentionOK
  BY <1>2 DEF AttentionInv
<1>7. /\ KvOK(ic.kv) /\ KvShape(ic.kv) /\ SlotTypes(ic) /\ ReqTypes(req)
      /\ \A i \in Occupied(seqs) : SeqFits(req, seqs, ic, i) /\ SeqGood(req, seqs, ic, inflight, i)
      /\ \A i \in Occupied(seqs) : seqs[i] \in Requests /\ S(i) \in Slots
  BY <1>6 DEF CacheInv, CacheTypes, KvOK, AttentionOK, Sound, SlotInv, Acc, Owners, Occupied
<1>8. \A e \in DOMAIN b.entries : /\ inflight'[k].tokens[e] = b.entries[e].input.token
                                  /\ b.entries[e].input.token # 0
  BY <1>2
<1>9. LocOnce(b)
  BY <1>2, <1>6 DEF AttentionOK, Sound, BatchesGood
<1>10. ASSUME NEW i \in own
       PROVE  /\ i \in Occupied(seqs) /\ S(i) \in Slots /\ seqs[i] \in Requests
              /\ X(i) \in Seq(InputType) /\ Y(i) \in Seq(InputType)
              /\ Len(X(i)) \in Nat /\ Len(Y(i)) \in Nat
              /\ Entries(ic.kv, b, seqs[i], S(i), X(i), Y(i))
              /\ Reaches(ic.kv, S(i), Len(X(i)) + Len(Y(i)))
              /\ Below(ic.kv, S(i), Len(X(i)) + Len(Y(i)))
  <2>1. i \in Occupied(seqs) /\ S(i) \in Slots /\ seqs[i] \in Requests
    BY <1>3, <1>7
  <2>2. X(i) \in Seq(InputType) /\ Y(i) \in Seq(InputType)
    BY <1>7, <2>1 DEF SlotTypes, ReqTypes
  <2>3. Entries(ic.kv, b, seqs[i], S(i), X(i), Y(i)) /\ Reaches(ic.kv, S(i), Len(X(i)) + Len(Y(i)))
    <3>1. b.stage # "started" /\ b.seqs[i] = seqs[i] /\ SeqGood(req, seqs, ic, inflight, i)
      BY <1>2, <1>3, <1>7, <2>1
    <3> QED BY <1>2, <3>1 DEF SeqGood
  <2>4. Below(ic.kv, S(i), Len(X(i)) + Len(Y(i)))
    BY <1>7, <2>1 DEF SeqFits
  <2> QED BY <2>1, <2>2, <2>3, <2>4, LengthNat
<1>11. ASSUME NEW s \in Slots PROVE SlotGood(ic.kv, inflight', s, ic'.slots[s].inputs)
  <2>1. SlotGood(ic.kv, inflight, s, ic.slots[s].inputs)
    BY <1>6 DEF AttentionOK, Sound
  <2>2. CASE \A i \in own : S(i) # s
    <3>1. Records(ic.kv, inflight', s, ic.slots[s].inputs)
      BY <1>2, <2>1, GatheredOther DEF SlotGood
    <3> QED BY <1>4, <2>1, <2>2, <3>1 DEF SlotGood
  <2>3. ASSUME NEW i \in own, S(i) = s PROVE SlotGood(ic.kv, inflight', s, ic'.slots[s].inputs)
    <3> DEFINE x == X(i)
               y == Y(i)
               q == seqs[i]
    <3>1. /\ x = ic.slots[s].inputs /\ ic'.slots[s].inputs = x \o y
          /\ x \in Seq(InputType) /\ y \in Seq(InputType) /\ Len(x) \in Nat /\ Len(y) \in Nat
          /\ Entries(ic.kv, b, q, s, x, y) /\ Reaches(ic.kv, s, Len(x) + Len(y))
          /\ Below(ic.kv, s, Len(x) + Len(y))
      BY <1>4, <1>10, <2>3
    <3>2. Known0(x) /\ Records(ic.kv, inflight, s, x) /\ Convex(ic.kv, s)
      BY <2>1, <3>1 DEF SlotGood
    <3> HIDE DEF x, y, q
    <3>3. Records(ic.kv, inflight', s, x \o y)
      <4>1. \A e \in DOMAIN b.entries : inflight'[k].tokens[e] = b.entries[e].input.token
        BY <1>8
      <4> QED BY <1>2, <1>7, <1>9, <3>1, <3>2, <4>1, GatheredRecords
    <3>4. Known0(x \o y)
      <4>1. /\ Len(x \o y) = Len(x) + Len(y) /\ DOMAIN (x \o y) = 1 .. Len(x \o y)
            /\ \A j \in 1 .. Len(x) : (x \o y)[j] = x[j]
            /\ \A j \in 1 .. Len(y) : (x \o y)[Len(x) + j] = y[j]
            /\ DOMAIN x = 1 .. Len(x) /\ DOMAIN y = 1 .. Len(y)
        BY <3>1, LengthNat, JoinTyped, SMTT(30)
      <4>2. ASSUME NEW j \in DOMAIN y PROVE y[j].token # 0
        <5>1. Len(x) \in Nat /\ y \in Seq(InputType) /\ Entries(ic.kv, b, q, s, x, y) /\ b.stage = "ready"
          BY <1>2, <3>1
        <5>2. PICK e \in DOMAIN b.entries : b.entries[e].input = y[j]
          BY <5>1, EntryInput
        <5> QED BY <1>8, <5>2
      <4>3. ASSUME NEW j \in DOMAIN (x \o y) PROVE (x \o y)[j].token # 0
        <5>1. j \in 1 .. Len(x) + Len(y) /\ Len(x) \in Nat /\ Len(y) \in Nat
          BY <3>1, <4>1
        <5>2. CASE j <= Len(x)
          <6>1. j \in 1 .. Len(x)
            BY <3>1, <5>1, <5>2
          <6> QED BY <3>2, <4>1, <6>1 DEF Known0
        <5>3. CASE j > Len(x)
          <6>1. j - Len(x) \in 1 .. Len(y) /\ j = Len(x) + (j - Len(x))
            BY <5>1, <5>3
          <6> QED BY <4>1, <4>2, <6>1
        <5> QED BY <5>1, <5>2, <5>3
      <4> QED BY <4>3 DEF Known0
    <3>5. Whole(ic.kv, s, Len(x \o y))
      <4>1. Len(x \o y) = Len(x) + Len(y) /\ Len(x) + Len(y) \in Nat
        BY <3>1, JoinTyped
      <4> QED BY <1>7, <3>1, <4>1, ReachesWhole
    <3> QED BY <3>1, <3>2, <3>3, <3>4, <3>5 DEF SlotGood
  <2> QED BY <2>2, <2>3
<1>12. \A q \in Requests : req'[q].pc = req[q].pc /\ req'[q].keep = req[q].keep /\ req'[q].shift = req[q].shift
  BY <1>5 DEF SameBut
<1>13. ReqGood(req', ic'.kv)
  <2>1. ReqGood(req, ic.kv)
    BY <1>6 DEF AttentionOK, Sound
  <2>2. \A q \in Requests : KeepFits(req'[q], ic.kv)
    BY <1>12, <2>1 DEF ReqGood, KeepFits
  <2>3. ASSUME NEW q \in Requests PROVE OwnHoles(q, req'[q].inputs) /\ OwnHoles(q, req'[q].pending)
    <3>1. OwnHoles(q, req[q].inputs) /\ OwnHoles(q, req[q].pending)
      BY <2>1 DEF ReqGood
    <3>2. OwnHoles(q, <<>>) /\ OwnHoles(q, <<Placeholder(q, FreshNth(q))>>)
      BY DEF OwnHoles, Placeholder
    <3>3. CASE \A i \in own : seqs[i] # q
      BY <1>5, <3>1, <3>3
    <3>4. ASSUME NEW i \in own, seqs[i] = q
          PROVE  OwnHoles(q, req'[q].inputs) /\ OwnHoles(q, req'[q].pending)
      BY <1>5, <3>1, <3>2, <3>4
    <3> QED BY <3>3, <3>4
  <2> QED BY <1>2, <2>2, <2>3 DEF ReqGood
<1>14. BatchesGood(req', inflight')
  <2>1. BatchesGood(req, inflight)
    BY <1>6 DEF AttentionOK, Sound
  <2>2. FromStreams(req', inflight'[k]) /\ LocOnce(inflight'[k])
    BY <1>2, <1>12, <2>1 DEF BatchesGood, FromStreams, LocOnce
  <2>3. ASSUME NEW j \in DOMAIN inflight, j # k PROVE FromStreams(req', inflight'[j]) /\ LocOnce(inflight'[j])
    BY <1>2, <1>12, <2>1, <2>3 DEF BatchesGood, FromStreams
  <2> QED BY <1>2, <2>2, <2>3 DEF BatchesGood
<1>15. ASSUME NEW i \in own PROVE SeqGood(req', seqs', ic', inflight', i)
  <2> DEFINE x == X(i)
             y == Y(i)
             q == seqs[i]
             s == S(i)
  <2>1. /\ x \in Seq(InputType) /\ y \in Seq(InputType) /\ Len(x) \in Nat /\ Len(y) \in Nat
        /\ Entries(ic.kv, b, q, s, x, y) /\ Reaches(ic.kv, s, Len(x) + Len(y))
        /\ ic'.slots[s].inputs = x \o y /\ req'[q].slot = s /\ req'[q].pending = <<>> /\ seqs'[i] = q
    BY <1>2, <1>4, <1>5, <1>10 DEF SameBut
  <2> HIDE DEF x, y, q, s
  <2>2. Entries(ic.kv, inflight'[k], q, s, x \o y, <<>>)
    BY <1>2, <2>1, GatheredEntries
  <2>3. Len(x \o y) + Len(<<>>) = Len(x) + Len(y)
    <3>1. Len(x \o y) = Len(x) + Len(y)
      BY <2>1, JoinTyped
    <3> QED BY <2>1, <3>1
  <2>4. Reaches(ic.kv, s, Len(x \o y) + Len(<<>>))
    BY <2>1, <2>3
  <2>5. \A j \in DOMAIN inflight' : inflight'[j].stage # "started" => j = k
    BY <1>2
  <2> QED BY <1>2, <2>1, <2>2, <2>4, <2>5 DEF SeqGood
<1>16. ASSUME NEW i \in Occupied(seqs), i \notin own PROVE SeqGood(req', seqs', ic', inflight', i)
  <2>1. req'[seqs[i]] = req[seqs[i]] /\ ic'.slots[S(i)].inputs = X(i)
    BY <1>1, <1>16, GatherOthers
  <2>2. \A j \in DOMAIN inflight' : inflight'[j].stage # "started" => inflight'[j].seqs[i] # seqs[i]
    BY <1>2, <1>3, <1>16
  <2> QED BY <1>2, <1>7, <2>1, <2>2 DEF SeqGood
<1> QED BY <1>2, <1>11, <1>13, <1>14, <1>15, <1>16 DEF AttentionOK, Sound

-----------------------------------------------------------------------------
(* Decoding *)

\* c is batch b, but for tokens of inputs that became known.
Twin(b, c) ==
    /\ c.stage = b.stage /\ c.seqs = b.seqs /\ c.loc = b.loc /\ c.mask = b.mask /\ c.tokens = b.tokens
    /\ DOMAIN c.entries = DOMAIN b.entries
    /\ \A e \in DOMAIN b.entries : /\ c.entries[e].slot = b.entries[e].slot
                                   /\ c.entries[e].pos = b.entries[e].pos
                                   /\ c.entries[e].q = b.entries[e].q

\* The batches fl are those of f, but for some that were computed.
Twins(f, fl) ==
    /\ \A j \in DOMAIN fl : \E m \in DOMAIN f : Twin(f[m], fl[j])
    /\ \A m \in DOMAIN f : f[m].stage # "started" => \E j \in DOMAIN fl : Twin(f[m], fl[j])

\* They make no difference to what a sequence records.
LEMMA TwinRecords ==
    ASSUME NEW kv, NEW f, NEW fl, Twins(f, fl), NEW s, NEW x, Records(kv, f, s, x)
    PROVE  Records(kv, fl, s, x)
<1> SUFFICES ASSUME NEW c \in CellsOf(kv, s), NEW t, NEW p, Settled(f, c), Holds(kv, f, c, t, p)
             PROVE  Settled(fl, c) /\ Holds(kv, fl, c, t, p)
  BY DEF Records
<1>1. ASSUME NEW b, NEW d, Twin(b, d) PROVE Writes(b, c) <=> Writes(d, c)
  BY <1>1 DEF Twin, Writes
<1>2. ASSUME NEW j \in DOMAIN fl, fl[j].stage = "ready" PROVE ~Writes(fl[j], c)
  <2>1. PICK m \in DOMAIN f : Twin(f[m], fl[j])
    BY DEF Twins
  <2> QED BY <1>1, <1>2, <2>1 DEF Settled, Twin
<1>3. ASSUME NEW j \in DOMAIN fl, fl[j].stage = "gathered", NEW e \in DOMAIN fl[j].entries, fl[j].loc[e] = c
      PROVE  fl[j].tokens[e] = t /\ fl[j].entries[e].pos = p
  <2>1. PICK m \in DOMAIN f : Twin(f[m], fl[j])
    BY DEF Twins
  <2> QED BY <1>3, <2>1 DEF Holds, Twin
<1>4. ASSUME \A j \in DOMAIN fl : fl[j].stage = "gathered" => ~Writes(fl[j], c)
      PROVE  kv.data[c].token = t /\ kv.data[c].pos = p
  <2>1. ASSUME NEW m \in DOMAIN f, f[m].stage = "gathered" PROVE ~Writes(f[m], c)
    <3>1. PICK j \in DOMAIN fl : Twin(f[m], fl[j])
      BY <2>1 DEF Twins
    <3> QED BY <1>1, <1>4, <2>1, <3>1 DEF Twin
  <2> QED BY <2>1 DEF Holds
<1> QED BY <1>2, <1>3, <1>4 DEF Settled, Holds

\* Nor to the batches themselves.
LEMMA TwinBatches ==
    ASSUME NEW f, NEW fl, Twins(f, fl), NEW rq, BatchesGood(rq, f), NEW rq1,
           \A q \in Requests : rq[q].pc \in {"stream", "done"} => rq1[q].pc \in {"stream", "done"}
    PROVE  BatchesGood(rq1, fl)
<1> SUFFICES ASSUME NEW j \in DOMAIN fl PROVE FromStreams(rq1, fl[j]) /\ LocOnce(fl[j])
  BY DEF BatchesGood
<1>1. PICK m \in DOMAIN f : Twin(f[m], fl[j])
  BY DEF Twins
<1>2. FromStreams(rq, f[m]) /\ LocOnce(f[m])
  BY DEF BatchesGood
<1> QED BY <1>1, <1>2 DEF Twin, FromStreams, LocOnce

\* Nor to where an entry stands.
LEMMA TwinStands ==
    ASSUME NEW kv, NEW b, NEW c, Twin(b, c), NEW e \in DOMAIN b.entries, NEW s, Stands(kv, b, e, s)
    PROVE  Stands(kv, c, e, s)
<1>1. Seen(kv, c.entries[e]) = Seen(kv, b.entries[e])
  BY DEF Twin, Seen
<1> QED BY <1>1 DEF Twin, Stands

\* The entries of a request have the inputs that are taken of it, known or not.
LEMMA TwinEntries ==
    ASSUME NEW kv, NEW b, NEW c, Twin(b, c), NEW q, NEW s, NEW x, NEW y, NEW z, DOMAIN z = DOMAIN y,
           \A e \in DOMAIN b.entries : \A j \in DOMAIN y :
               b.entries[e].q = q /\ b.entries[e].input = y[j] => c.entries[e].input = z[j],
           Entries(kv, b, q, s, x, y)
    PROVE  Entries(kv, c, q, s, x, z)
<1>1. /\ c.stage = b.stage /\ DOMAIN c.entries = DOMAIN b.entries
      /\ \A e \in DOMAIN b.entries : c.entries[e].pos = b.entries[e].pos /\ c.entries[e].q = b.entries[e].q
  BY DEF Twin
<1>2. ASSUME NEW e \in DOMAIN b.entries, b.entries[e].q = q
      PROVE  /\ Stands(kv, c, e, s)
             /\ b.stage = "ready" =>
                  \E j \in DOMAIN z : b.entries[e].pos = Len(x) + j - 1 /\ c.entries[e].input = z[j]
             /\ b.stage = "gathered" => b.entries[e].pos < Len(x)
  <2>1. Stands(kv, b, e, s) /\ (b.stage = "gathered" => b.entries[e].pos < Len(x))
    BY <1>2 DEF Entries
  <2>2. Stands(kv, c, e, s)
    BY <2>1, TwinStands
  <2>3. ASSUME b.stage = "ready"
        PROVE  \E j \in DOMAIN z : b.entries[e].pos = Len(x) + j - 1 /\ c.entries[e].input = z[j]
    <3>1. PICK j \in DOMAIN y : b.entries[e].pos = Len(x) + j - 1 /\ b.entries[e].input = y[j]
      BY <1>2, <2>3 DEF Entries
    <3> QED BY <1>2, <3>1
  <2> QED BY <2>1, <2>2, <2>3
<1>3. \A e \in DOMAIN c.entries : c.entries[e].q = q =>
        /\ Stands(kv, c, e, s)
        /\ c.stage = "ready" =>
             \E j \in DOMAIN z : c.entries[e].pos = Len(x) + j - 1 /\ c.entries[e].input = z[j]
        /\ c.stage = "gathered" => c.entries[e].pos < Len(x)
  BY <1>1, <1>2
<1>4. c.stage = "ready" => \A j \in DOMAIN z : \E e \in DOMAIN c.entries :
          c.entries[e].q = q /\ c.entries[e].pos = Len(x) + j - 1
  <2>1. b.stage = "ready" => \A j \in DOMAIN z : \E e \in DOMAIN b.entries :
            b.entries[e].q = q /\ b.entries[e].pos = Len(x) + j - 1
    BY DEF Entries
  <2> QED BY <1>1, <2>1
<1> QED BY <1>3, <1>4 DEF Entries

\* What a slot records is good as far as it goes.
LEMMA ShorterGood ==
    ASSUME NEW kv, KvShape(kv), NEW fl, NEW s, NEW x \in Seq(InputType), SlotGood(kv, fl, s, x),
           NEW n \in 0 .. Len(x), NEW y, y = SubSeq(x, 1, n)
    PROVE  SlotGood(kv, fl, s, y)
<1>1. Len(x) \in Nat /\ DOMAIN x = 1 .. Len(x) /\ n \in Nat /\ n <= Len(x)
  BY LengthNat
<1>2. y \in Seq(InputType) /\ Len(y) = n /\ DOMAIN y = 1 .. n /\ \A j \in 1 .. n : y[j] = x[j]
  <2>1. /\ y \in Seq(InputType) /\ Len(y) = IF 1 <= n THEN n - 1 + 1 ELSE 0
        /\ \A j \in 1 .. Len(y) : y[j] = x[1 + j - 1]
    BY <1>1, PartTyped
  <2>2. Len(y) = n
    BY <1>1, <2>1
  <2>3. \A j \in 1 .. n : 1 + j - 1 = j
    BY <1>1
  <2> QED BY <2>1, <2>2, <2>3, LengthNat
<1>3. Known0(x) /\ Records(kv, fl, s, x) /\ Convex(kv, s) /\ Whole(kv, s, Len(x))
  BY DEF SlotGood
<1>4. \A c \in CellsOf(kv, s) : kv.cells[c].pos \in Nat
  BY KvNumbers
<1>5. Known0(y)
  BY <1>1, <1>2, <1>3 DEF Known0
<1>6. Records(kv, fl, s, y)
  <2> SUFFICES ASSUME NEW c \in CellsOf(kv, s), kv.cells[c].pos < n
               PROVE  Settled(fl, c) /\ Holds(kv, fl, c, y[kv.cells[c].pos + 1].token, kv.cells[c].pos)
    BY <1>2 DEF Records
  <2>1. kv.cells[c].pos < Len(x) /\ kv.cells[c].pos + 1 \in 1 .. n
    BY <1>1, <1>4
  <2> QED BY <1>2, <1>3, <2>1 DEF Records
<1>7. Whole(kv, s, n)
  <2> SUFFICES ASSUME kv.memory = MaxInt, n > 0
               PROVE  HasCell(kv, s, 0) /\ \E c \in CellsOf(kv, s) : kv.cells[c].pos >= n - 1
    BY DEF Whole
  <2>1. Len(x) > 0
    BY <1>1
  <2>2. PICK c \in CellsOf(kv, s) : kv.cells[c].pos >= Len(x) - 1
    BY <1>3, <2>1 DEF Whole
  <2>3. kv.cells[c].pos >= n - 1
    BY <1>1, <1>4, <2>2
  <2> QED BY <1>3, <2>1, <2>3 DEF Whole
<1> QED BY <1>2, <1>3, <1>5, <1>6, <1>7 DEF SlotGood

\* Inputs whose tokens are known stay as they are.
LEMMA FilledKnown ==
    ASSUME NEW x \in Seq(InputType), Known0(x), NEW p, p.token = 0, NEW t
    PROVE  Filled(x, p, t) = x
<1>1. \A j \in DOMAIN x : x[j] # p
  BY DEF Known0
<1>2. [j \in DOMAIN x |-> IF x[j] = p THEN Input(t) ELSE x[j]] = [j \in DOMAIN x |-> x[j]]
  BY <1>1
<1>3. [j \in DOMAIN x |-> x[j]] = x
  OBVIOUS
<1> QED BY <1>2, <1>3 DEF Filled

\* A batch in which a token became known.
LEMMA FilledTwin ==
    ASSUME NEW b, BatchShape(b), NEW p, NEW t, NEW c, c = FilledBatch(b, p, t)
    PROVE  /\ BatchShape(c) /\ Twin(b, c)
           /\ \A e \in DOMAIN b.entries : c.entries[e].input = IF b.entries[e].input = p THEN Input(t)
                                                               ELSE b.entries[e].input
<1> DEFINE en == [e \in DOMAIN b.entries |->
                    [b.entries[e] EXCEPT !.input = IF b.entries[e].input = p THEN Input(t)
                                                   ELSE b.entries[e].input]]
<1>1. /\ DOMAIN b = {"stage", "waits", "entries", "outputs", "seqs", "loc", "mask", "tokens",
                     "next", "iBatches"}
      /\ \A e \in DOMAIN b.entries : DOMAIN b.entries[e] = {"slot", "pos", "input", "q"}
  BY DEF BatchShape, EntriesShape
<1>2. c = [b EXCEPT !.entries = en]
  BY DEF FilledBatch
<1>3. /\ DOMAIN en = DOMAIN b.entries
      /\ \A e \in DOMAIN b.entries :
            /\ en[e].q = b.entries[e].q /\ en[e].slot = b.entries[e].slot /\ en[e].pos = b.entries[e].pos
            /\ en[e].input = IF b.entries[e].input = p THEN Input(t) ELSE b.entries[e].input
  BY <1>1
<1> HIDE DEF en
<1>4. /\ c.entries = en /\ c.stage = b.stage /\ c.seqs = b.seqs /\ c.loc = b.loc /\ c.mask = b.mask
      /\ c.tokens = b.tokens
  BY <1>1, <1>2
<1>5. Twin(b, c)
  BY <1>3, <1>4 DEF Twin
<1>6. BatchShape(c)
  <2>1. SameBatch(b, b)
    BY DEF SameBatch
  <2>2. SameBatch(b, c)
    BY <2>1, FilledSame
  <2> QED BY <2>2 DEF SameBatch
<1> QED BY <1>3, <1>4, <1>5, <1>6

\* What the loop of computeBatch passes from round to round.
DecodeSound(w) ==
    /\ Sound(w.req, w.seqs, w.ic, w.inflight)
    /\ \A j \in DOMAIN w.inflight : BatchShape(w.inflight[j])

\* A round keeps it.
LEMMA YieldsSound ==
    ASSUME NEW w, NEW i \in Idx, NEW sq, DecodeInv(w, i, sq), w.seqs[i] # None,
           KvShape(w.ic.kv), SlotTypes(w.ic), ReqTypes(w.req), DecodeSound(w),
           NEW p, p.token = 0, p.of = w.seqs[i], NEW t \in Nat \ {0}, NEW v, Yields(w, v, i, p, t)
    PROVE  DecodeSound(v)
<1> DEFINE q == w.seqs[i]
           S == w.req[q].slot
           f == w.inflight
           fl == v.inflight
<1>1. /\ v.ic.kv = w.ic.kv
      /\ fl = [k \in DOMAIN f |-> FilledBatch(f[k], p, t)]
      /\ \A j \in Idx \ {i} : v.seqs[j] = w.seqs[j]
      /\ \A x \in Requests \ {q} : v.req[x] = w.req[x]
      /\ \A s \in Slots : s # S \/ v.seqs[i] # None => v.ic.slots[s].inputs = Filled(w.ic.slots[s].inputs, p, t)
      /\ \E n \in 0 .. Len(Filled(w.ic.slots[S].inputs, p, t)) :
             v.ic.slots[S].inputs = SubSeq(Filled(w.ic.slots[S].inputs, p, t), 1, n)
      /\ \/ /\ v.seqs[i] = q /\ SameBut(w.req[q], v.req[q])
            /\ v.req[q].inputs = Filled(w.req[q].inputs, p, t)
            /\ v.req[q].pending = Filled(w.req[q].pending, p, t)
         \/ v.seqs[i] = None /\ Over(v.req[q])
  BY DEF Yields
<1>2. /\ ReqGood(w.req, w.ic.kv) /\ BatchesGood(w.req, f)
      /\ \A s \in Slots : SlotGood(w.ic.kv, f, s, w.ic.slots[s].inputs)
      /\ \A j \in Occupied(w.seqs) : SeqGood(w.req, w.seqs, w.ic, f, j)
      /\ \A j \in DOMAIN f : BatchShape(f[j])
  BY DEF DecodeSound, Sound
<1>3. /\ q \in Requests /\ S \in Slots /\ i \in Occupied(w.seqs) /\ q # None
      /\ \A j \in Occupied(w.seqs) : /\ w.seqs[j] \in Requests /\ w.req[w.seqs[j]].slot \in Slots
                                     /\ j # i => w.seqs[j] # q /\ w.req[w.seqs[j]].slot # S
  BY DEF DecodeInv, Acc, Owners, Occupied
<1>4. \A s \in Slots : w.ic.slots[s].inputs \in Seq(InputType) /\ Filled(w.ic.slots[s].inputs, p, t) = w.ic.slots[s].inputs
  BY <1>2, FilledKnown DEF SlotTypes, SlotGood
<1>5. \A s \in Slots : s # S \/ v.seqs[i] # None => v.ic.slots[s].inputs = w.ic.slots[s].inputs
  BY <1>1, <1>4
<1>6. PICK n \in 0 .. Len(w.ic.slots[S].inputs) : v.ic.slots[S].inputs = SubSeq(w.ic.slots[S].inputs, 1, n)
  BY <1>1, <1>3, <1>4
<1>7. \A k \in DOMAIN f : /\ k \in DOMAIN fl /\ BatchShape(fl[k]) /\ Twin(f[k], fl[k])
                          /\ \A e \in DOMAIN f[k].entries :
                               fl[k].entries[e].input = IF f[k].entries[e].input = p THEN Input(t)
                                                        ELSE f[k].entries[e].input
  <2> SUFFICES ASSUME NEW k \in DOMAIN f
               PROVE  /\ k \in DOMAIN fl /\ BatchShape(fl[k]) /\ Twin(f[k], fl[k])
                      /\ \A e \in DOMAIN f[k].entries :
                           fl[k].entries[e].input = IF f[k].entries[e].input = p THEN Input(t)
                                                    ELSE f[k].entries[e].input
    OBVIOUS
  <2>1. k \in DOMAIN fl /\ fl[k] = FilledBatch(f[k], p, t) /\ BatchShape(f[k])
    BY <1>1, <1>2
  <2> HIDE DEF f, fl
  <2> QED BY <2>1, FilledTwin
<1>8. DOMAIN fl = DOMAIN f
  BY <1>1
<1> HIDE DEF fl, f, S, q
<1>9. Twins(f, fl)
  BY <1>7, <1>8 DEF Twins
<1>10. ASSUME NEW s \in Slots PROVE SlotGood(v.ic.kv, fl, s, v.ic.slots[s].inputs)
  <2> DEFINE x == w.ic.slots[s].inputs
  <2>1. Known0(x) /\ Records(w.ic.kv, f, s, x) /\ Convex(w.ic.kv, s) /\ Whole(w.ic.kv, s, Len(x))
    BY <1>2 DEF SlotGood
  <2>2. Records(w.ic.kv, fl, s, x)
    BY <1>9, <2>1, TwinRecords
  <2>3. SlotGood(w.ic.kv, fl, s, x)
    BY <2>1, <2>2 DEF SlotGood
  <2>4. CASE s # S
    BY <1>1, <1>5, <2>3, <2>4
  <2>5. CASE s = S
    <3>1. n \in 0 .. Len(x) /\ v.ic.slots[s].inputs = SubSeq(x, 1, n) /\ x \in Seq(InputType)
      BY <1>4, <1>6, <2>5
    <3> HIDE DEF x
    <3>2. SlotGood(w.ic.kv, fl, s, SubSeq(x, 1, n))
      BY <2>3, <3>1, ShorterGood
    <3> QED BY <1>1, <3>1, <3>2
  <2> QED BY <2>4, <2>5
<1>11. \A x \in Requests : w.req[x].pc \in {"stream", "done"} => v.req[x].pc \in {"stream", "done"}
  BY <1>1 DEF SameBut, Over
<1>12. BatchesGood(v.req, fl)
  BY <1>2, <1>9, <1>11, TwinBatches
<1>13. ReqGood(v.req, v.ic.kv)
  <2>1. KeepFits(w.req[q], w.ic.kv) /\ OwnHoles(q, w.req[q].inputs) /\ OwnHoles(q, w.req[q].pending)
    BY <1>2, <1>3 DEF ReqGood
  <2>2. ASSUME NEW x \in Seq(InputType), OwnHoles(q, x) PROVE OwnHoles(q, Filled(x, p, t))
    BY <2>2 DEF OwnHoles, Filled, Input
  <2>3. w.req[q].inputs \in Seq(InputType) /\ w.req[q].pending \in Seq(InputType)
    BY <1>3 DEF ReqTypes
  <2>4. CASE /\ SameBut(w.req[q], v.req[q])
             /\ v.req[q].inputs = Filled(w.req[q].inputs, p, t)
             /\ v.req[q].pending = Filled(w.req[q].pending, p, t)
    <3>1. KeepFits(v.req[q], w.ic.kv)
      BY <2>1, <2>4 DEF KeepFits, SameBut
    <3>2. OwnHoles(q, v.req[q].inputs) /\ OwnHoles(q, v.req[q].pending)
      BY <2>1, <2>2, <2>3, <2>4
    <3> QED BY <1>1, <1>2, <3>1, <3>2 DEF ReqGood
  <2>5. CASE Over(v.req[q])
    <3>1. KeepFits(v.req[q], w.ic.kv)
      BY <2>5 DEF KeepFits, Over
    <3>2. OwnHoles(q, v.req[q].inputs) /\ OwnHoles(q, v.req[q].pending)
      BY <2>5 DEF OwnHoles, Over
    <3> QED BY <1>1, <1>2, <3>1, <3>2 DEF ReqGood
  <2> QED BY <1>1, <2>4, <2>5
<1>14. ASSUME NEW j \in Occupied(v.seqs) PROVE SeqGood(v.req, v.seqs, v.ic, fl, j)
  <2>1. j \in Idx /\ v.seqs[j] # None
    BY DEF Occupied
  <2>2. v.seqs[j] = w.seqs[j] /\ j \in Occupied(w.seqs)
    BY <1>1, <2>1 DEF Occupied, q
  <2> DEFINE r == w.seqs[j]
             s == w.req[r].slot
             x == w.ic.slots[s].inputs
             y == w.req[r].pending
             z == v.req[r].pending
  <2>3. r \in Requests /\ s \in Slots /\ x \in Seq(InputType) /\ y \in Seq(InputType) /\ OwnHoles(r, y)
    BY <1>2, <1>3, <1>4, <2>2 DEF ReqTypes, ReqGood
  <2>4. v.req[r].slot = s /\ v.ic.slots[s].inputs = x /\ DOMAIN z = DOMAIN y /\ Len(z) = Len(y)
        /\ \A m \in DOMAIN y : z[m] = IF y[m] = p THEN Input(t) ELSE y[m]
    <3>1. CASE j = i
      <4>1. r = q /\ v.seqs[i] # None
        BY <2>1, <3>1 DEF q
      <4>2. /\ v.req[r].slot = s /\ z = Filled(y, p, t)
        BY <1>1, <4>1 DEF SameBut
      <4>3. v.ic.slots[s].inputs = x
        BY <1>5, <2>3, <4>1
      <4> HIDE DEF z, y
      <4>4. Len(z) = Len(y) /\ DOMAIN z = DOMAIN y
        BY <2>3, <4>2, FilledTyped, LengthNat
      <4> QED BY <4>2, <4>3, <4>4 DEF Filled
    <3>2. CASE j # i
      <4>1. r # q /\ s # S /\ w.seqs[i] = q
        BY <1>3, <2>2, <3>2 DEF q
      <4>2. v.req[r] = w.req[r] /\ v.ic.slots[s].inputs = x
        BY <1>1, <1>5, <2>3, <4>1
      <4>3. \A m \in DOMAIN y : y[m] # p
        BY <2>3, <4>1 DEF OwnHoles
      <4> QED BY <4>2, <4>3
    <3> QED BY <3>1, <3>2
  <2>5. SeqGood(w.req, w.seqs, w.ic, f, j)
    BY <1>2, <2>2
  <2>6. Reaches(v.ic.kv, s, Len(x) + Len(z))
    BY <1>1, <2>4, <2>5 DEF SeqGood
  <2>7. ASSUME NEW k \in DOMAIN fl, fl[k].stage # "started", fl[k].seqs[j] = r
        PROVE  Entries(v.ic.kv, fl[k], r, s, x, z)
    <3>1. k \in DOMAIN f /\ Twin(f[k], fl[k])
      BY <1>7, <1>8
    <3>2. f[k].stage # "started" /\ f[k].seqs[j] = r
      BY <2>7, <3>1 DEF Twin
    <3>3. Entries(w.ic.kv, f[k], r, s, x, y)
      BY <2>5, <3>1, <3>2 DEF SeqGood
    <3>4. \A e \in DOMAIN f[k].entries : \A m \in DOMAIN y :
              f[k].entries[e].q = r /\ f[k].entries[e].input = y[m] => fl[k].entries[e].input = z[m]
      BY <1>7, <2>4, <3>1
    <3> HIDE DEF x, y, z, s, r
    <3>5. Entries(w.ic.kv, fl[k], r, s, x, z)
      BY <2>4, <3>1, <3>3, <3>4, TwinEntries
    <3> QED BY <1>1, <3>5
  <2> QED BY <2>2, <2>4, <2>6, <2>7 DEF SeqGood
<1> QED BY <1>7, <1>8, <1>10, <1>12, <1>13, <1>14 DEF DecodeSound, Sound, fl

\* The batches that are left when one is done with.
LEMMA FinishedTwins ==
    ASSUME LogitsInv, NEW k \in DOMAIN inflight, inflight[k].stage = "started", NEW F, F = Finished(k)
    PROVE  /\ Twins(inflight, F) /\ \A j \in DOMAIN F : BatchShape(F[j])
           /\ \A j \in DOMAIN F : \E m \in DOMAIN inflight :
                Twin(inflight[m], F[j]) /\ F[j].entries = inflight[m].entries
<1> DEFINE L == Len(inflight)
<1>1. L \in Nat /\ DOMAIN inflight = 1 .. L /\ k \in 1 .. L
  BY DEF LogitsInv, IsSeq
<1>2. DOMAIN F = 1 .. L - 1
  BY DEF Finished
<1>3. \A j \in DOMAIN F : BatchShape(F[j])
  BY FinishedBatches DEF SameBatch
<1> HIDE DEF L
<1>4. ASSUME NEW j \in 1 .. L - 1, j < k
      PROVE  Twin(inflight[j], F[j]) /\ F[j].entries = inflight[j].entries
  <2>1. F[j] = inflight[j]
    BY <1>1, <1>4 DEF Finished, L
  <2> QED BY <2>1 DEF Twin
<1>5. ASSUME NEW j \in 1 .. L - 1, ~(j < k)
      PROVE  Twin(inflight[j + 1], F[j]) /\ F[j].entries = inflight[j + 1].entries
  <2>1. j + 1 \in DOMAIN inflight
    BY <1>1
  <2>2. BatchShape(inflight[j + 1])
    BY <2>1 DEF LogitsInv
  <2>3. F[j] = [inflight[j + 1] EXCEPT !.waits = @ /\ j # k]
    BY <1>5 DEF Finished, L
  <2>4. PICK x : F[j] = [inflight[j + 1] EXCEPT !.waits = x]
    BY <2>3
  <2> DEFINE b == inflight[j + 1]
             c == F[j]
  <2> HIDE DEF b, c
  <2>5. /\ c.stage = b.stage /\ c.entries = b.entries /\ c.seqs = b.seqs
        /\ c.loc = b.loc /\ c.mask = b.mask /\ c.tokens = b.tokens
    BY <2>2, <2>4 DEF BatchShape, b, c
  <2>6. Twin(b, c)
    BY <2>5 DEF Twin
  <2> QED BY <2>5, <2>6 DEF b, c
<1>6. ASSUME NEW j \in DOMAIN F
      PROVE  \E m \in DOMAIN inflight : Twin(inflight[m], F[j]) /\ F[j].entries = inflight[m].entries
  <2>1. CASE j < k
    <3>1. j \in DOMAIN inflight
      BY <1>1, <1>2, <2>1
    <3> QED BY <1>2, <1>4, <2>1, <3>1
  <2>2. CASE ~(j < k)
    <3>1. j + 1 \in DOMAIN inflight
      BY <1>1, <1>2, <2>2
    <3> QED BY <1>2, <1>5, <2>2, <3>1
  <2> QED BY <2>1, <2>2
<1>7. ASSUME NEW m \in DOMAIN inflight, m # k PROVE \E j \in DOMAIN F : Twin(inflight[m], F[j])
  <2>1. CASE m < k
    <3>1. m \in 1 .. L - 1
      BY <1>1, <2>1
    <3> QED BY <1>2, <1>4, <2>1, <3>1
  <2>2. CASE ~(m < k)
    <3>1. m - 1 \in 1 .. L - 1 /\ ~(m - 1 < k) /\ (m - 1) + 1 = m
      BY <1>1, <1>7, <2>2
    <3> QED BY <1>2, <1>5, <3>1
  <2> QED BY <2>1, <2>2
<1>8. Twins(inflight, F)
  BY <1>6, <1>7 DEF Twins
<1> QED BY <1>3, <1>6, <1>8

\* What the loop starts from.
LEMMA DecodeStartSound ==
    ASSUME LogitsInv, AttentionOK, NEW k \in DOMAIN inflight, inflight[k].stage = "started",
           NEW w, w = DecodeStart(k)
    PROVE  DecodeSound(w)
<1> DEFINE F == Finished(k)
<1>1. w.req = req /\ w.seqs = seqs /\ w.ic = ic /\ w.inflight = F
  BY DEF DecodeStart
<1>2. /\ Twins(inflight, F) /\ \A j \in DOMAIN F : BatchShape(F[j])
      /\ \A j \in DOMAIN F : \E m \in DOMAIN inflight :
            Twin(inflight[m], F[j]) /\ F[j].entries = inflight[m].entries
  BY FinishedTwins
<1> HIDE DEF F
<1>3. BatchesGood(req, F)
  BY <1>2, TwinBatches DEF AttentionOK, Sound
<1>4. ASSUME NEW s \in Slots PROVE SlotGood(ic.kv, F, s, ic.slots[s].inputs)
  <2>1. SlotGood(ic.kv, inflight, s, ic.slots[s].inputs)
    BY DEF AttentionOK, Sound
  <2>2. Records(ic.kv, F, s, ic.slots[s].inputs)
    BY <1>2, <2>1, TwinRecords DEF SlotGood
  <2> QED BY <2>1, <2>2 DEF SlotGood
<1>5. ASSUME NEW i \in Occupied(seqs) PROVE SeqGood(req, seqs, ic, F, i)
  <2> DEFINE q == seqs[i]
             s == req[q].slot
             x == ic.slots[s].inputs
             y == req[q].pending
  <2>1. SeqGood(req, seqs, ic, inflight, i)
    BY DEF AttentionOK, Sound
  <2>2. ASSUME NEW j \in DOMAIN F, F[j].stage # "started", F[j].seqs[i] = q
        PROVE  Entries(ic.kv, F[j], q, s, x, y)
    <3>1. PICK m \in DOMAIN inflight : Twin(inflight[m], F[j]) /\ F[j].entries = inflight[m].entries
      BY <1>2
    <3>2. inflight[m].stage # "started" /\ inflight[m].seqs[i] = q
      BY <2>2, <3>1 DEF Twin
    <3>3. Entries(ic.kv, inflight[m], q, s, x, y)
      BY <2>1, <3>2 DEF SeqGood
    <3> HIDE DEF x, y, s, q
    <3> QED BY <3>1, <3>3, TwinEntries
  <2> QED BY <2>1, <2>2 DEF SeqGood
<1>6. ReqGood(req, ic.kv)
  BY DEF AttentionOK, Sound
<1>7. Sound(req, seqs, ic, F)
  BY <1>3, <1>4, <1>5, <1>6 DEF Sound
<1> QED BY <1>1, <1>2, <1>7 DEF DecodeSound

\* The second critical section of computeBatch.
LEMMA DecodeAttention ==
    ASSUME SlotInv, LogitsInv, CacheInv, AttentionInv, NEW k, Decode(k)
    PROVE  AttentionInv'
<1>1. PICK D : Decodes(k, D)
  BY DecodeStepIs
<1>2. /\ k \in DOMAIN inflight /\ inflight[k].stage = "started"
      /\ D[0] = DecodeStart(k) /\ DecodeRounds(D, inflight[k], seqs)
      /\ req' = D[NumSlots].req /\ seqs' = D[NumSlots].seqs /\ ic' = D[NumSlots].ic
      /\ inflight' = D[NumSlots].inflight /\ unresolved' = unresolved
  BY <1>1 DEF Decodes
<1> SUFFICES ASSUME ~unresolved PROVE AttentionOK'
  BY <1>2 DEF AttentionInv
<1>3. AttentionOK
  BY DEF AttentionInv
<1> DEFINE G(n) == DecodeSound(D[n]) /\ DecodeCache(D[n], req, seqs, ic)
           S == {n \in Nat : n <= NumSlots => G(n)}
<1>4. DecodeCache(D[0], req, seqs, ic)
  <2>1. D[0].req = req /\ D[0].seqs = seqs /\ D[0].ic = ic
    BY <1>2 DEF DecodeStart
  <2> QED BY <2>1 DEF DecodeCache, CacheInv, CacheTypes
<1>5. DecodeSound(D[0])
  BY <1>2, <1>3, DecodeStartSound
<1>6. 0 \in S
  BY <1>4, <1>5
<1>7. NextOwn(inflight[k]) /\ KvShape(ic.kv)
  BY <1>2 DEF CacheInv, Batches, CacheTypes, KvOK
<1>8. ASSUME NEW n \in Idx, G(n) PROVE G(n + 1)
  <2> DEFINE b == inflight[k]
             p == b.next[n]
  <2>1. n \in 0 .. NumSlots /\ n >= n
    BY SlotCount DEF Idx, Slots
  <2>2. DecodeInv(D[n], n, seqs)
    BY <1>2, <2>1 DEF DecodeRounds
  <2>3. CASE D[n + 1] = D[n]
    BY <1>8, <2>3
  <2>4. ASSUME D[n].seqs[n] # None, p # None, b.seqs[n] = seqs[n],
               NEW t \in Nat \ {0}, Yields(D[n], D[n + 1], n, p, t)
        PROVE  G(n + 1)
    <3>1. D[n].seqs[n] = seqs[n]
      BY <2>1, <2>2 DEF DecodeInv
    <3>2. p.token = 0 /\ p.of = D[n].seqs[n]
      <4> DEFINE m == b.next[n].nth
      <4>1. b.next[n] = Placeholder(b.seqs[n], m)
        BY <1>7, <2>4 DEF NextOwn
      <4> HIDE DEF m
      <4>2. p.token = 0 /\ p.of = b.seqs[n]
        BY <4>1 DEF Placeholder
      <4> QED BY <2>4, <3>1, <4>2
    <3>3. D[n].ic.kv = ic.kv /\ SlotTypes(D[n].ic) /\ ReqTypes(D[n].req)
      BY <1>8 DEF DecodeCache
    <3>4. KvShape(D[n].ic.kv)
      BY <1>7, <3>3
    <3> HIDE DEF p
    <3>5. DecodeSound(D[n + 1])
      BY <1>8, <2>2, <2>4, <3>2, <3>3, <3>4, YieldsSound
    <3>6. DecodeCache(D[n + 1], req, seqs, ic)
      <4>1. t \in Nat
        OBVIOUS
      <4> QED BY <1>8, <2>2, <2>4, <4>1, YieldsCache
    <3> QED BY <3>5, <3>6
  <2> QED BY <1>2, <2>3, <2>4 DEF DecodeRounds
<1> HIDE DEF G
<1>9. ASSUME NEW n \in Nat, n \in S PROVE n + 1 \in S
  <2> SUFFICES ASSUME n + 1 <= NumSlots PROVE G(n + 1)
    OBVIOUS
  <2>1. n \in Idx /\ n <= NumSlots
    BY SlotCount DEF Idx, Slots
  <2> QED BY <1>8, <1>9, <2>1
<1> HIDE DEF S
<1>10. \A n \in Nat : n \in S
  BY <1>6, <1>9, Induct
<1>11. G(NumSlots)
  BY <1>10, SlotCount DEF S
<1> QED BY <1>2, <1>11 DEF G, DecodeSound, AttentionOK

-----------------------------------------------------------------------------
(* A slot is shifted *)

\* When every batch is started, the keys are those of the inputs.
AllStarted(fl) == \A k \in DOMAIN fl : fl[k].stage = "started"

Keys(kv, s, x) ==
    \A c \in CellsOf(kv, s) : kv.cells[c].pos < Len(x) =>
        kv.data[c].token = x[kv.cells[c].pos + 1].token /\ kv.data[c].pos = kv.cells[c].pos

\* Then nothing is waited for.
LEMMA StartedKeys ==
    ASSUME NEW fl, AllStarted(fl), NEW kv, NEW s, NEW x
    PROVE  Records(kv, fl, s, x) <=> Keys(kv, s, x)
BY DEF AllStarted, Records, Keys, Settled, Holds

\* Where the cells of a sequence are after a shift.
Moves(kv, r, s, keep, d) ==
    /\ \A p \in Nat : p < keep /\ HasCell(kv, s, p) => HasCell(r, s, p)
    /\ \A p \in Nat : p >= keep /\ HasCell(kv, s, p + d) => HasCell(r, s, p)
    /\ \A c \in CellsOf(r, s) :
         /\ c \in CellsOf(kv, s) /\ r.cells[c].pos \in Nat /\ kv.cells[c].pos \in Nat
         /\ r.cells[c].pos < keep => kv.cells[c].pos = r.cells[c].pos /\ r.data[c] = kv.data[c]
         /\ r.cells[c].pos >= keep => /\ kv.cells[c].pos = r.cells[c].pos + d
                                      /\ r.data[c].token = kv.data[c].token
                                      /\ r.data[c].pos = kv.data[c].pos - d

\* Those that were not discarded are there.
LEMMA ShiftMoves ==
    ASSUME NEW kv, KvShape(kv), NEW r, NEW s \in Slots, NEW keep \in Nat, NEW d \in Nat, d >= 1,
           ShiftedBy(kv, r, s, keep, keep + d),
           \A c \in CellsOf(kv, s) : kv.data[c].pos \in Int
    PROVE  Moves(kv, r, s, keep, d)
<1> DEFINE K == CellsOf(kv, s)
           R == CellsOf(r, s)
<1>1. \A c \in K : kv.cells[c].pos \in Nat /\ c \in DOMAIN kv.cells /\ s \in kv.cells[c].sequences
  BY KvNumbers DEF CellsOf
<1>2. keep < keep + d /\ keep + d \in Nat
  OBVIOUS
<1>3. /\ R = {c \in K : kv.cells[c].pos < keep \/ kv.cells[c].pos >= keep + d}
      /\ \A c \in R : r.cells[c].pos = IF kv.cells[c].pos < keep THEN kv.cells[c].pos
                                       ELSE kv.cells[c].pos + keep - (keep + d)
  BY <1>2, ShiftedOnly
<1>4. \A c \in K : kv.cells[c].pos < keep => r.data[c] = kv.data[c]
  BY <1>1 DEF ShiftedBy
<1>5. \A c \in K : kv.cells[c].pos >= keep + d =>
        r.data[c].token = kv.data[c].token /\ r.data[c].pos = kv.data[c].pos + keep - (keep + d)
  BY <1>1 DEF ShiftedBy
<1>6. \A c \in K : kv.data[c].pos \in Int
  OBVIOUS
<1> HIDE DEF K, R
<1>7. ASSUME NEW p \in Nat, p < keep, NEW c \in K, kv.cells[c].pos = p PROVE c \in R /\ r.cells[c].pos = p
  BY <1>3, <1>7
<1>8. ASSUME NEW p \in Nat, p >= keep, NEW c \in K, kv.cells[c].pos = p + d PROVE c \in R /\ r.cells[c].pos = p
  BY <1>3, <1>8
<1>9. ASSUME NEW c \in R
      PROVE  /\ c \in K /\ r.cells[c].pos \in Nat /\ kv.cells[c].pos \in Nat
             /\ r.cells[c].pos < keep => kv.cells[c].pos = r.cells[c].pos /\ r.data[c] = kv.data[c]
             /\ r.cells[c].pos >= keep => /\ kv.cells[c].pos = r.cells[c].pos + d
                                          /\ r.data[c].token = kv.data[c].token
                                          /\ r.data[c].pos = kv.data[c].pos - d
  <2>1. c \in K /\ kv.cells[c].pos \in Nat /\ kv.data[c].pos \in Int
    BY <1>1, <1>3, <1>6
  <2>2. CASE kv.cells[c].pos < keep
    BY <1>3, <1>4, <2>1, <2>2
  <2>3. CASE kv.cells[c].pos >= keep + d
    BY <1>3, <1>5, <2>1, <2>3
  <2> QED BY <1>3, <2>2, <2>3
<1> QED BY <1>7, <1>8, <1>9 DEF Moves, HasCell, K, R

\* No gap opens between what is kept and what moves up to it.
LEMMA ShiftConvex ==
    ASSUME NEW kv, NEW r, NEW s, NEW keep \in Nat, NEW d \in Nat, Moves(kv, r, s, keep, d), Convex(kv, s)
    PROVE  Convex(r, s)
<1> SUFFICES ASSUME NEW a \in CellsOf(r, s), NEW b \in CellsOf(r, s), NEW p \in Nat,
                    r.cells[a].pos <= p, p <= r.cells[b].pos
             PROVE  HasCell(r, s, p)
  BY DEF Convex
<1>1. /\ a \in CellsOf(kv, s) /\ r.cells[a].pos \in Nat /\ kv.cells[a].pos \in Nat
      /\ b \in CellsOf(kv, s) /\ r.cells[b].pos \in Nat /\ kv.cells[b].pos \in Nat
      /\ r.cells[a].pos < keep => kv.cells[a].pos = r.cells[a].pos
      /\ r.cells[b].pos < keep => kv.cells[b].pos = r.cells[b].pos
      /\ r.cells[a].pos >= keep => kv.cells[a].pos = r.cells[a].pos + d
      /\ r.cells[b].pos >= keep => kv.cells[b].pos = r.cells[b].pos + d
  BY DEF Moves
<1>2. CASE p < keep
  <2>1. kv.cells[a].pos <= p /\ p <= kv.cells[b].pos
    BY <1>1, <1>2
  <2> QED BY <1>1, <1>2, <2>1 DEF Convex, Moves
<1>3. CASE p >= keep
  <2>1. kv.cells[a].pos <= p + d /\ p + d <= kv.cells[b].pos /\ p + d \in Nat
    BY <1>1, <1>3
  <2> QED BY <1>1, <1>3, <2>1 DEF Convex, Moves
<1> QED BY <1>2, <1>3

\* The keys that are left are those of the inputs that are left.
LEMMA ShiftKeys ==
    ASSUME NEW kv, KvShape(kv), NEW r, NEW s, NEW x \in Seq(InputType), Len(x) = NumCtx,
           NEW keep \in 0 .. NumCtx - 1, NEW d \in 1 .. NumCtx - keep,
           Moves(kv, r, s, keep, d), Keys(kv, s, x), NEW y, y = Cut(x, keep, d)
    PROVE  Keys(r, s, y)
<1>1. /\ y \in Seq(InputType) /\ Len(y) = NumCtx - d
      /\ \A j \in 1 .. keep : y[j] = x[j]
      /\ \A j \in keep + 1 .. NumCtx - d : y[j] = x[j + d]
  BY CutTyped
<1>2. NumCtx \in Nat /\ keep \in Nat /\ d \in Nat
  BY CacheConstants
<1> SUFFICES ASSUME NEW c \in CellsOf(r, s), r.cells[c].pos < Len(y)
             PROVE  r.data[c].token = y[r.cells[c].pos + 1].token /\ r.data[c].pos = r.cells[c].pos
  BY DEF Keys
<1>3. /\ c \in CellsOf(kv, s) /\ r.cells[c].pos \in Nat /\ kv.cells[c].pos \in Nat
      /\ r.cells[c].pos < keep => kv.cells[c].pos = r.cells[c].pos /\ r.data[c] = kv.data[c]
      /\ r.cells[c].pos >= keep => /\ kv.cells[c].pos = r.cells[c].pos + d
                                   /\ r.data[c].token = kv.data[c].token
                                   /\ r.data[c].pos = kv.data[c].pos - d
  BY DEF Moves
<1>4. kv.cells[c].pos < Len(x)
  BY <1>3, KvNumbers
<1>5. kv.data[c].token = x[kv.cells[c].pos + 1].token /\ kv.data[c].pos = kv.cells[c].pos
  BY <1>3, <1>4 DEF Keys
<1>6. CASE r.cells[c].pos < keep
  <2>1. r.cells[c].pos + 1 \in 1 .. keep
    BY <1>2, <1>3, <1>6
  <2>2. y[r.cells[c].pos + 1] = x[r.cells[c].pos + 1]
    BY <1>1, <2>1
  <2> QED BY <1>3, <1>5, <1>6, <2>2
<1>7. CASE r.cells[c].pos >= keep
  <2> DEFINE p == r.cells[c].pos
  <2>1. p + 1 \in keep + 1 .. NumCtx - d
    BY <1>1, <1>2, <1>3, <1>7, SMTT(30)
  <2>2. y[p + 1] = x[(p + 1) + d]
    BY <1>1, <2>1
  <2>3. (p + 1) + d = kv.cells[c].pos + 1 /\ kv.data[c].pos - d = p
    BY <1>2, <1>3, <1>5, <1>7, SMTT(30)
  <2> QED BY <1>3, <1>5, <1>7, <2>2, <2>3
<1> QED BY <1>2, <1>3, <1>6, <1>7

\* How much ShiftDiscard takes of a context that is full: all that is not kept
\* only if that is one input, and otherwise no more than half of it.
LEMMA ShiftAmount ==
    ASSUME NEW x, Len(x) = NumCtx, NEW keep \in 0 .. NumCtx - 1, NEW d, d = ShiftDiscard(x, keep)
    PROVE  /\ d \in 1 .. NumCtx - keep
           /\ d = NumCtx - keep => keep = NumCtx - 1
           /\ \A w \in Nat : w >= 1 /\ keep + 2 * w <= NumCtx => keep + d + w <= NumCtx
<1> DEFINE a == NumCtx - keep
           h == a \div 2
           t == IF h >= 1 THEN h ELSE 1
<1>1. NumCtx \in Nat /\ keep \in Nat /\ a \in Nat /\ a >= 1
  BY CacheConstants
<1>2. h \in Nat /\ h * 2 <= a /\ a < h * 2 + 2
  BY <1>1, Division
<1>3. Max({h, 1}) = t /\ t \in Nat
  BY <1>2, MaxOfTwo
<1> HIDE DEF h
<1>4. Max({NumCtx - keep, 0}) = a /\ Max({t - (NumCtx - NumCtx), 0}) = t
  BY <1>1, <1>2, <1>3, MaxOfTwo
<1> HIDE DEF a, t
<1>5. d = Min({a, t})
  BY <1>3, <1>4 DEF ShiftDiscard, h, a
<1>6. d = IF a <= t THEN a ELSE t
  BY <1>1, <1>3, <1>5, LessOfTwo
<1>7. a = NumCtx - keep /\ t = IF h >= 1 THEN h ELSE 1
  BY DEF a, t
<1> QED BY <1>1, <1>2, <1>6, <1>7

\* What the next input attends to is still there: nothing of it was discarded.
LEMMA ShiftReaches ==
    ASSUME NEW kv, KvShape(kv), NEW r, r.window = kv.window, r.memory = kv.memory, NEW s,
           NEW keep \in 0 .. NumCtx - 1, NEW d \in 1 .. NumCtx - keep, Moves(kv, r, s, keep, d),
           Convex(kv, s), Reaches(kv, s, NumCtx),
           kv.memory = MaxInt \/ keep = 0 \/ keep + d + kv.window <= NumCtx
    PROVE  Reaches(r, s, NumCtx - d)
<1> DEFINE N == NumCtx
           n == NumCtx - d
           W == kv.window
<1>1. /\ N \in Nat /\ N > 0 /\ keep \in Nat /\ d \in Nat /\ n \in Nat /\ n <= N /\ d >= 1 /\ keep + d <= N
      /\ W \in Nat /\ W > 0
  BY KvNumbers, CacheConstants
<1> SUFFICES ASSUME n > 0 PROVE HasCell(r, s, n - 1) /\ HasLow(r, s, LowOf(r, n))
  BY DEF Reaches
<1>2. LowOf(r, n) = LowOf(kv, n)
  BY DEF LowOf
<1>3. LowOf(kv, N) \in Nat /\ LowOf(kv, n) \in Nat /\ LowOf(kv, N) <= N - 1
  BY <1>1, LowGrows
<1>4. HasCell(kv, s, N - 1) /\ HasLow(kv, s, LowOf(kv, N))
  BY <1>1 DEF Reaches
<1>5. PICK a \in CellsOf(kv, s) : kv.cells[a].pos <= LowOf(kv, N)
  BY <1>4 DEF HasLow
<1>6. PICK b \in CellsOf(kv, s) : kv.cells[b].pos = N - 1
  BY <1>4 DEF HasCell
<1> DEFINE A == kv.cells[a].pos
<1>7. A \in Nat /\ A <= N - 1
  BY <1>1, <1>3, <1>5, KvNumbers
<1>8. ASSUME NEW p \in Nat, A <= p, p <= N - 1 PROVE HasCell(kv, s, p)
  BY <1>5, <1>6, <1>8 DEF Convex
<1>9. \A p \in Nat : p < keep /\ HasCell(kv, s, p) => HasCell(r, s, p)
  BY DEF Moves
<1>10. \A p \in Nat : p >= keep /\ HasCell(kv, s, p + d) => HasCell(r, s, p)
  BY DEF Moves
<1>11. /\ kv.memory = MaxInt => LowOf(kv, N) = 0 /\ LowOf(kv, n) = 0
       /\ kv.memory # MaxInt => LowOf(kv, N) - d <= LowOf(kv, n) /\ n - W <= LowOf(kv, n)
  BY <1>1 DEF LowOf
<1>12. ASSUME NEW p \in Nat, p <= LowOf(kv, n), HasCell(r, s, p) PROVE HasLow(r, s, LowOf(r, n))
  BY <1>2, <1>12 DEF HasCell, HasLow
<1> HIDE DEF A, n, N, W
<1>13. n = N - d
  BY DEF n, N
<1>14. HasCell(r, s, n - 1)
  <2>1. CASE n - 1 >= keep
    <3>1. n - 1 \in Nat /\ (n - 1) + d = N - 1 /\ N - 1 \in Nat
      BY <1>1, <1>13
    <3>2. HasCell(kv, s, (n - 1) + d)
      BY <1>7, <1>8, <3>1
    <3> QED BY <1>10, <2>1, <3>1, <3>2
  <2>2. CASE n - 1 < keep
    <3>1. n = keep /\ keep > 0
      BY <1>1, <1>13, <2>2
    <3>2. keep + d = N
      BY <1>1, <1>13, <3>1
    <3>3. kv.memory = MaxInt
      BY <1>1, <3>1, <3>2 DEF W, N
    <3>4. n - 1 \in Nat /\ n - 1 <= N - 1 /\ A <= n - 1
      BY <1>1, <1>3, <1>5, <1>7, <1>11, <3>1, <3>3 DEF A
    <3>5. HasCell(kv, s, n - 1)
      BY <1>8, <3>4
    <3> QED BY <1>9, <2>2, <3>4, <3>5
  <2> QED BY <1>1, <2>1, <2>2
<1>15. HasLow(r, s, LowOf(r, n))
  <2>1. CASE kv.memory = MaxInt
    <3>1. A = 0 /\ LowOf(kv, n) = 0
      BY <1>5, <1>7, <1>11, <2>1 DEF A
    <3>2. HasCell(r, s, 0)
      <4>1. CASE keep > 0
        <5>1. HasCell(kv, s, 0)
          BY <1>1, <1>8, <3>1
        <5> QED BY <1>9, <4>1, <5>1
      <4>2. CASE keep = 0
        <5>1. d <= N - 1 /\ 0 + d = d
          BY <1>1, <1>13
        <5>2. HasCell(kv, s, 0 + d)
          BY <1>1, <1>8, <3>1, <5>1
        <5> QED BY <1>10, <4>2, <5>2
      <4> QED BY <1>1, <4>1, <4>2
    <3> QED BY <1>12, <3>1, <3>2
  <2>2. CASE kv.memory # MaxInt
    <3>1. keep + d <= N - 1 /\ keep <= LowOf(kv, n)
      <4>1. CASE keep = 0
        BY <1>1, <1>3, <1>13, <4>1
      <4>2. CASE keep + d + W <= N
        BY <1>1, <1>3, <1>11, <1>13, <2>2, <4>2
      <4> QED BY <2>2, <4>1, <4>2 DEF W, N
    <3>2. CASE A <= keep + d
      <4>1. HasCell(kv, s, keep + d)
        BY <1>1, <1>8, <3>1, <3>2
      <4>2. HasCell(r, s, keep)
        BY <1>1, <1>10, <4>1
      <4> QED BY <1>1, <1>12, <3>1, <4>2
    <3>3. CASE A > keep + d
      <4>1. A - d \in Nat /\ A - d >= keep /\ (A - d) + d = A
        BY <1>1, <1>7, <3>3
      <4>2. HasCell(kv, s, (A - d) + d)
        BY <1>7, <1>8, <4>1
      <4>3. HasCell(r, s, A - d)
        BY <1>10, <4>1, <4>2
      <4>4. A - d <= LowOf(kv, n)
        BY <1>1, <1>3, <1>5, <1>7, <1>11, <2>2 DEF A
      <4> QED BY <1>12, <4>1, <4>3, <4>4
    <3> QED BY <1>1, <1>7, <3>2, <3>3
  <2> QED BY <2>1, <2>2
<1> QED BY <1>14, <1>15 DEF n

\* What is left of inputs that are known is known.
LEMMA KnownCut ==
    ASSUME NEW x \in Seq(InputType), Len(x) = NumCtx, Known0(x), NEW keep \in 0 .. NumCtx - 1,
           NEW d \in 1 .. NumCtx - keep, NEW z, z = Cut(x, keep, d)
    PROVE  z \in Seq(InputType) /\ Len(z) = NumCtx - d /\ Known0(z)
<1>1. NumCtx \in Nat /\ keep \in Nat /\ d \in Nat /\ d >= 1 /\ NumCtx > 0
  BY CacheConstants
<1>2. /\ z \in Seq(InputType) /\ Len(z) = NumCtx - d
      /\ \A j \in 1 .. keep : z[j] = x[j]
      /\ \A j \in keep + 1 .. NumCtx - d : z[j] = x[j + d]
  BY CutTyped, SMTT(30)
<1> SUFFICES ASSUME NEW j \in DOMAIN z PROVE z[j].token # 0
  BY <1>2 DEF Known0
<1>3. j \in 1 .. NumCtx - d /\ DOMAIN x = 1 .. NumCtx
  BY <1>2, LengthNat
<1>4. CASE j <= keep
  <2>1. j \in 1 .. keep /\ j \in DOMAIN x
    BY <1>1, <1>3, <1>4
  <2> QED BY <1>2, <2>1 DEF Known0
<1>5. CASE j > keep
  <2>1. j \in keep + 1 .. NumCtx - d /\ j + d \in DOMAIN x
    BY <1>1, <1>3, <1>5
  <2> QED BY <1>2, <2>1 DEF Known0
<1> QED BY <1>1, <1>3, <1>4, <1>5

\* What holds of a slot while every batch is started.
SlotKeys(kv, s, x) == Known0(x) /\ Keys(kv, s, x) /\ Convex(kv, s) /\ Whole(kv, s, Len(x))

\* ShiftCacheSlot: a slot that is full is good afterwards, or empty.
LEMMA LeftGood ==
    ASSUME NEW c, KvOK(c.kv), NEW s \in Slots, NEW rq, rq.shift, NEW keep, keep = rq.keep,
           keep \in 0 .. NumCtx - 1, KeepFits(rq, c.kv),
           NEW x, x = c.slots[s].inputs, x \in Seq(InputType), Len(x) = NumCtx,
           SlotKeys(c.kv, s, x), Reaches(c.kv, s, NumCtx),
           NEW d \in 1 .. NumCtx - keep, NEW got, LeftOf(c, got, s, keep, d),
           NEW y, y = got.ic.slots[s].inputs
    PROVE  /\ SlotKeys(got.ic.kv, s, y) /\ Reaches(got.ic.kv, s, Len(y))
           /\ ~got.ok => Known0(got.reprocess)
<1> DEFINE kv == c.kv
           r  == got.ic.kv
           z  == Cut(x, keep, d)
<1>1. NumCtx \in Nat /\ keep \in Nat /\ d \in Nat /\ d >= 1 /\ NumCtx > 0
  BY CacheConstants
<1>2. /\ got.ok \in BOOLEAN /\ d = ShiftDiscard(x, keep) /\ KvShape(kv) /\ KvShape(r)
      /\ r.window = kv.window /\ r.memory = kv.memory
  BY DEF LeftOf, KvOK, OnlyFor
<1>3. z \in Seq(InputType) /\ Len(z) = NumCtx - d /\ Known0(z)
  BY KnownCut DEF SlotKeys
<1>5. CASE ~got.ok
  <2>1. CellsOf(r, s) = {} /\ y = <<>> /\ got.reprocess = z
    BY <1>5 DEF LeftOf
  <2>2. Known0(<<>>) /\ Len(<<>>) = 0 /\ ~(0 > 0)
    BY DEF Known0
  <2> QED BY <1>3, <2>1, <2>2 DEF SlotKeys, Keys, Convex, Whole, Reaches
<1>6. CASE got.ok
  <2>1. ShiftedBy(kv, r, s, keep, keep + d) /\ y = z /\ (CanShift \/ CellsOf(r, s) = {})
    BY <1>6 DEF LeftOf
  <2>2. \A e \in CellsOf(kv, s) : kv.data[e].pos \in Int
    <3> SUFFICES ASSUME NEW e \in CellsOf(kv, s) PROVE kv.data[e].pos \in Int
      OBVIOUS
    <3>1. kv.cells[e].pos \in Nat /\ kv.cells[e].pos < Len(x)
      BY <1>2, KvNumbers
    <3> QED BY <3>1 DEF SlotKeys, Keys
  <2>3. Moves(kv, r, s, keep, d)
    BY <1>1, <1>2, <2>1, <2>2, ShiftMoves
  <2>4. Convex(r, s)
    BY <1>1, <2>3, ShiftConvex DEF SlotKeys
  <2>5. Keys(r, s, z)
    BY <1>2, <2>3, ShiftKeys DEF SlotKeys
  <2>6. /\ d = NumCtx - keep => keep = NumCtx - 1
        /\ \A w \in Nat : w >= 1 /\ keep + 2 * w <= NumCtx => keep + d + w <= NumCtx
    BY <1>2, ShiftAmount
  <2>7. Reaches(r, s, NumCtx - d)
    <3>1. CASE CanShift \/ keep = NumCtx - 1
      <4>1. kv.memory # MaxInt => keep = 0 \/ keep + 2 * kv.window <= NumCtx
        BY <3>1 DEF KeepFits
      <4>2. kv.window \in Nat /\ kv.window >= 1
        BY <1>2, KvNumbers
      <4>3. kv.memory = MaxInt \/ keep = 0 \/ keep + d + kv.window <= NumCtx
        BY <2>6, <4>1, <4>2
      <4> QED BY <1>2, <2>3, <4>3, ShiftReaches DEF SlotKeys
    <3>2. CASE ~CanShift /\ keep # NumCtx - 1
      <4>1. CellsOf(r, s) = {}
        BY <2>1, <3>2
      <4>2. keep + d <= NumCtx - 1
        BY <1>1, <2>6, <3>2
      <4>3. HasCell(kv, s, NumCtx - 1)
        BY <1>1 DEF Reaches
      <4>4. (NumCtx - 1 - d) \in Nat /\ NumCtx - 1 - d >= keep /\ (NumCtx - 1 - d) + d = NumCtx - 1
        BY <1>1, <4>2
      <4>5. HasCell(r, s, NumCtx - 1 - d)
        BY <2>3, <4>3, <4>4 DEF Moves
      <4> QED BY <4>1, <4>5 DEF HasCell
    <3> QED BY <3>1, <3>2
  <2>8. Whole(r, s, NumCtx - d)
    BY <1>1, <1>2, <2>7, ReachesWhole
  <2> QED BY <1>3, <1>6, <2>1, <2>4, <2>5, <2>7, <2>8 DEF SlotKeys
<1> QED BY <1>2, <1>5, <1>6

-----------------------------------------------------------------------------
(* The loop of forwardBatch *)

\* The slots of cache c, and the sequences, while every batch is started.
CacheGood(rq, sq, c) ==
    /\ \A s \in Slots : SlotKeys(c.kv, s, c.slots[s].inputs)
    /\ \A i \in Occupied(sq) : Reaches(c.kv, rq[sq[i]].slot, Len(c.slots[rq[sq[i]].slot].inputs))

Streamed(rq, q) == q \in Requests /\ rq[q].pc \in {"stream", "done"}

\* What the loop knows: who streamed goes on, or is done.
VisitGood(w) ==
    /\ ReqGood(w.req, w.ic.kv)
    /\ \A q \in Requests : Streamed(req, q) => Streamed(w.req, q)
    /\ \A i \in Idx : w.snapshot[i] # None => Streamed(w.req, w.snapshot[i])
    /\ CacheGood(w.req, w.seqs, w.ic)

\* The holes of a part of some inputs.
LEMMA PartHoles ==
    ASSUME NEW q, NEW x \in Seq(InputType), OwnHoles(q, x), NEW n \in Nat, n <= Len(x)
    PROVE  OwnHoles(q, SubSeq(x, 1, n)) /\ OwnHoles(q, SubSeq(x, n + 1, Len(x)))
<1>0. Len(x) \in Nat /\ DOMAIN x = 1 .. Len(x)
  BY LengthNat
<1>1. ASSUME NEW m \in Nat, m >= 1, NEW l \in Nat, l <= Len(x) PROVE OwnHoles(q, SubSeq(x, m, l))
  <2> DEFINE z == SubSeq(x, m, l)
  <2>1. /\ z \in Seq(InputType) /\ Len(z) = IF m <= l THEN l - m + 1 ELSE 0
        /\ \A j \in 1 .. Len(z) : z[j] = x[m + j - 1]
    BY <1>1, PartTyped
  <2>2. Len(z) \in Nat /\ DOMAIN z = 1 .. Len(z)
    BY <2>1, LengthNat
  <2> HIDE DEF z
  <2>3. ASSUME NEW j \in DOMAIN z PROVE m + j - 1 \in DOMAIN x /\ z[j] = x[m + j - 1]
    BY <1>0, <1>1, <2>1, <2>2
  <2>4. OwnHoles(q, z)
    BY <2>3 DEF OwnHoles
  <2> QED BY <2>4 DEF z
<1>2. 1 \in Nat /\ 1 >= 1 /\ n + 1 \in Nat /\ n + 1 >= 1 /\ Len(x) <= Len(x)
  BY <1>0
<1> QED BY <1>0, <1>1, <1>2

\* The holes of known inputs before others.
LEMMA JoinHoles ==
    ASSUME NEW q, NEW y \in Seq(InputType), Known0(y), NEW x \in Seq(InputType), OwnHoles(q, x)
    PROVE  OwnHoles(q, y \o x)
<1> DEFINE z == y \o x
<1>1. /\ z \in Seq(InputType) /\ Len(z) = Len(y) + Len(x)
      /\ \A j \in 1 .. Len(y) : z[j] = y[j]
      /\ \A j \in 1 .. Len(x) : z[Len(y) + j] = x[j]
  BY JoinTyped
<1>2. /\ Len(x) \in Nat /\ DOMAIN x = 1 .. Len(x) /\ Len(y) \in Nat /\ DOMAIN y = 1 .. Len(y)
      /\ DOMAIN z = 1 .. Len(z)
  BY <1>1, LengthNat
<1> HIDE DEF z
<1> SUFFICES ASSUME NEW j \in DOMAIN z, z[j].token = 0 PROVE z[j].of = q
  BY DEF OwnHoles, z
<1>3. CASE j <= Len(y)
  <2>1. j \in DOMAIN y /\ z[j] = y[j]
    BY <1>1, <1>2, <1>3
  <2> QED BY <2>1 DEF Known0
<1>4. CASE j > Len(y)
  <2>1. j - Len(y) \in 1 .. Len(x) /\ Len(y) + (j - Len(y)) = j
    BY <1>1, <1>2, <1>4
  <2>2. j - Len(y) \in DOMAIN x /\ z[j] = x[j - Len(y)]
    BY <1>1, <1>2, <2>1
  <2> QED BY <2>2 DEF OwnHoles
<1> QED BY <1>1, <1>2, <1>3, <1>4

\* A request that got other inputs keeps as little as it did.
LEMMA KeptFits ==
    \A rq, r, kv : SameBut(rq, r) /\ KeepFits(rq, kv) => KeepFits(r, kv)
<1> SUFFICES ASSUME NEW rq, NEW r, NEW kv, SameBut(rq, r), KeepFits(rq, kv),
                    r.shift, kv.memory # MaxInt, CanShift \/ r.keep = NumCtx - 1
             PROVE  r.keep = 0 \/ r.keep + 2 * kv.window <= NumCtx
  BY Zenon DEF KeepFits
<1>1. r.shift = rq.shift /\ r.keep = rq.keep
  BY DEF SameBut
<1>2. rq.shift
  BY <1>1, Zenon
<1>3. rq.keep = 0 \/ rq.keep + 2 * kv.window <= NumCtx
  BY <1>1, <1>2 DEF KeepFits
<1> QED BY <1>1, <1>3

\* Inputs of a sequence are taken into the batch.
LEMMA TakeGood ==
    ASSUME NEW w, Owners(w.req, w.seqs), ReqTypes(w.req), VisitGood(w), NEW q \in Requests,
           NEW n \in Nat, n <= Len(w.req[q].inputs), NEW v, Took(w, v, q, n)
    PROVE  VisitGood(v)
<1>1. /\ v.ic = w.ic /\ v.seqs = w.seqs /\ v.snapshot = w.snapshot
      /\ SameBut(w.req[q], v.req[q])
      /\ v.req[q].pending = SubSeq(w.req[q].inputs, 1, n)
      /\ v.req[q].inputs = SubSeq(w.req[q].inputs, n + 1, Len(w.req[q].inputs))
      /\ \A x \in Requests \ {q} : v.req[x] = w.req[x]
  BY DEF Took
<1>2. /\ KeepFits(w.req[q], w.ic.kv) /\ OwnHoles(q, w.req[q].inputs)
      /\ w.req[q].inputs \in Seq(InputType)
  BY DEF VisitGood, ReqGood, ReqTypes
<1>3. KeepFits(v.req[q], w.ic.kv) /\ OwnHoles(q, v.req[q].inputs) /\ OwnHoles(q, v.req[q].pending)
  <2>1. OwnHoles(q, SubSeq(w.req[q].inputs, 1, n))
        /\ OwnHoles(q, SubSeq(w.req[q].inputs, n + 1, Len(w.req[q].inputs)))
    BY <1>2, PartHoles
  <2>2. KeepFits(v.req[q], w.ic.kv)
    <3>1. SameBut(w.req[q], v.req[q]) /\ KeepFits(w.req[q], w.ic.kv)
      BY <1>1, <1>2
    <3> QED BY <3>1, KeptFits
  <2> QED BY <1>1, <2>1, <2>2
<1>4. ReqGood(v.req, v.ic.kv)
  BY <1>1, <1>3 DEF VisitGood, ReqGood
<1>5. \A x \in Requests : v.req[x].pc = w.req[x].pc /\ v.req[x].slot = w.req[x].slot
  BY <1>1 DEF SameBut
<1>6. \A i \in Occupied(w.seqs) : w.seqs[i] \in Requests
  BY DEF Owners, Occupied
<1>7. CacheGood(v.req, v.seqs, v.ic)
  <2>1. \A s \in Slots : SlotKeys(v.ic.kv, s, v.ic.slots[s].inputs)
    BY <1>1 DEF VisitGood, CacheGood
  <2>2. ASSUME NEW i \in Occupied(v.seqs), NEW t, t = v.req[v.seqs[i]].slot
        PROVE  Reaches(v.ic.kv, t, Len(v.ic.slots[t].inputs))
    <3>1. i \in Occupied(w.seqs) /\ t = w.req[w.seqs[i]].slot
      BY <1>1, <1>5, <1>6, <2>2
    <3>2. Reaches(w.ic.kv, t, Len(w.ic.slots[t].inputs))
      BY <3>1 DEF VisitGood, CacheGood
    <3> QED BY <1>1, <3>2
  <2> QED BY <2>1, <2>2 DEF CacheGood
<1> QED BY <1>1, <1>4, <1>5, <1>7 DEF VisitGood, Streamed

\* A slot that is full was shifted.
LEMMA SlideGood ==
    ASSUME NEW w, VisitInv(w), NEW U \in SUBSET Idx, VisitCache(w, U), VisitGood(w),
           NEW i \in Occupied(w.seqs), NEW got, NEW d, Slides(w, i, got, d)
    PROVE  /\ CacheGood(w.req, w.seqs, got.ic) /\ ReqGood(w.req, got.ic.kv)
           /\ ~got.ok => Known0(got.reprocess) /\ got.reprocess \in Seq(InputType)
<1> DEFINE q == w.seqs[i]
           s == w.req[q].slot
           k == w.req[q].keep
<1>1. /\ q \in Requests /\ i \in Idx
      /\ \A j \in Occupied(w.seqs) \ {i} : w.req[w.seqs[j]].slot # s /\ w.req[w.seqs[j]].slot \in Slots
  BY DEF VisitInv, Acc, Owners, Occupied
<1>2. /\ s \in Slots /\ Len(w.ic.slots[s].inputs) = NumCtx /\ d \in 1 .. NumCtx - k
      /\ w.req[q].shift /\ LeftOf(w.ic, got, s, k, d)
  BY DEF Slides
<1>3. /\ KvOK(w.ic.kv) /\ k \in 0 .. NumCtx - 1 /\ w.ic.slots[s].inputs \in Seq(InputType)
  BY <1>1, <1>2 DEF VisitCache, ReqTypes, SlotTypes
<1>4. KeepFits(w.req[q], w.ic.kv)
  BY <1>1 DEF VisitGood, ReqGood
<1>5. SlotKeys(w.ic.kv, s, w.ic.slots[s].inputs) /\ Reaches(w.ic.kv, s, NumCtx)
  BY <1>2 DEF VisitGood, CacheGood
<1>6. k = w.req[q].keep
  OBVIOUS
<1> HIDE DEF q, s, k
<1>7. /\ SlotKeys(got.ic.kv, s, got.ic.slots[s].inputs)
      /\ Reaches(got.ic.kv, s, Len(got.ic.slots[s].inputs))
      /\ ~got.ok => Known0(got.reprocess)
  BY <1>2, <1>3, <1>4, <1>5, <1>6, LeftGood
<1>8. ~got.ok => got.reprocess \in Seq(InputType)
  BY <1>2, <1>3, ShiftFits
<1>9. /\ OnlyFor(w.ic.kv, got.ic.kv, s) /\ \A t \in Slots \ {s} : got.ic.slots[t] = w.ic.slots[t]
  BY <1>2 DEF LeftOf
<1>10. ASSUME NEW t \in Slots, t # s
       PROVE  /\ got.ic.slots[t].inputs = w.ic.slots[t].inputs
              /\ SlotKeys(got.ic.kv, t, got.ic.slots[t].inputs)
              /\ \A n : Reaches(w.ic.kv, t, n) => Reaches(got.ic.kv, t, n)
  <2>1. Alike(w.ic.kv, got.ic.kv, t) /\ got.ic.slots[t].inputs = w.ic.slots[t].inputs
    BY <1>9, <1>10, OnlyAlike
  <2>2. SlotKeys(w.ic.kv, t, w.ic.slots[t].inputs)
    BY DEF VisitGood, CacheGood
  <2>3. Keys(got.ic.kv, t, w.ic.slots[t].inputs)
    BY <2>1, <2>2 DEF SlotKeys, Keys, Alike, SameFor
  <2>4. /\ Convex(w.ic.kv, t) => Convex(got.ic.kv, t)
        /\ \A n : Whole(w.ic.kv, t, n) => Whole(got.ic.kv, t, n)
        /\ \A n : Reaches(w.ic.kv, t, n) => Reaches(got.ic.kv, t, n)
    BY <2>1, AlikeGood
  <2> QED BY <2>1, <2>2, <2>3, <2>4 DEF SlotKeys
<1>11. CacheGood(w.req, w.seqs, got.ic)
  <2>1. \A t \in Slots : SlotKeys(got.ic.kv, t, got.ic.slots[t].inputs)
    BY <1>7, <1>10
  <2>2. ASSUME NEW j \in Occupied(w.seqs), NEW t, t = w.req[w.seqs[j]].slot
        PROVE  Reaches(got.ic.kv, t, Len(got.ic.slots[t].inputs))
    <3>1. CASE j = i
      BY <1>7, <2>2, <3>1 DEF s, q
    <3>2. CASE j # i
      <4>1. t \in Slots /\ t # s
        BY <1>1, <2>2, <3>2
      <4>2. Reaches(w.ic.kv, t, Len(w.ic.slots[t].inputs))
        BY <2>2 DEF VisitGood, CacheGood
      <4> QED BY <1>10, <4>1, <4>2
    <3> QED BY <3>1, <3>2
  <2> QED BY <2>1, <2>2 DEF CacheGood
<1>12. ReqGood(w.req, got.ic.kv)
  <2>1. got.ic.kv.window = w.ic.kv.window /\ got.ic.kv.memory = w.ic.kv.memory
    BY <1>9 DEF OnlyFor
  <2> QED BY <2>1 DEF VisitGood, ReqGood, KeepFits
<1> QED BY <1>7, <1>8, <1>11, <1>12

\* A request that ended has nothing to shift.
LEMMA EndedGood ==
    ASSUME NEW r, r.keep = 0, r.inputs = <<>>, r.pending = <<>>, NEW kv, NEW q
    PROVE  KeepFits(r, kv) /\ OwnHoles(q, r.inputs) /\ OwnHoles(q, r.pending)
<1>1. OwnHoles(q, <<>>)
  BY DEF OwnHoles
<1> QED BY <1>1 DEF KeepFits

\* A round of the loop.
LEMMA RoundGood ==
    ASSUME NEW w, VisitInv(w), VisitLogits(w), NEW U \in SUBSET Idx, VisitCache(w, U), NEW i \in U,
           NEW v, Round(w, v, i), VisitGood(w)
    PROVE  VisitGood(v)
<1> DEFINE q == w.seqs[i]
<1>0. /\ ReqTypes(w.req) /\ DOMAIN w.snapshot = Idx /\ i \in Idx /\ Owners(w.req, w.seqs)
      /\ w.seqs \in [Idx -> Requests \cup {None}]
  BY DEF VisitCache, VisitLogits, VisitInv, Acc, Owners
<1>1. CASE Stays(w, v)
  BY <1>1 DEF Stays, VisitGood
<1>2. CASE i \in Occupied(w.seqs) /\ Takes(w, v, i)
  <2>1. q \in Requests
    BY <1>0, <1>2 DEF Occupied
  <2>2. PICK n \in Nat : n <= Len(w.req[q].inputs) /\ Took(w, v, q, n)
    BY <1>2 DEF Takes
  <2> QED BY <1>0, <2>1, <2>2, TakeGood
<1>3. CASE i \in Occupied(w.seqs) /\ Ends(w, v, i)
  <2>1. q \in Requests /\ \A j \in Occupied(w.seqs) \ {i} : w.seqs[j] # q /\ w.seqs[j] \in Requests
                                                            /\ w.req[w.seqs[j]].slot \in Slots
    BY <1>0, <1>3 DEF Owners, Occupied
  <2>2. /\ v.ic.kv = w.ic.kv
        /\ \A t \in Slots : v.ic.slots[t].inputs = w.ic.slots[t].inputs
        /\ v.seqs = [w.seqs EXCEPT ![i] = None] /\ v.snapshot = [w.snapshot EXCEPT ![i] = None]
        /\ \A x \in Requests \ {q} : v.req[x] = w.req[x]
        /\ v.req[q].pc = "done" /\ v.req[q].inputs = <<>> /\ v.req[q].pending = <<>>
        /\ v.req[q].keep = 0
    BY <1>3 DEF Ends
  <2> HIDE DEF q
  <2>3. v.seqs[i] = None /\ v.snapshot[i] = None
        /\ \A j \in Idx \ {i} : v.seqs[j] = w.seqs[j] /\ v.snapshot[j] = w.snapshot[j]
    BY <1>0, <2>2
  <2>4. KeepFits(v.req[q], w.ic.kv) /\ OwnHoles(q, v.req[q].inputs) /\ OwnHoles(q, v.req[q].pending)
    BY <2>2, EndedGood
  <2>5. ReqGood(v.req, v.ic.kv)
    BY <2>2, <2>4 DEF VisitGood, ReqGood
  <2>6. \A x : Streamed(w.req, x) => Streamed(v.req, x)
    <3> SUFFICES ASSUME NEW x, Streamed(w.req, x) PROVE Streamed(v.req, x)
      OBVIOUS
    <3>1. CASE x = q
      BY <2>1, <2>2, <3>1 DEF Streamed
    <3>2. CASE x # q
      BY <2>2, <3>2 DEF Streamed
    <3> QED BY <3>1, <3>2
  <2>7. \A j \in Occupied(v.seqs) : j \in Occupied(w.seqs) \ {i} /\ v.seqs[j] = w.seqs[j]
                                    /\ v.req[v.seqs[j]] = w.req[w.seqs[j]]
    BY <2>1, <2>2, <2>3 DEF Occupied
  <2>8. \A j \in Idx : v.snapshot[j] # None => Streamed(v.req, v.snapshot[j])
    BY <2>3, <2>6 DEF VisitGood
  <2>9. CacheGood(v.req, v.seqs, v.ic)
    <3>1. \A s \in Slots : SlotKeys(v.ic.kv, s, v.ic.slots[s].inputs)
      BY <2>2 DEF VisitGood, CacheGood
    <3>2. ASSUME NEW j \in Occupied(v.seqs), NEW t, t = v.req[v.seqs[j]].slot
          PROVE  Reaches(v.ic.kv, t, Len(v.ic.slots[t].inputs))
      <4>1. j \in Occupied(w.seqs) /\ t = w.req[w.seqs[j]].slot /\ t \in Slots
        BY <2>1, <2>7, <3>2
      <4>2. Reaches(w.ic.kv, t, Len(w.ic.slots[t].inputs))
        BY <4>1 DEF VisitGood, CacheGood
      <4> QED BY <2>2, <4>1, <4>2
    <3> QED BY <3>1, <3>2 DEF CacheGood
  <2> QED BY <2>5, <2>6, <2>8, <2>9 DEF VisitGood
<1>4. ASSUME i \in Occupied(w.seqs), NEW got, NEW d, Slides(w, i, got, d)
      PROVE  /\ ~got.ok /\ Redoes(w, v, i, got) => VisitGood(v)
             /\ got.ok /\ Takes([w EXCEPT !.ic = got.ic], v, i) => VisitGood(v)
  <2>1. q \in Requests /\ q # None
    BY <1>0, <1>4 DEF Occupied
  <2>2. /\ CacheGood(w.req, w.seqs, got.ic) /\ ReqGood(w.req, got.ic.kv)
        /\ ~got.ok => Known0(got.reprocess) /\ got.reprocess \in Seq(InputType)
    BY <1>4, SlideGood
  <2>3. ASSUME got.ok, Takes([w EXCEPT !.ic = got.ic], v, i) PROVE VisitGood(v)
    <3> DEFINE u == [w EXCEPT !.ic = got.ic]
    <3>1. u.ic = got.ic /\ u.req = w.req /\ u.seqs = w.seqs /\ u.snapshot = w.snapshot /\ u.entries = w.entries
      BY DEF VisitInv
    <3>2. Takes(u, v, i)
      BY <2>3
    <3> HIDE DEF u
    <3>3. VisitGood(u)
      BY <2>2, <3>1 DEF VisitGood
    <3>4. PICK n \in Nat : n <= Len(u.req[q].inputs) /\ Took(u, v, q, n)
      BY <3>1, <3>2 DEF Takes
    <3>5. Owners(u.req, u.seqs) /\ ReqTypes(u.req)
      BY <1>0, <3>1
    <3> QED BY <2>1, <3>3, <3>4, <3>5, TakeGood
  <2>4. ASSUME ~got.ok, Redoes(w, v, i, got) PROVE VisitGood(v)
    <3>1. /\ v.ic = got.ic /\ v.seqs = w.seqs /\ v.snapshot = [w.snapshot EXCEPT ![i] = None]
          /\ \A x \in Requests \ {q} : v.req[x] = w.req[x]
          /\ SameBut(w.req[q], v.req[q])
          /\ v.req[q].pending = w.req[q].pending
          /\ v.req[q].inputs = got.reprocess \o w.req[q].inputs
      BY <2>4 DEF Redoes
    <3> HIDE DEF q
    <3>2. /\ KeepFits(w.req[q], v.ic.kv) /\ OwnHoles(q, w.req[q].inputs) /\ OwnHoles(q, w.req[q].pending)
          /\ w.req[q].inputs \in Seq(InputType)
      BY <1>0, <2>1, <2>2, <3>1 DEF ReqGood, ReqTypes
    <3>3. KeepFits(v.req[q], v.ic.kv)
      <4>1. SameBut(w.req[q], v.req[q]) /\ KeepFits(w.req[q], v.ic.kv)
        BY <3>1, <3>2
      <4> QED BY <4>1, KeptFits
    <3>4. OwnHoles(q, v.req[q].inputs) /\ OwnHoles(q, v.req[q].pending)
      <4>1. OwnHoles(q, got.reprocess \o w.req[q].inputs)
        BY <2>2, <2>4, <3>2, JoinHoles
      <4> QED BY <3>1, <3>2, <4>1
    <3>5. ReqGood(v.req, v.ic.kv)
      BY <2>2, <3>1, <3>3, <3>4 DEF ReqGood
    <3>6. \A x \in Requests : v.req[x].pc = w.req[x].pc /\ v.req[x].slot = w.req[x].slot
      BY <3>1 DEF SameBut
    <3>7. \A x : Streamed(w.req, x) => Streamed(v.req, x)
      BY <3>6 DEF Streamed
    <3>8. \A j \in Idx : v.snapshot[j] # None => Streamed(v.req, v.snapshot[j])
      <4>1. \A j \in Idx : v.snapshot[j] = IF j = i THEN None ELSE w.snapshot[j]
        BY <1>0, <3>1
      <4> QED BY <3>7, <4>1 DEF VisitGood
    <3>9. \A j \in Occupied(w.seqs) : w.seqs[j] \in Requests
      BY <1>0 DEF Occupied
    <3>10. CacheGood(v.req, v.seqs, v.ic)
      <4>1. \A s \in Slots : SlotKeys(v.ic.kv, s, v.ic.slots[s].inputs)
        <5>1. v.ic = got.ic
          BY <3>1
        <5> QED BY <2>2, <5>1 DEF CacheGood
      <4>2. ASSUME NEW j \in Occupied(v.seqs), NEW t, t = v.req[v.seqs[j]].slot
            PROVE  Reaches(v.ic.kv, t, Len(v.ic.slots[t].inputs))
        <5>1. v.ic = got.ic /\ v.seqs = w.seqs
          BY <3>1
        <5>2. j \in Occupied(w.seqs) /\ w.seqs[j] \in Requests
          BY <3>9, <4>2, <5>1
        <5>3. t = w.req[w.seqs[j]].slot
          BY <3>6, <4>2, <5>1, <5>2
        <5>4. Reaches(got.ic.kv, t, Len(got.ic.slots[t].inputs))
          BY <2>2, <5>2, <5>3 DEF CacheGood
        <5> QED BY <5>1, <5>4
      <4> QED BY <4>1, <4>2 DEF CacheGood
    <3> QED BY <3>5, <3>7, <3>8, <3>10 DEF VisitGood
  <2> QED BY <2>3, <2>4
<1> QED BY <1>1, <1>2, <1>3, <1>4 DEF Round

\* The rounds of the loop.
LEMMA RoundsGood ==
    ASSUME NEW w0, Rounds(w0), nextSeq \in 0 .. NumSlots, VisitGood(w0)
    PROVE  VisitGood(Visited(w0)[NumSlots])
<1> DEFINE V == Visited(w0)
           S == {n \in Nat : n <= NumSlots => VisitGood(V[n])}
<1>1. V[0] = w0 /\ \A n \in 0 .. NumSlots :
                     VisitInv(V[n]) /\ VisitLogits(V[n]) /\ VisitCache(V[n], Rest(n))
  BY DEF Rounds
<1>2. \A n \in 0 .. NumSlots - 1 : Round(V[n], V[n + 1], At(n))
  BY DEF Rounds
<1> HIDE DEF V
<1>3. 0 \in S
  BY <1>1
<1>4. ASSUME NEW n \in Nat, n \in S PROVE n + 1 \in S
  <2> SUFFICES ASSUME n + 1 <= NumSlots PROVE VisitGood(V[n + 1])
    OBVIOUS
  <2>1. n \in 0 .. NumSlots - 1 /\ n \in 0 .. NumSlots /\ n <= NumSlots /\ n < NumSlots
    BY SlotCount
  <2>2. At(n) \in Rest(n) /\ Rest(n) \in SUBSET Idx
    BY <2>1, RestShrinks
  <2>3. /\ VisitInv(V[n]) /\ VisitLogits(V[n]) /\ VisitCache(V[n], Rest(n)) /\ VisitGood(V[n])
        /\ Round(V[n], V[n + 1], At(n))
    BY <1>1, <1>2, <1>4, <2>1
  <2> QED BY <2>2, <2>3, RoundGood
<1> HIDE DEF S
<1>5. NumSlots \in S
  BY <1>3, <1>4, Induct, SlotCount
<1> QED BY <1>5, SlotCount DEF S, V

\* What the loop starts from.
LEMMA BeginsGood ==
    ASSUME SlotInv, CacheInv, AttentionOK, NEW w0, Begins(w0)
    PROVE  VisitGood(w0) /\ AllStarted(inflight)
<1>1. /\ w0.req = req /\ w0.seqs = seqs /\ w0.ic = ic /\ w0.snapshot = seqs
      /\ \A i \in Occupied(seqs) : Len(req[seqs[i]].pending) = 0
  BY DEF Begins
<1>2. AllStarted(inflight)
  BY DEF Begins, AllStarted
<1>3. /\ seqs \in [Idx -> Requests \cup {None}]
      /\ \A i \in Occupied(seqs) : req[seqs[i]].pc = "stream" /\ req[seqs[i]].slot \in Slots
  BY DEF SlotInv, Acc, Owners
<1>4. \A i \in Idx : seqs[i] # None => Streamed(req, seqs[i])
  BY <1>3 DEF Occupied, Streamed
<1>5. ReqGood(req, ic.kv) /\ \A s \in Slots : SlotGood(ic.kv, inflight, s, ic.slots[s].inputs)
  BY DEF AttentionOK, Sound
<1>6. \A s \in Slots : SlotKeys(ic.kv, s, ic.slots[s].inputs)
  BY <1>2, <1>5, StartedKeys DEF SlotGood, SlotKeys
<1>7. ASSUME NEW i \in Occupied(seqs), NEW s, s = req[seqs[i]].slot
      PROVE  Reaches(ic.kv, s, Len(ic.slots[s].inputs))
  <2>1. Reaches(ic.kv, s, Len(ic.slots[s].inputs) + Len(req[seqs[i]].pending))
    BY <1>7 DEF AttentionOK, Sound, SeqGood
  <2>2. Len(ic.slots[s].inputs) \in Nat
    BY <1>3, <1>7, LengthNat DEF CacheInv, CacheTypes, SlotTypes
  <2>3. Len(ic.slots[s].inputs) + Len(req[seqs[i]].pending) = Len(ic.slots[s].inputs)
    <3>1. Len(req[seqs[i]].pending) = 0
      BY <1>1
    <3> QED BY <2>2, <3>1
  <2> QED BY <2>1, <2>3
<1>8. CacheGood(req, seqs, ic)
  BY <1>6, <1>7 DEF CacheGood
<1> QED BY <1>1, <1>2, <1>4, <1>5, <1>8 DEF VisitGood

-----------------------------------------------------------------------------
(* A batch is placed in the cache *)

\* The batch has the m positions from n on for sequence s.
Lands(batch, s, n, m) ==
    /\ \A e \in DOMAIN batch : batch[e].slot = s => \E j \in 1 .. m : batch[e].pos = n + j - 1
    /\ \A j \in 1 .. m : \E e \in DOMAIN batch : batch[e].slot = s /\ batch[e].pos = n + j - 1

\* When the window moves on, a sequence keeps what the batch attends to.
LEMMA TrimmedGood ==
    ASSUME NEW kv, KvOK(kv), NEW r, KvOK(r), NEW batch, BatchFits(kv, batch), Trimmed(kv, r, batch),
           NEW s \in Slots, Convex(kv, s), NEW n \in Nat, NEW m \in Nat, Lands(batch, s, n, m)
    PROVE  /\ Convex(r, s)
           /\ Reaches(kv, s, n) /\ Below(kv, s, n) => Reaches(r, s, n)
<1> DEFINE low == LowestPos(kv, batch, s)
           M   == kv.memory
<1>1. /\ r.window = kv.window /\ r.memory = M /\ CellsOf(r, s) = CellsOf(kv, s) \ Gone(kv, batch, s)
      /\ \A c \in DOMAIN kv.cells : r.cells[c].pos = kv.cells[c].pos
  BY DEF Trimmed
<1>2. KvShape(kv) /\ Ranges(kv) /\ KvShape(r)
  BY DEF KvOK
<1>3. /\ M \in Nat /\ kv.window \in Nat /\ M >= kv.window /\ kv.window > 0
      /\ \A c \in CellsOf(kv, s) : c \in DOMAIN kv.cells /\ kv.cells[c].pos \in Nat
  BY <1>2, KvNumbers
<1>4. /\ low \in Nat /\ \A e \in DOMAIN batch : batch[e].slot = s => low <= batch[e].pos
      /\ \/ \E e \in DOMAIN batch : batch[e].slot = s /\ batch[e].pos = low
         \/ CellsOf(kv, s) = {}
         \/ \E c \in CellsOf(kv, s) : kv.cells[c].pos = low - 1
  BY <1>2, LowestIs
<1>5. CellsOf(r, s) = {c \in CellsOf(kv, s) : M = MaxInt \/ kv.cells[c].pos >= low - M}
  <2>1. Gone(kv, batch, s) = IF M = MaxInt THEN {} ELSE {c \in CellsOf(kv, s) : kv.cells[c].pos < low - M}
    BY DEF Gone
  <2> HIDE DEF low, M
  <2> QED BY <1>1, <1>3, <1>4, <2>1
<1> HIDE DEF low, M
<1>6. ASSUME NEW p \in Nat, M = MaxInt \/ p >= low - M, HasCell(kv, s, p) PROVE HasCell(r, s, p)
  BY <1>1, <1>3, <1>5, <1>6 DEF HasCell
<1>7. Convex(r, s)
  <2> SUFFICES ASSUME NEW a \in CellsOf(r, s), NEW b \in CellsOf(r, s), NEW p \in Nat,
                      r.cells[a].pos <= p, p <= r.cells[b].pos
               PROVE  HasCell(r, s, p)
    BY DEF Convex
  <2>1. /\ a \in CellsOf(kv, s) /\ b \in CellsOf(kv, s)
        /\ kv.cells[a].pos <= p /\ p <= kv.cells[b].pos
    BY <1>1, <1>3, <1>5
  <2>2. HasCell(kv, s, p)
    BY <2>1 DEF Convex
  <2>3. M = MaxInt \/ p >= low - M
    BY <1>3, <1>4, <1>5, <2>1
  <2> QED BY <1>6, <2>2, <2>3
<1>8. ASSUME Reaches(kv, s, n), Below(kv, s, n), n > 0 PROVE Reaches(r, s, n)
  <2>1. HasCell(kv, s, n - 1) /\ HasLow(kv, s, LowOf(kv, n))
    BY <1>8 DEF Reaches
  <2>2. low <= n
    <3>1. CASE \E e \in DOMAIN batch : batch[e].slot = s
      <4>1. PICK e \in DOMAIN batch : batch[e].slot = s
        BY <3>1
      <4>2. PICK j \in 1 .. m : batch[e].pos = n + j - 1
        BY <4>1 DEF Lands
      <4>3. 1 \in 1 .. m
        BY <4>2
      <4>4. PICK d \in DOMAIN batch : batch[d].slot = s /\ batch[d].pos = n + 1 - 1
        BY <4>3 DEF Lands
      <4>5. low <= batch[d].pos
        BY <1>4, <4>4
      <4> QED BY <1>4, <4>4, <4>5
    <3>2. CASE ~\E e \in DOMAIN batch : batch[e].slot = s
      <4>1. CellsOf(kv, s) # {}
        BY <2>1 DEF HasCell
      <4>2. PICK c \in CellsOf(kv, s) : kv.cells[c].pos = low - 1
        BY <1>4, <3>2, <4>1
      <4>3. kv.cells[c].pos < n
        BY <1>8 DEF Below
      <4> QED BY <1>3, <1>4, <4>2, <4>3
    <3> QED BY <3>1, <3>2
  <2>3. LowOf(r, n) = LowOf(kv, n) /\ LowOf(kv, n) \in Nat /\ LowOf(kv, n) <= n - 1
    <3>1. LowOf(r, n) = LowOf(kv, n)
      BY <1>1 DEF LowOf, M
    <3> QED BY <1>2, <1>8, <3>1, LowGrows
  <2>4. M # MaxInt => LowOf(kv, n) >= low - M
    BY <1>3, <1>4, <2>2 DEF LowOf, M
  <2>5. HasCell(kv, s, LowOf(kv, n))
    <3>1. PICK a \in CellsOf(kv, s) : kv.cells[a].pos <= LowOf(kv, n)
      BY <2>1 DEF HasLow
    <3>2. PICK b \in CellsOf(kv, s) : kv.cells[b].pos = n - 1
      BY <2>1 DEF HasCell
    <3> QED BY <2>3, <3>1, <3>2 DEF Convex
  <2>6. HasCell(r, s, LowOf(kv, n))
    BY <1>6, <2>3, <2>4, <2>5
  <2>7. HasLow(r, s, LowOf(r, n))
    BY <2>3, <2>6 DEF HasCell, HasLow
  <2>8. HasCell(r, s, n - 1)
    <3>1. n - 1 \in Nat /\ (M = MaxInt \/ n - 1 >= low - M)
      BY <1>3, <1>4, <1>8, <2>3, <2>4
    <3> QED BY <1>6, <2>1, <3>1
  <2> QED BY <2>7, <2>8 DEF Reaches
<1>9. Reaches(kv, s, n) /\ Below(kv, s, n) => Reaches(r, s, n)
  BY <1>8 DEF Reaches
<1> QED BY <1>7, <1>9

\* The entries of a sequence continue it.
LEMMA PlacedSeq ==
    ASSUME NEW kv, KvOK(kv), NEW r, KvOK(r), NEW batch, NEW loc, PutAt(kv, r, batch, loc),
           NEW s \in Slots, NEW n \in Nat, NEW m \in Nat, Lands(batch, s, n, m),
           Convex(kv, s), Reaches(kv, s, n), Below(kv, s, n)
    PROVE  /\ Convex(r, s) /\ Reaches(r, s, n + m)
           /\ \A e \in DOMAIN batch : batch[e].slot = s => HasLow(r, s, LowOf(r, batch[e].pos))
<1>1. /\ r.window = kv.window /\ r.memory = kv.memory
      /\ \A e \in DOMAIN batch : r.cells[loc[e]].pos = batch[e].pos
      /\ CellsOf(r, s) = CellsOf(kv, s) \cup {loc[e] : e \in {j \in DOMAIN batch : batch[j].slot = s}}
      /\ \A c \in CellsOf(kv, s) : r.cells[c].pos = kv.cells[c].pos
  BY DEF PutAt
<1>2. KvShape(kv) /\ KvShape(r) /\ \A c \in CellsOf(r, s) : r.cells[c].pos \in Nat
  BY KvNumbers DEF KvOK
<1>3. ASSUME NEW c \in CellsOf(r, s), r.cells[c].pos < n PROVE c \in CellsOf(kv, s)
  <2> SUFFICES ASSUME c \notin CellsOf(kv, s) PROVE FALSE
    OBVIOUS
  <2>1. PICK e \in DOMAIN batch : batch[e].slot = s /\ c = loc[e]
    BY <1>1
  <2>2. PICK j \in 1 .. m : batch[e].pos = n + j - 1
    BY <2>1 DEF Lands
  <2>3. r.cells[c].pos = n + j - 1
    BY <1>1, <2>1, <2>2
  <2> QED BY <1>3, <2>3
<1>4. ASSUME NEW c \in CellsOf(r, s), r.cells[c].pos >= n
      PROVE  \E j \in 1 .. m : r.cells[c].pos = n + j - 1
  <2>1. c \notin CellsOf(kv, s)
    <3> SUFFICES ASSUME c \in CellsOf(kv, s) PROVE FALSE
      OBVIOUS
    <3>1. r.cells[c].pos < n
      BY <1>1 DEF Below
    <3> QED BY <1>2, <1>4, <3>1
  <2>2. PICK e \in DOMAIN batch : batch[e].slot = s /\ c = loc[e]
    BY <1>1, <2>1
  <2>3. PICK j \in 1 .. m : batch[e].pos = n + j - 1
    BY <2>2 DEF Lands
  <2>4. r.cells[c].pos = batch[e].pos
    BY <1>1, <2>2
  <2> QED BY <2>3, <2>4
<1>5. ASSUME NEW p \in Nat, HasCell(kv, s, p) PROVE HasCell(r, s, p)
  BY <1>1, <1>5 DEF HasCell
<1>6. ASSUME NEW j \in 1 .. m PROVE HasCell(r, s, n + j - 1)
  <2>1. PICK e \in DOMAIN batch : batch[e].slot = s /\ batch[e].pos = n + j - 1
    BY DEF Lands
  <2>2. loc[e] \in CellsOf(r, s) /\ r.cells[loc[e]].pos = n + j - 1
    BY <1>1, <2>1
  <2> QED BY <2>2 DEF HasCell
<1>7. Convex(r, s)
  <2> SUFFICES ASSUME NEW a \in CellsOf(r, s), NEW b \in CellsOf(r, s), NEW p \in Nat,
                      r.cells[a].pos <= p, p <= r.cells[b].pos
               PROVE  HasCell(r, s, p)
    BY DEF Convex
  <2>1. r.cells[a].pos \in Nat /\ r.cells[b].pos \in Nat
    BY <1>2
  <2>2. CASE p < n
    <3>1. a \in CellsOf(kv, s)
      BY <1>3, <2>1, <2>2
    <3>2. kv.cells[a].pos <= p
      BY <1>1, <3>1
    <3>3. HasCell(kv, s, n - 1)
      BY <2>2 DEF Reaches
    <3>4. PICK d \in CellsOf(kv, s) : kv.cells[d].pos = n - 1
      BY <3>3 DEF HasCell
    <3>5. p <= kv.cells[d].pos
      BY <2>2, <3>4
    <3>6. HasCell(kv, s, p)
      BY <3>1, <3>2, <3>4, <3>5 DEF Convex
    <3> QED BY <1>5, <3>6
  <2>3. CASE p >= n
    <3>1. r.cells[b].pos >= n
      BY <2>1, <2>3
    <3>2. PICK j \in 1 .. m : r.cells[b].pos = n + j - 1
      BY <1>4, <3>1
    <3>3. p - n + 1 \in 1 .. m /\ n + (p - n + 1) - 1 = p
      BY <2>1, <2>3, <3>2
    <3>4. HasCell(r, s, n + (p - n + 1) - 1)
      BY <1>6, <3>3
    <3> QED BY <3>3, <3>4
  <2> QED BY <2>2, <2>3
<1>8. ASSUME NEW l \in Nat, n <= l, n > 0 \/ m > 0 PROVE HasLow(r, s, LowOf(r, l))
  <2>1. LowOf(r, n) \in Nat /\ LowOf(r, l) \in Nat /\ LowOf(r, n) <= LowOf(r, l)
    BY <1>2, <1>8, LowGrows
  <2>2. CASE n > 0
    <3>1. LowOf(r, n) = LowOf(kv, n)
      BY <1>1 DEF LowOf
    <3>2. PICK c \in CellsOf(kv, s) : kv.cells[c].pos <= LowOf(kv, n)
      BY <2>2 DEF Reaches, HasLow
    <3>3. c \in CellsOf(r, s) /\ r.cells[c].pos <= LowOf(r, n) /\ r.cells[c].pos \in Nat
      BY <1>1, <1>2, <3>1, <3>2
    <3>4. r.cells[c].pos <= LowOf(r, l)
      BY <2>1, <3>3
    <3> QED BY <3>3, <3>4 DEF HasLow
  <2>3. CASE n = 0
    <3>1. 1 \in 1 .. m /\ n + 1 - 1 = 0
      BY <1>8, <2>3
    <3>2. HasCell(r, s, 0)
      BY <1>6, <3>1
    <3>3. PICK c \in CellsOf(r, s) : r.cells[c].pos = 0
      BY <3>2 DEF HasCell
    <3>4. r.cells[c].pos <= LowOf(r, l)
      BY <2>1, <3>3
    <3> QED BY <3>4 DEF HasLow
  <2> QED BY <2>2, <2>3
<1>9. Reaches(r, s, n + m)
  <2> SUFFICES ASSUME n + m > 0 PROVE HasCell(r, s, n + m - 1) /\ HasLow(r, s, LowOf(r, n + m))
    BY DEF Reaches
  <2>1. n + m \in Nat /\ n <= n + m /\ (n > 0 \/ m > 0)
    OBVIOUS
  <2>2. CASE m > 0
    <3>1. m \in 1 .. m
      BY <2>2
    <3> QED BY <1>6, <1>8, <2>1, <3>1
  <2>3. CASE m = 0
    <3>1. n + m = n /\ n > 0 /\ n - 1 \in Nat
      BY <2>3
    <3>2. HasCell(kv, s, n - 1)
      BY <3>1 DEF Reaches
    <3>3. HasCell(r, s, n - 1)
      BY <1>5, <3>1, <3>2
    <3> QED BY <1>8, <2>1, <3>1, <3>3
  <2> QED BY <2>2, <2>3
<1>10. ASSUME NEW e \in DOMAIN batch, batch[e].slot = s PROVE HasLow(r, s, LowOf(r, batch[e].pos))
  <2>1. PICK j \in 1 .. m : batch[e].pos = n + j - 1
    BY <1>10 DEF Lands
  <2>2. batch[e].pos \in Nat /\ n <= batch[e].pos /\ m > 0
    BY <2>1
  <2> QED BY <1>8, <2>2
<1> QED BY <1>7, <1>9, <1>10

\* A slot records what it did: the batch writes to other cells, for positions
\* that come after.
LEMMA PlacedSlot ==
    ASSUME NEW kv, KvOK(kv), NEW k1, KvOK(k1), NEW r, KvOK(r), NEW batch, NEW loc,
           Trimmed(kv, k1, batch), PutAt(k1, r, batch, loc),
           NEW fl, \A k \in DOMAIN fl : \/ fl[k].stage = "started"
                                        \/ fl[k].stage = "ready" /\ fl[k].entries = batch /\ fl[k].loc = loc,
           NEW s \in Slots, NEW x, Len(x) \in Nat, NEW m \in Nat, Lands(batch, s, Len(x), m),
           SlotKeys(kv, s, x), Convex(r, s)
    PROVE  SlotGood(r, fl, s, x)
<1>1. /\ r.window = kv.window /\ r.memory = kv.memory /\ r.data = kv.data
      /\ CellsOf(k1, s) \subseteq CellsOf(kv, s)
      /\ kv.memory = MaxInt => CellsOf(k1, s) = CellsOf(kv, s)
      /\ \A c \in CellsOf(kv, s) : k1.cells[c].pos = kv.cells[c].pos
  BY DEF Trimmed, PutAt, Gone, CellsOf
<1>2. /\ \A e \in DOMAIN batch : r.cells[loc[e]].pos = batch[e].pos /\ loc[e] \notin CellsOf(k1, s)
      /\ CellsOf(r, s) = CellsOf(k1, s) \cup {loc[e] : e \in {j \in DOMAIN batch : batch[j].slot = s}}
      /\ \A c \in CellsOf(k1, s) : r.cells[c].pos = k1.cells[c].pos
  BY DEF PutAt
<1>3. \A c \in CellsOf(k1, s) : c \in CellsOf(kv, s) /\ c \in CellsOf(r, s) /\ r.cells[c].pos = kv.cells[c].pos
  BY <1>1, <1>2
<1>4. ASSUME NEW c \in CellsOf(r, s), r.cells[c].pos < Len(x) PROVE c \in CellsOf(k1, s)
  <2> SUFFICES ASSUME c \notin CellsOf(k1, s) PROVE FALSE
    OBVIOUS
  <2>1. PICK e \in DOMAIN batch : batch[e].slot = s /\ c = loc[e]
    BY <1>2
  <2>2. PICK j \in 1 .. m : batch[e].pos = Len(x) + j - 1
    BY <2>1 DEF Lands
  <2>3. r.cells[c].pos = Len(x) + j - 1
    BY <1>2, <2>1, <2>2
  <2> QED BY <1>4, <2>3
<1>5. Records(r, fl, s, x)
  <2> SUFFICES ASSUME NEW c \in CellsOf(r, s), r.cells[c].pos < Len(x),
                      NEW p, p = r.cells[c].pos, NEW t, t = x[p + 1].token
               PROVE  Settled(fl, c) /\ Holds(r, fl, c, t, p)
    BY DEF Records
  <2>1. c \in CellsOf(k1, s)
    BY <1>4
  <2>2. c \in CellsOf(kv, s) /\ r.cells[c].pos = kv.cells[c].pos
    BY <1>3, <2>1
  <2>3. kv.data[c].token = t /\ kv.data[c].pos = p
    BY <2>2 DEF SlotKeys, Keys
  <2>4. \A e \in DOMAIN batch : loc[e] # c
    BY <1>2, <2>1
  <2>5. Settled(fl, c)
    BY <2>4 DEF Settled, Writes
  <2>6. \A k \in DOMAIN fl : fl[k].stage # "gathered"
    OBVIOUS
  <2> QED BY <1>1, <2>3, <2>5, <2>6 DEF Holds
<1>6. Whole(r, s, Len(x))
  <2> SUFFICES ASSUME kv.memory = MaxInt, Len(x) > 0
               PROVE  HasCell(r, s, 0) /\ \E c \in CellsOf(r, s) : r.cells[c].pos >= Len(x) - 1
    BY <1>1 DEF Whole
  <2>1. HasCell(kv, s, 0) /\ \E c \in CellsOf(kv, s) : kv.cells[c].pos >= Len(x) - 1
    BY DEF SlotKeys, Whole
  <2>2. \A c \in CellsOf(kv, s) : c \in CellsOf(r, s) /\ r.cells[c].pos = kv.cells[c].pos
    BY <1>1, <1>3
  <2> QED BY <2>1, <2>2 DEF HasCell
<1> QED BY <1>5, <1>6 DEF SlotGood, SlotKeys

\* A slot that nobody uses has nothing in the batch.
LEMMA FreeLands ==
    ASSUME NEW w, NEW U, VisitCache(w, U), NEW s, \A i \in Occupied(w.seqs) : w.req[w.seqs[i]].slot # s
    PROVE  \A n : Lands(w.entries, s, n, 0)
<1>1. ASSUME NEW e \in DOMAIN w.entries PROVE w.entries[e].slot # s
  <2>1. PICK i \in Occupied(w.seqs) : EntryOf(w, i, w.entries[e])
    BY DEF VisitCache
  <2> QED BY <2>1 DEF EntryOf
<1>2. 1 .. 0 = {}
  OBVIOUS
<1> QED BY <1>1, <1>2 DEF Lands

\* What is taken of a sequence is what the batch has for its slot.
LEMMA SeqLands ==
    ASSUME NEW w, VisitInv(w), NEW U, VisitCache(w, U), NEW i \in Occupied(w.seqs),
           NEW q, q = w.seqs[i], NEW s, s = w.req[q].slot, NEW x, x = w.ic.slots[s].inputs,
           NEW y, y = w.req[q].pending
    PROVE  /\ Lands(w.entries, s, Len(x), Len(y))
           /\ \A e \in DOMAIN w.entries : w.entries[e].slot = s \/ w.entries[e].q = q =>
                EntryOf(w, i, w.entries[e])
<1>1. \A j \in Occupied(w.seqs) \ {i} : w.seqs[j] # q /\ w.req[w.seqs[j]].slot # s
  BY DEF VisitInv, Acc, Owners
<1>2. ASSUME NEW e \in DOMAIN w.entries, w.entries[e].slot = s \/ w.entries[e].q = q
      PROVE  EntryOf(w, i, w.entries[e])
  <2>1. PICK j \in Occupied(w.seqs) : EntryOf(w, j, w.entries[e])
    BY DEF VisitCache
  <2>2. w.entries[e].q = w.seqs[j] /\ w.entries[e].slot = w.req[w.seqs[j]].slot
    BY <2>1 DEF EntryOf
  <2>3. j = i
    BY <1>1, <1>2, <2>2
  <2> QED BY <2>1, <2>3
<1>3. ASSUME NEW e \in DOMAIN w.entries, w.entries[e].slot = s
      PROVE  \E j \in 1 .. Len(y) : w.entries[e].pos = Len(x) + j - 1
  BY <1>2, <1>3 DEF EntryOf
<1>4. ASSUME NEW j \in 1 .. Len(y)
      PROVE  \E e \in DOMAIN w.entries : w.entries[e].slot = s /\ w.entries[e].pos = Len(x) + j - 1
  <2>1. HasRoom(w, i)
    BY DEF VisitCache
  <2>2. PICK e \in DOMAIN w.entries : w.entries[e].q = q /\ w.entries[e].pos = Len(x) + j - 1
    BY <2>1 DEF HasRoom
  <2>3. w.entries[e].slot = s
    BY <1>2, <2>2 DEF EntryOf
  <2> QED BY <2>2, <2>3
<1> QED BY <1>2, <1>3, <1>4 DEF Lands

\* The entries of a sequence in a batch that was placed.
LEMMA PlacedEntries ==
    ASSUME NEW w, VisitInv(w), NEW U, VisitCache(w, U), NEW k1, NEW f,
           Prepared(w.ic.kv, k1, f, w.entries), NEW b, b.stage = "ready", b.entries = w.entries,
           b.loc = f.loc, b.mask = f.mask, NEW i \in Occupied(w.seqs),
           NEW q, q = w.seqs[i], NEW s, s = w.req[q].slot, s \in Slots,
           NEW x, x = w.ic.slots[s].inputs, NEW y, y = w.req[q].pending, DOMAIN y = 1 .. Len(y),
           \A e \in DOMAIN w.entries : w.entries[e].slot = s => HasLow(f.kv, s, LowOf(f.kv, w.entries[e].pos))
    PROVE  Entries(f.kv, b, q, s, x, y)
<1>1. ASSUME NEW e \in DOMAIN w.entries, w.entries[e].q = q
      PROVE  /\ w.entries[e].slot = s
             /\ \E j \in DOMAIN y : w.entries[e].pos = Len(x) + j - 1 /\ w.entries[e].input = y[j]
  <2>1. EntryOf(w, i, w.entries[e])
    BY <1>1, SeqLands
  <2> QED BY <2>1 DEF EntryOf
<1>2. ASSUME NEW j \in DOMAIN y
      PROVE  \E e \in DOMAIN w.entries : w.entries[e].q = q /\ w.entries[e].pos = Len(x) + j - 1
  <2>1. HasRoom(w, i)
    BY DEF VisitCache
  <2> QED BY <2>1 DEF HasRoom
<1>3. ASSUME NEW e \in DOMAIN w.entries, w.entries[e].q = q PROVE Stands(f.kv, b, e, s)
  <2>1. w.entries[e].slot = s
    BY <1>1, <1>3
  <2>2. /\ f.loc[e] \in CellsOf(f.kv, s) /\ f.kv.cells[f.loc[e]].pos = w.entries[e].pos
        /\ f.mask[e] = Seen(f.kv, w.entries[e])
    BY <2>1 DEF Prepared, PutAt
  <2> QED BY <2>1, <2>2 DEF Stands
<1>4. b.stage # "gathered"
  OBVIOUS
<1>5. ASSUME NEW e \in DOMAIN b.entries, b.entries[e].q = q
      PROVE  /\ Stands(f.kv, b, e, s)
             /\ \E j \in DOMAIN y : b.entries[e].pos = Len(x) + j - 1 /\ b.entries[e].input = y[j]
  BY <1>1, <1>3, <1>5, ZenonT(40)
<1>6. \A j \in DOMAIN y : \E e \in DOMAIN b.entries :
        b.entries[e].q = q /\ b.entries[e].pos = Len(x) + j - 1
  BY <1>2
<1> QED BY ONLY <1>4, <1>5, <1>6 DEF Entries

\* The batches go on being for requests that streamed.
LEMMA StreamedBatches ==
    ASSUME NEW rq, NEW r, NEW fl, BatchesGood(rq, fl), \A q \in Requests : Streamed(rq, q) => Streamed(r, q)
    PROVE  BatchesGood(r, fl)
BY DEF BatchesGood, FromStreams, Streamed

\* What holds of the slots when the loop has found nothing.
LEMMA NoBatchSound ==
    ASSUME NEW w, VisitInv(w), NEW U, VisitCache(w, U), VisitGood(w), w.entries = <<>>,
           NEW fl, AllStarted(fl), BatchesGood(w.req, fl)
    PROVE  Sound(w.req, w.seqs, w.ic, fl)
<1>1. ASSUME NEW s \in Slots PROVE SlotGood(w.ic.kv, fl, s, w.ic.slots[s].inputs)
  BY StartedKeys DEF VisitGood, CacheGood, SlotKeys, SlotGood
<1>2. ASSUME NEW i \in Occupied(w.seqs) PROVE SeqGood(w.req, w.seqs, w.ic, fl, i)
  <2> DEFINE q == w.seqs[i]
             s == w.req[q].slot
             x == w.ic.slots[s].inputs
             y == w.req[q].pending
  <2>1. q \in Requests /\ s \in Slots
    BY DEF VisitInv, Acc, Owners, Occupied
  <2>2. x \in Seq(InputType) /\ y \in Seq(InputType)
    BY <2>1 DEF VisitCache, SlotTypes, ReqTypes
  <2>3. Len(x) \in Nat /\ Len(y) \in Nat
    BY <2>2, LengthNat
  <2>4. \A j \in 1 .. Len(y) : \E e \in DOMAIN w.entries : w.entries[e].q = q
    BY DEF VisitCache, HasRoom
  <2>5. Reaches(w.ic.kv, s, Len(x))
    BY DEF VisitGood, CacheGood
  <2> HIDE DEF x, y, q, s
  <2>6. Len(y) = 0
    <3> SUFFICES ASSUME Len(y) # 0 PROVE FALSE
      OBVIOUS
    <3>1. 1 \in 1 .. Len(y)
      BY <2>3
    <3>2. DOMAIN w.entries = {}
      OBVIOUS
    <3> QED BY <2>4, <3>1, <3>2
  <2>7. Len(x) + Len(y) = Len(x)
    BY <2>3, <2>6
  <2>8. Reaches(w.ic.kv, s, Len(x) + Len(y))
    BY <2>5, <2>7
  <2> QED BY <2>8 DEF SeqGood, AllStarted, q, s, x, y
<1>3. ReqGood(w.req, w.ic.kv)
  BY DEF VisitGood
<1> QED BY <1>1, <1>2, <1>3 DEF Sound

\* What holds when it has placed a batch.
LEMMA BatchSound ==
    ASSUME NEW w, VisitInv(w), VisitLogits(w), NEW U, VisitCache(w, U), VisitGood(w), Len(w.entries) >= 1,
           NEW k1, NEW f, Prepared(w.ic.kv, k1, f, w.entries),
           NEW c, c.kv = f.kv, c.slots = w.ic.slots,
           NEW fl, NEW b, b.stage = "ready", b.entries = w.entries, b.loc = f.loc, b.mask = f.mask,
           b.seqs = w.snapshot,
           \A k \in DOMAIN fl : fl[k] = b \/ (fl[k].stage = "started" /\ FromStreams(w.req, fl[k]) /\ LocOnce(fl[k]))
    PROVE  Sound(w.req, w.seqs, c, fl)
<1> DEFINE kv == w.ic.kv
           E  == w.entries
<1>1. /\ f.full = FALSE /\ KvOK(k1) /\ KvOK(f.kv) /\ Trimmed(kv, k1, E) /\ PutAt(k1, f.kv, E, f.loc)
      /\ DOMAIN f.mask = DOMAIN E /\ KvOK(kv) /\ SlotTypes(w.ic) /\ ReqTypes(w.req)
  BY DEF Prepared, VisitCache
<1>2. BatchFits(kv, E)
  BY EntriesFit
<1>3. f.kv.window = kv.window /\ f.kv.memory = kv.memory
  BY <1>1 DEF Trimmed, PutAt
<1>4. \A i \in Occupied(w.seqs) : w.seqs[i] \in Requests /\ w.req[w.seqs[i]].slot \in Slots
  BY DEF VisitInv, Acc, Owners, Occupied
<1>5. ReqGood(w.req, c.kv)
  BY <1>3 DEF VisitGood, ReqGood, KeepFits
<1>6. BatchesGood(w.req, fl)
  <2>1. LocOnce(b)
    BY <1>1 DEF PutAt, LocOnce
  <2>2. ASSUME NEW e \in DOMAIN b.entries PROVE b.entries[e].q \in Requests
    <3>1. PICK i \in Occupied(w.seqs) : EntryOf(w, i, w.entries[e])
      BY DEF VisitCache
    <3> QED BY <1>4, <3>1 DEF EntryOf
  <2>3. FromStreams(w.req, b)
    BY <2>2 DEF FromStreams, VisitGood, Streamed
  <2> QED BY <2>1, <2>3 DEF BatchesGood
<1>7. ASSUME NEW s \in Slots PROVE SlotKeys(kv, s, c.slots[s].inputs) /\ Len(c.slots[s].inputs) \in Nat
  BY <1>1, LengthNat DEF VisitGood, CacheGood, SlotTypes
<1>8. \A k \in DOMAIN fl : \/ fl[k].stage = "started"
                           \/ fl[k].stage = "ready" /\ fl[k].entries = E /\ fl[k].loc = f.loc
  OBVIOUS
<1>9. ASSUME NEW i \in Occupied(w.seqs), NEW q, q = w.seqs[i], NEW s, s = w.req[q].slot,
             NEW x, x = w.ic.slots[s].inputs, NEW y, y = w.req[q].pending
      PROVE  /\ s \in Slots /\ Len(x) \in Nat /\ Len(y) \in Nat /\ DOMAIN y = 1 .. Len(y)
             /\ Lands(E, s, Len(x), Len(y)) /\ Convex(f.kv, s) /\ Reaches(f.kv, s, Len(x) + Len(y))
             /\ \A e \in DOMAIN E : E[e].slot = s => HasLow(f.kv, s, LowOf(f.kv, E[e].pos))
  <2>1. q \in Requests /\ s \in Slots
    BY <1>4, <1>9
  <2>2. x \in Seq(InputType) /\ y \in Seq(InputType)
    BY <1>1, <1>9, <2>1 DEF SlotTypes, ReqTypes
  <2>3. Len(x) \in Nat /\ Len(y) \in Nat /\ DOMAIN y = 1 .. Len(y)
    BY <2>2, LengthNat
  <2>4. Lands(E, s, Len(x), Len(y))
    BY <1>9, SeqLands
  <2>5. Convex(kv, s) /\ Reaches(kv, s, Len(x))
    BY <1>9, <2>1 DEF VisitGood, CacheGood, SlotKeys
  <2>6. Below(kv, s, Len(x))
    BY <1>9 DEF VisitCache, HasRoom
  <2>7. Convex(k1, s) /\ Reaches(k1, s, Len(x))
    BY <1>1, <1>2, <2>1, <2>3, <2>4, <2>5, <2>6, TrimmedGood
  <2>8. Below(k1, s, Len(x))
    BY <1>1, <2>1, <2>6 DEF Below, Trimmed, CellsOf
  <2> QED BY <1>1, <2>1, <2>3, <2>4, <2>7, <2>8, PlacedSeq
<1>10. ASSUME NEW s \in Slots PROVE SlotGood(c.kv, fl, s, c.slots[s].inputs)
  <2> DEFINE x == c.slots[s].inputs
  <2>1. SlotKeys(kv, s, x) /\ Len(x) \in Nat
    BY <1>7
  <2>2. CASE \E i \in Occupied(w.seqs) : w.req[w.seqs[i]].slot = s
    <3>1. PICK i \in Occupied(w.seqs) : w.req[w.seqs[i]].slot = s
      BY <2>2
    <3>2. PICK m \in Nat : Lands(E, s, Len(x), m)
      BY <1>9, <3>1
    <3>3. Convex(f.kv, s)
      BY <1>9, <3>1
    <3> HIDE DEF x, E, kv
    <3>4. SlotGood(f.kv, fl, s, x)
      BY <1>1, <1>8, <2>1, <3>2, <3>3, PlacedSlot, ZenonT(40)
    <3> QED BY <3>4 DEF x
  <2>3. CASE ~\E i \in Occupied(w.seqs) : w.req[w.seqs[i]].slot = s
    <3>1. Lands(E, s, Len(x), 0)
      BY <2>3, FreeLands
    <3>2. Convex(k1, s)
      <4>1. Convex(kv, s) /\ 0 \in Nat
        BY <2>1 DEF SlotKeys
      <4> HIDE DEF x, E, kv
      <4> QED BY <1>1, <1>2, <2>1, <3>1, <4>1, TrimmedGood
    <3>3. Convex(f.kv, s)
      <4>1. \A e \in DOMAIN E : E[e].slot # s
        BY <3>1 DEF Lands
      <4>2. CellsOf(f.kv, s) = CellsOf(k1, s) /\ \A d \in CellsOf(k1, s) : f.kv.cells[d].pos = k1.cells[d].pos
        <5> HIDE DEF E
        <5>1. /\ CellsOf(f.kv, s) = CellsOf(k1, s)
                                       \cup {f.loc[e] : e \in {j \in DOMAIN E : E[j].slot = s}}
              /\ \A d \in CellsOf(k1, s) : f.kv.cells[d].pos = k1.cells[d].pos
          BY <1>1 DEF PutAt
        <5>2. {j \in DOMAIN E : E[j].slot = s} = {}
          BY <4>1
        <5> QED BY <5>1, <5>2
      <4> QED BY <3>2, <4>2 DEF Convex, HasCell
    <3> HIDE DEF x, E, kv
    <3>4. SlotGood(f.kv, fl, s, x)
      BY <1>1, <1>8, <2>1, <3>1, <3>3, PlacedSlot, ZenonT(40)
    <3> QED BY <3>4 DEF x
  <2> QED BY <2>2, <2>3
<1>11. ASSUME NEW i \in Occupied(w.seqs) PROVE SeqGood(w.req, w.seqs, c, fl, i)
  <2> DEFINE q == w.seqs[i]
             s == w.req[q].slot
             x == w.ic.slots[s].inputs
             y == w.req[q].pending
  <2>1. /\ s \in Slots /\ DOMAIN y = 1 .. Len(y) /\ Reaches(f.kv, s, Len(x) + Len(y))
        /\ \A e \in DOMAIN w.entries : w.entries[e].slot = s => HasLow(f.kv, s, LowOf(f.kv, w.entries[e].pos))
    BY <1>9
  <2>2. q = w.seqs[i] /\ s = w.req[q].slot /\ x = w.ic.slots[s].inputs /\ y = w.req[q].pending
    OBVIOUS
  <2> HIDE DEF q, s, x, y
  <2>3. Entries(f.kv, b, q, s, x, y)
    BY <2>1, <2>2, PlacedEntries
  <2>4. ASSUME NEW k \in DOMAIN fl, fl[k].stage # "started" PROVE fl[k] = b
    BY <2>4
  <2> QED BY <2>1, <2>3, <2>4 DEF SeqGood, q, s, x, y
<1> QED BY <1>5, <1>6, <1>10, <1>11 DEF Sound

\* forwardBatch.
LEMMA ForwardAttention ==
    ASSUME SlotInv, LogitsInv, CacheInv, AttentionInv, ForwardBatch
    PROVE  AttentionInv'
<1>1. PICK w0 : /\ Begins(w0) /\ Forwards(Visited(w0)[NumSlots])
                /\ \/ NoBatch(Visited(w0)[NumSlots])
                   \/ \E f, k1 : Batched(Visited(w0)[NumSlots], f, k1)
  BY ForwardStepIs
<1> DEFINE w == Visited(w0)[NumSlots]
<1>2. /\ VisitInv(w) /\ VisitLogits(w) /\ VisitCache(w, {})
      /\ req' = w.req /\ seqs' = w.seqs /\ UNCHANGED unresolved
  BY <1>1 DEF Forwards
<1> SUFFICES ASSUME ~unresolved PROVE AttentionOK'
  BY <1>2 DEF AttentionInv
<1>3. AttentionOK
  BY DEF AttentionInv
<1>4. VisitGood(w0) /\ AllStarted(inflight)
  BY <1>1, <1>3, BeginsGood
<1>5. VisitGood(w)
  BY <1>1, <1>4, RoundsGood DEF Begins, LogitsInv
<1>6. NoBatch(w) \/ \E f, k1 : Batched(w, f, k1)
  BY <1>1
<1> HIDE DEF w
<1>7. BatchesGood(w.req, inflight)
  BY <1>3, <1>5, StreamedBatches DEF AttentionOK, Sound, VisitGood
<1>8. CASE NoBatch(w)
  <2>1. w.entries = <<>> /\ ic' = w.ic /\ inflight' = inflight
    BY <1>8 DEF NoBatch
  <2>2. Sound(w.req, w.seqs, w.ic, inflight)
    BY <1>2, <1>4, <1>5, <1>7, <2>1, NoBatchSound
  <2> QED BY <1>2, <2>1, <2>2 DEF AttentionOK
<1>9. ASSUME NEW f, NEW k1, Batched(w, f, k1) PROVE AttentionOK'
  <2> DEFINE b == NewBatch(w, f)
  <2>1. /\ Len(w.entries) \in 1 .. BatchSize /\ Prepared(w.ic.kv, k1, f, w.entries)
        /\ ic'.kv = f.kv /\ ic'.slots = w.ic.slots /\ inflight' = Append(inflight, b)
    BY <1>9 DEF Batched
  <2>2. Len(w.entries) >= 1
    BY <2>1, CacheConstants
  <2>3. /\ b.stage = "ready" /\ b.entries = w.entries /\ b.loc = f.loc /\ b.mask = f.mask
        /\ b.seqs = w.snapshot
    BY NewBatchIs
  <2> HIDE DEF b
  <2>4. \A k \in DOMAIN inflight' : inflight'[k] = b \/ (k \in DOMAIN inflight /\ inflight'[k] = inflight[k])
    BY <2>1, Appended DEF LogitsInv
  <2>5. \A k \in DOMAIN inflight' : \/ inflight'[k] = b
                                    \/ /\ inflight'[k].stage = "started"
                                       /\ FromStreams(w.req, inflight'[k]) /\ LocOnce(inflight'[k])
    BY <1>4, <1>7, <2>4 DEF AllStarted, BatchesGood
  <2>6. Sound(w.req, w.seqs, ic', inflight')
    <3> DEFINE c  == ic'
               fl == inflight'
    <3>1. c.kv = f.kv /\ c.slots = w.ic.slots /\ Prepared(w.ic.kv, k1, f, w.entries)
      BY <2>1
    <3>2. \A k \in DOMAIN fl : fl[k] = b \/ (fl[k].stage = "started" /\ FromStreams(w.req, fl[k]) /\ LocOnce(fl[k]))
      BY <2>5
    <3> HIDE DEF c, fl
    <3>3. Sound(w.req, w.seqs, c, fl)
      BY <1>2, <1>5, <2>2, <2>3, <3>1, <3>2, BatchSound, ZenonT(40)
    <3> QED BY <3>3 DEF c, fl
  <2> QED BY <1>2, <2>6 DEF AttentionOK
<1> QED BY <1>6, <1>8, <1>9

-----------------------------------------------------------------------------
(* The theorem *)

\* The invariant is inductive, together with those of the slots, the batches and
\* the cells.
LEMMA AttentionNext ==
    ASSUME KeptOutOfWindow
    PROVE  SlotInv /\ LogitsInv /\ CacheInv /\ AttentionInv /\ [Next]_vars => AttentionInv'
<1> SUFFICES ASSUME SlotInv, LogitsInv, CacheInv, AttentionInv, [Next]_vars PROVE AttentionInv'
  OBVIOUS
<1>1. ASSUME NEW q \in Requests, Submit(q) PROVE AttentionInv'
  BY <1>1, SubmitAttention
<1>2. ASSUME NEW q \in Requests, Acquire(q) PROVE AttentionInv'
  BY <1>2, AcquireAttention
<1>3. ASSUME NEW q \in Requests, Load(q) PROVE AttentionInv'
  BY <1>3, LoadAttention
<1>4. ASSUME NEW q \in Requests, ClientGone(q) PROVE AttentionInv'
  BY <1>4, GoneAttention
<1>5. CASE ForwardBatch
  BY <1>5, ForwardAttention
<1>6. ASSUME NEW k, GatherInputs(k) PROVE AttentionInv'
  BY <1>6, GatherAttention
<1>7. ASSUME NEW k, Compute(k) PROVE AttentionInv'
  BY <1>7, ComputeAttention
<1>8. ASSUME NEW k, Decode(k) PROVE AttentionInv'
  BY <1>8, DecodeAttention
<1>9. CASE UNCHANGED vars
  <2>1. UNCHANGED <<ic, inflight, seqs, unresolved, req>>
    BY <1>9 DEF vars
  <2> QED BY <2>1, QuietAttention
<1> QED BY <1>1, <1>2, <1>3, <1>4, <1>5, <1>6, <1>7, <1>8, <1>9 DEF Next

\* Whatever a batch computes with is what the cache slots of its sequences
\* record, each input once and at its position, as long as every token was known
\* when it was gathered and a request does not keep so much of its prompt that a
\* shift cuts into the window.  This is for any number of slots, cells, requests
\* and batches, with a window or without, for a cache that can shift and for one
\* that cannot.
THEOREM AttentionIsExact ==
    ASSUME KeptOutOfWindow
    PROVE  Spec => []AttentionExact
<1> DEFINE Inv == SlotInv /\ LogitsInv /\ CacheInv /\ AttentionInv
<1>1. Init => Inv
  BY SlotInit, LogitsInit, CacheInit, AttentionInit
<1>2. Inv /\ [Next]_vars => Inv'
  BY SlotNext, LogitsNext, CacheNext, AttentionNext
<1>3. Inv => AttentionExact
  BY ExactFromInv
<1> QED BY <1>1, <1>2, <1>3, PTL DEF Spec
=============================================================================
