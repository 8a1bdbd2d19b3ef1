---------------------------- MODULE RunnerProofs ----------------------------
(***************************************************************************)
(* Proofs about Runner: permits, entries of s.seqs and cache slots are     *)
(* accounted for, for any number of requests and slots.                    *)
(*                                                                         *)
(* forwardBatch and computeBatch loop over s.seqs, and the loops are       *)
(* functions of the number of rounds, so that the invariant is carried     *)
(* through them by induction.  It is stated of the values that a round     *)
(* passes to the next, before it is stated of the variables.               *)
(***************************************************************************)
EXTENDS Runner, TLAPS, FiniteSetTheorems, NaturalsInduction, WellFoundedInduction

-----------------------------------------------------------------------------
(* The invariant *)

IsSeq(s) == Len(s) \in Nat /\ DOMAIN s = 1 .. Len(s)

ReqShape(rq) ==
    /\ DOMAIN rq = Requests
    /\ \A q \in Requests :
        /\ DOMAIN rq[q] = {"pc", "inputs", "pending", "slot", "iBatch", "predicted", "held",
                           "quit", "limit", "keep", "shift", "reason"}
        /\ IsSeq(rq[q].inputs) /\ IsSeq(rq[q].pending)
        /\ rq[q].keep \in Int

SlotShape(slot) ==
    DOMAIN slot = {"inputs", "inUse"} /\ IsSeq(slot.inputs) /\ slot.inUse \in BOOLEAN

CacheShape(c) ==
    /\ DOMAIN c = {"kv", "slots", "used", "multi"}
    /\ DOMAIN c.slots = Slots
    /\ \A s \in Slots : SlotShape(c.slots[s])
    /\ \A s \in Slots : \E i \in 1 .. NumSlots : c.used[i] = s
    /\ DOMAIN c.used = 1 .. NumSlots

Loading(rq)  == {q \in Requests : rq[q].pc = "load"}
Occupied(sq) == {i \in Idx : sq[i] # None}

\* Every entry of s.seqs is a request that streams, with a cache slot of its own.
Owners(rq, sq) ==
    /\ sq \in [Idx -> Requests \cup {None}]
    /\ \A i \in Occupied(sq) : rq[sq[i]].pc = "stream" /\ rq[sq[i]].slot \in Slots
    /\ \A i, j \in Occupied(sq) : i # j => sq[i] # sq[j] /\ rq[sq[i]].slot # rq[sq[j]].slot

InUse(rq, sq, c) ==
    \A s \in Slots : c.slots[s].inUse <=> \E i \in Occupied(sq) : rq[sq[i]].slot = s

Permits(rq, sq, sm) ==
    /\ sm = Cardinality(Loading(rq)) + Cardinality(Occupied(sq))
    /\ sm <= NumSlots

Acc(rq, sq, sm, c) ==
    ReqShape(rq) /\ CacheShape(c) /\ Owners(rq, sq) /\ InUse(rq, sq, c) /\ Permits(rq, sq, sm)

SlotInv ==
    /\ Acc(req, seqs, sem, ic)
    /\ nextSeq \in Nat
    /\ panic \in {"no", "kv full", "stop"}

-----------------------------------------------------------------------------
(* Numbers, sequences and slots *)

\* A set of numbers with a member has a least one: the provers take induction
\* over the numbers in this form.
LEMMA Least ==
    ASSUME NEW T \in SUBSET Nat, NEW x \in T
    PROVE  \E m \in T : \A k \in T : m <= k
<1> DEFINE R == OpToRel(<, Nat)
<1>1. R = {ss \in Nat \X Nat : ss[1] < ss[2]}
  BY DEF OpToRel
<1>2. IsWellFoundedOn(R, Nat)
  BY NatLessThanWellFounded
<1> HIDE DEF R
<1>3. PICK m \in T : \A k \in T : ~ (<<k, m>> \in R)
  BY <1>2, WFMin
<1>4. ASSUME NEW k \in T PROVE m <= k
  <2>1. <<k, m>> \notin R /\ k \in Nat /\ m \in Nat
    BY <1>3
  <2>2. k < m => <<k, m>> \in R
    BY <2>1, <1>1
  <2> QED BY <2>1, <2>2
<1> QED BY <1>4

\* A set that has 0 and the successor of each of its numbers has them all.
LEMMA Induct ==
    ASSUME NEW S, 0 \in S, \A n \in Nat : n \in S => n + 1 \in S
    PROVE  Nat \subseteq S
<1> SUFFICES ASSUME NEW x \in Nat, x \notin S PROVE FALSE
  OBVIOUS
<1> DEFINE T == Nat \ S
<1>1. T \in SUBSET Nat /\ x \in T
  OBVIOUS
<1>2. PICK m \in T : \A k \in T : m <= k
  BY <1>1, Least
<1>3. m # 0 /\ m \in Nat
  OBVIOUS
<1>4. m - 1 \in Nat /\ m - 1 \notin T
  BY <1>2, <1>3
<1> QED BY <1>3, <1>4

\* The least member of a set of numbers is what Min returns.
LEMMA MinIn ==
    ASSUME NEW S \in SUBSET Nat, NEW x \in S
    PROVE  Min(S) \in S /\ \A y \in S : Min(S) <= y
<1>1. \E m \in S : \A k \in S : m <= k
  BY Least
<1> QED BY <1>1 DEF Min

\* The greatest member is what Max returns, if the members are bounded.
LEMMA MaxIn ==
    ASSUME NEW K \in Nat, NEW S \in SUBSET (0 .. K), NEW x \in S
    PROVE  Max(S) \in S /\ \A y \in S : Max(S) >= y
<1> DEFINE T == {K - y : y \in S}
<1>1. T \in SUBSET Nat /\ K - x \in T
  OBVIOUS
<1>2. PICK m \in T : \A k \in T : m <= k
  BY <1>1, Least
<1>3. PICK y \in S : m = K - y
  BY <1>2
<1>4. ASSUME NEW z \in S PROVE y >= z
  <2>1. K - z \in T /\ z \in Int /\ y \in Int
    OBVIOUS
  <2> HIDE DEF T
  <2>2. K - y <= K - z
    BY <2>1, <1>2, <1>3
  <2> QED BY <2>1, <2>2
<1> QED BY <1>4 DEF Max

\* Min of two integers is above neither.
LEMMA MinOfTwo ==
    ASSUME NEW a \in Int, NEW b \in Int
    PROVE  Min({a, b}) \in Int /\ Min({a, b}) <= a /\ Min({a, b}) <= b
<1>1. \E x \in {a, b} : \A y \in {a, b} : x <= y
  OBVIOUS
<1> QED BY <1>1 DEF Min

\* A greatest integer is an integer.
LEMMA MaxOfAny ==
    ASSUME NEW S \in SUBSET Int, \E x \in S : \A y \in S : x >= y
    PROVE  Max(S) \in Int
BY DEF Max

\* Min of three integers is none above any of them.
LEMMA MinOfThree ==
    ASSUME NEW a \in Int, NEW b \in Int, NEW c \in Int
    PROVE  /\ Min({a, b, c}) \in Int
           /\ Min({a, b, c}) <= a /\ Min({a, b, c}) <= b /\ Min({a, b, c}) <= c
<1>1. \E x \in {a, b, c} : \A y \in {a, b, c} : x <= y
  OBVIOUS
<1> QED BY <1>1 DEF Min

\* Cutting a sequence yields a sequence.
LEMMA SubIsSeq ==
    ASSUME NEW s, NEW m \in Int, NEW n \in Int
    PROVE  IsSeq(SubSeq(s, m, n))
BY DEF IsSeq

\* So does joining them.
LEMMA CatIsSeq ==
    ASSUME NEW s, NEW t, IsSeq(s), IsSeq(t)
    PROVE  IsSeq(s \o t) /\ Len(s \o t) = Len(s) + Len(t)
BY DEF IsSeq

\* A function on 1 .. n is a sequence of length n.
LEMMA FunIsSeq ==
    ASSUME NEW f, NEW n \in Int, DOMAIN f = 1 .. n
    PROVE  IsSeq(f) /\ Len(f) = IF n < 0 THEN 0 ELSE n
<1>1. Len(f) = IF n < 0 THEN 0 ELSE n
  OBVIOUS
<1> QED BY <1>1 DEF IsSeq

\* Filling in a token keeps the length.
LEMMA FilledIsSeq ==
    ASSUME NEW s, NEW p, NEW t, IsSeq(s)
    PROVE  IsSeq(Filled(s, p, t)) /\ Len(Filled(s, p, t)) = Len(s)
BY DEF IsSeq, Filled

\* There are NumSlots slots.
LEMMA SlotCount ==
    /\ IsFiniteSet(Slots) /\ Cardinality(Slots) = NumSlots
    /\ NumSlots \in Nat /\ NumSlots > 0 /\ Slots \subseteq Nat /\ None \notin Slots
<1>1. NumSlots \in Nat /\ NumSlots > 0 /\ None \notin Slots
  BY CacheConstants, RunnerConstants
<1>2. 0 \in Int /\ NumSlots - 1 \in Int /\ (0 <= NumSlots - 1)
  BY <1>1
<1>3. IsFiniteSet(0 .. NumSlots - 1) /\ Cardinality(0 .. NumSlots - 1) = NumSlots - 1 - 0 + 1
  BY <1>1, <1>2, FS_Interval
<1> QED BY <1>1, <1>3 DEF Slots

\* The sets that are counted are finite.
LEMMA Counted ==
    ASSUME NEW rq, NEW sq
    PROVE  /\ IsFiniteSet(Loading(rq)) /\ Cardinality(Loading(rq)) \in Nat
           /\ IsFiniteSet(Occupied(sq)) /\ Cardinality(Occupied(sq)) \in Nat
<1>1. Loading(rq) \subseteq Requests /\ Occupied(sq) \subseteq Slots
  BY DEF Loading, Occupied, Idx
<1>2. IsFiniteSet(Loading(rq)) /\ IsFiniteSet(Occupied(sq))
  BY <1>1, SlotCount, RunnerConstants, FS_Subset
<1> QED BY <1>2, FS_CardinalityType

-----------------------------------------------------------------------------
(* The input cache *)

\* The common prefix of two sequences is as long as a part of each.
LEMMA PrefixLength ==
    ASSUME NEW a, NEW b, IsSeq(a), IsSeq(b)
    PROVE  countCommonPrefix(a, b) \in 0 .. Len(b)
<1> DEFINE K == IF Len(a) < Len(b) THEN Len(a) ELSE Len(b)
           S == {n \in 0 .. K : \A i \in 1 .. n : a[i].token = b[i].token}
<1>1. K \in Nat /\ K <= Len(b) /\ Len(b) \in Nat
  BY DEF IsSeq
<1>2. S \in SUBSET (0 .. K) /\ 0 \in S
  BY <1>1
<1>3. countCommonPrefix(a, b) = Max(S)
  BY DEF countCommonPrefix
<1> HIDE DEF S
<1>4. Max(S) \in 0 .. K
  BY <1>1, <1>2, MaxIn
<1> QED BY <1>1, <1>3, <1>4

\* Some slot has the longest match, so that the search returns one of those it
\* looks at.
LEMMA LongestIn ==
    ASSUME NEW c, CacheShape(c), NEW prompt, IsSeq(prompt), NEW C \in SUBSET Slots, C # {}
    PROVE  /\ LongestMatch(c, C, prompt) \in C
           /\ \A s \in C : Matching(c, s, prompt) \in 0 .. Len(prompt)
<1> DEFINE M(s) == Matching(c, s, prompt)
           K    == Len(prompt)
           T    == {K - M(s) : s \in C}
<1>1. \A s \in C : M(s) \in 0 .. K
  BY PrefixLength DEF CacheShape, SlotShape, Matching
<1>2. K \in Nat
  BY DEF IsSeq
<1> HIDE DEF M, K
<1>3. T \in SUBSET Nat /\ T # {}
  BY <1>1, <1>2
<1>4. PICK m \in T : \A k \in T : m <= k
  BY <1>3, Least
<1>5. PICK s0 \in C : m = K - M(s0)
  BY <1>4
<1>6. ASSUME NEW t \in C PROVE M(t) <= M(s0)
  <2>1. K - M(t) \in T /\ M(t) \in Int /\ M(s0) \in Int
    BY <1>1
  <2> HIDE DEF T
  <2> QED BY <2>1, <1>2, <1>4, <1>5
<1> DEFINE U == {s \in C : M(s) = M(s0)}
<1>7. U \in SUBSET Nat /\ s0 \in U
  BY SlotCount
<1>8. PICK s1 \in U : \A k \in U : s1 <= k
  BY <1>7, Least
<1>9. ASSUME NEW t \in C PROVE M(t) < M(s1) \/ (M(t) = M(s1) /\ s1 <= t)
  <2>1. M(t) <= M(s0) /\ M(s1) = M(s0) /\ M(t) \in Int /\ M(s0) \in Int
    BY <1>1, <1>6, <1>8
  <2>2. M(t) = M(s0) => s1 <= t
    BY <1>8
  <2> QED BY <2>1, <2>2
<1>10. s1 \in C
  BY <1>8
<1>11. \E s \in C : \A t \in C :
         Matching(c, t, prompt) < Matching(c, s, prompt)
         \/ (Matching(c, t, prompt) = Matching(c, s, prompt) /\ s <= t)
  BY <1>9, <1>10 DEF M
<1> QED BY <1>1, <1>11 DEF LongestMatch, M, K

\* A free slot is among the used ones, and the oldest free one is returned.
LEMMA OldestIsFree ==
    ASSUME NEW c, CacheShape(c), FreeSlots(c) # {}
    PROVE  Oldest(c) \in FreeSlots(c)
<1> DEFINE I == {i \in 1 .. NumSlots : c.used[i] \in FreeSlots(c)}
<1>1. PICK s \in FreeSlots(c) : s \in Slots
  BY DEF FreeSlots
<1>2. PICK i \in 1 .. NumSlots : c.used[i] = s
  BY <1>1 DEF CacheShape
<1>3. I \in SUBSET Nat /\ i \in I
  BY <1>1, <1>2, SlotCount
<1>4. PICK m \in I : \A k \in I : m <= k
  BY <1>3, Least
<1>5. m \in 1 .. NumSlots /\ c.used[m] \in FreeSlots(c)
  BY <1>4
<1>6. ASSUME NEW j \in 1 .. m - 1 PROVE c.used[j] \notin FreeSlots(c)
  <2>1. j \in 1 .. NumSlots /\ j < m
    BY <1>5, SlotCount
  <2>2. j \notin I
    BY <2>1, <1>4, <1>5
  <2> QED BY <2>1, <2>2
<1>7. \E k \in DOMAIN c.used : /\ c.used[k] \in FreeSlots(c)
                               /\ \A j \in 1 .. k - 1 : c.used[j] \notin FreeSlots(c)
  BY <1>5, <1>6 DEF CacheShape
<1> QED BY <1>7 DEF Oldest

\* The order of use still has every slot after one of them was used.
LEMMA UsedKept ==
    ASSUME NEW used, NEW s \in Slots, DOMAIN used = 1 .. NumSlots,
           \A t \in Slots : \E i \in 1 .. NumSlots : used[i] = t
    PROVE  /\ DOMAIN MostRecent(used, s) = 1 .. NumSlots
           /\ \A t \in Slots : \E i \in 1 .. NumSlots : MostRecent(used, s)[i] = t
<1> DEFINE at == CHOOSE i \in DOMAIN used : used[i] = s
<1>1. at \in 1 .. NumSlots /\ used[at] = s
  OBVIOUS
<1>2. MostRecent(used, s) = [i \in 1 .. NumSlots |->
         IF i < at THEN used[i] ELSE IF i < NumSlots THEN used[i + 1] ELSE s]
  BY DEF MostRecent
<1> HIDE DEF at
<1>3. ASSUME NEW t \in Slots PROVE \E i \in 1 .. NumSlots : MostRecent(used, s)[i] = t
  <2>1. PICK i \in 1 .. NumSlots : used[i] = t
    OBVIOUS
  <2>2. CASE t = s
    <3>1. NumSlots \in 1 .. NumSlots /\ MostRecent(used, s)[NumSlots] = s
      BY <1>1, <1>2, SlotCount
    <3> QED BY <3>1, <2>2
  <2>3. CASE t # s /\ i < at
    BY <2>1, <2>3, <1>2
  <2>4. CASE t # s /\ ~(i < at)
    <3>1. i > at
      BY <2>1, <2>4, <1>1, SlotCount
    <3>2. i - 1 \in 1 .. NumSlots /\ ~(i - 1 < at) /\ i - 1 < NumSlots /\ (i - 1) + 1 = i
      BY <3>1, <1>1, SlotCount
    <3>3. MostRecent(used, s)[i - 1] = used[i]
      BY <3>2, <1>2
    <3> QED BY <3>2, <3>3, <2>1
  <2> QED BY <2>2, <2>3, <2>4
<1> QED BY <1>2, <1>3

\* What LoadCacheSlot does to the slots: one that was free is in use, and the
\* others stay as they are.  Something is left to compute.
Loaded(c, prompt, got) ==
    /\ got.slot \in FreeSlots(c)
    /\ IsSeq(got.inputs)
    /\ Len(prompt) >= 1 => Len(got.inputs) >= 1
    /\ CacheShape(got.ic)
    /\ \A s \in Slots : got.ic.slots[s].inUse <=> (s = got.slot \/ c.slots[s].inUse)

\* Loading from a slot that was found keeps the shape of the cache.
LEMMA LoadFromSlot ==
    ASSUME NEW c, CacheShape(c), NEW s \in Slots, NEW prompt, IsSeq(prompt), NEW past \in Int
    PROVE  LET got == LoadFrom(c, s, prompt, past)
           IN  /\ got.slot = s /\ IsSeq(got.inputs) /\ CacheShape(got.ic)
               /\ past < Len(prompt) => Len(got.inputs) >= 1
               /\ \A t \in Slots : got.ic.slots[t].inUse <=> (t = s \/ c.slots[t].inUse)
<1> DEFINE got == LoadFrom(c, s, prompt, past)
           new == [inputs |-> SubSeq(prompt, 1, past), inUse |-> TRUE]
<1>1. Len(prompt) \in Int /\ past + 1 \in Int
  BY DEF IsSeq
<1>2. IsSeq(SubSeq(prompt, past + 1, Len(prompt))) /\ IsSeq(SubSeq(prompt, 1, past))
  BY <1>1, SubIsSeq
<1>3. /\ SlotShape(new)
      /\ past < Len(prompt) => Len(SubSeq(prompt, past + 1, Len(prompt))) >= 1
  BY <1>1, <1>2 DEF SlotShape
<1>4. /\ got.slot = s /\ got.inputs = SubSeq(prompt, past + 1, Len(prompt))
      /\ got.ic = [c EXCEPT !.slots[s] = new, !.used = MostRecent(@, s),
                            !.kv = Remove(@, s, past, MaxInt).kv]
  BY DEF LoadFrom
<1> HIDE DEF got, new
<1>5. /\ DOMAIN got.ic = {"kv", "slots", "used", "multi"}
      /\ got.ic.slots = [c.slots EXCEPT ![s] = new]
      /\ got.ic.used = MostRecent(c.used, s)
  BY <1>4 DEF CacheShape
<1>6. \A t \in Slots : got.ic.slots[t] = IF t = s THEN new ELSE c.slots[t]
  BY <1>5 DEF CacheShape
<1>7. CacheShape(got.ic)
  <2>1. /\ DOMAIN got.ic.used = 1 .. NumSlots
        /\ \A t \in Slots : \E i \in 1 .. NumSlots : got.ic.used[i] = t
    BY <1>5, UsedKept DEF CacheShape
  <2>2. DOMAIN got.ic.slots = Slots
    BY <1>5 DEF CacheShape
  <2>3. \A t \in Slots : SlotShape(got.ic.slots[t])
    BY <1>3, <1>6 DEF CacheShape
  <2> QED BY <1>5, <2>1, <2>2, <2>3 DEF CacheShape
<1>8. \A t \in Slots : got.ic.slots[t].inUse <=> (t = s \/ c.slots[t].inUse)
  BY <1>6 DEF new
<1> QED BY <1>2, <1>3, <1>4, <1>7, <1>8 DEF got

\* Sharing a prefix with another slot leaves who uses the slots alone.
LEMMA ForkedKeeps ==
    ASSUME NEW c, CacheShape(c), NEW src, NEW dst \in Slots, NEW n \in Int
    PROVE  /\ CacheShape(Forked(c, src, dst, n))
           /\ \A s \in Slots : Forked(c, src, dst, n).slots[s].inUse = c.slots[s].inUse
<1>1. CASE n = 0 \/ src = dst
  BY <1>1 DEF Forked
<1>2. CASE ~(n = 0 \/ src = dst)
  <2> DEFINE f   == Forked(c, src, dst, n)
             cut == SubSeq(c.slots[src].inputs, 1, n)
  <2>1. f = [c EXCEPT !.slots[dst].inputs = cut, !.kv = CopyPrefix(@, src, dst, n)]
    BY <1>2 DEF Forked
  <2>2. IsSeq(cut)
    BY SubIsSeq
  <2> HIDE DEF f, cut
  <2>3. /\ DOMAIN f = {"kv", "slots", "used", "multi"} /\ f.used = c.used
        /\ f.slots = [c.slots EXCEPT ![dst].inputs = cut]
    BY <2>1 DEF CacheShape
  <2>4. /\ DOMAIN f.slots = Slots
        /\ \A s \in Slots :
            /\ DOMAIN f.slots[s] = {"inputs", "inUse"} /\ f.slots[s].inUse = c.slots[s].inUse
            /\ f.slots[s].inputs = IF s = dst THEN cut ELSE c.slots[s].inputs
    BY <2>3 DEF CacheShape, SlotShape
  <2> QED BY <2>2, <2>3, <2>4 DEF CacheShape, SlotShape, f
<1> QED BY <1>1, <1>2

\* With a free slot LoadCacheSlot finds one, whichever way it searches.
LEMMA LoadFinds ==
    ASSUME NEW c, CacheShape(c), FreeSlots(c) # {}, NEW prompt, IsSeq(prompt)
    PROVE  Loaded(c, prompt, LoadCacheSlot(c, prompt))
<1> DEFINE found == IF c.multi THEN findBestCacheSlot(c, prompt)
                    ELSE findLongestCacheSlot(c, prompt)
<1>1. FreeSlots(c) \in SUBSET Slots /\ Slots # {}
  BY SlotCount DEF FreeSlots
<1>2. /\ found.slot \in FreeSlots(c) /\ found.past \in 0 .. Len(prompt) /\ CacheShape(found.ic)
      /\ \A s \in Slots : found.ic.slots[s].inUse = c.slots[s].inUse
  <2>1. CASE c.multi
    <3> DEFINE best == LongestMatch(c, Slots, prompt)
               n    == Matching(c, best, prompt)
               old  == Oldest(c)
    <3>1. best \in Slots /\ n \in 0 .. Len(prompt) /\ n \in Int
      <4>1. Slots \in SUBSET Slots
        OBVIOUS
      <4>2. best \in Slots /\ \A s \in Slots : Matching(c, s, prompt) \in 0 .. Len(prompt)
        BY <1>1, <4>1, LongestIn
      <4> QED BY <4>2 DEF IsSeq
    <3>2. old \in FreeSlots(c)
      BY OldestIsFree
    <3>3. found = BestOrFork(c, best, old, n)
      BY <2>1 DEF findBestCacheSlot
    <3> HIDE DEF best, n, old, found
    <3>4. /\ CacheShape(Forked(c, best, old, n))
          /\ \A s \in Slots : Forked(c, best, old, n).slots[s].inUse = c.slots[s].inUse
      BY <3>1, <3>2, <1>1, ForkedKeeps
    <3>5. CASE n = Len(c.slots[best].inputs) /\ best \in FreeSlots(c)
      <4>1. found = [slot |-> best, past |-> n, ic |-> c]
        BY <3>3, <3>5 DEF BestOrFork
      <4> QED BY <4>1, <3>1, <3>5
    <3>6. CASE ~(n = Len(c.slots[best].inputs) /\ best \in FreeSlots(c))
      <4>1. found = [slot |-> old, past |-> n, ic |-> Forked(c, best, old, n)]
        BY <3>3, <3>6 DEF BestOrFork
      <4> QED BY <4>1, <3>1, <3>2, <3>4
    <3> QED BY <3>5, <3>6
  <2>2. CASE ~c.multi
    <3> DEFINE s == LongestMatch(c, FreeSlots(c), prompt)
    <3>1. s \in FreeSlots(c) /\ Matching(c, s, prompt) \in 0 .. Len(prompt)
      BY <1>1, LongestIn DEF IsSeq
    <3>2. found = [slot |-> s, past |-> Matching(c, s, prompt), ic |-> c]
      BY <2>2 DEF findLongestCacheSlot
    <3> HIDE DEF s, found
    <3> QED BY <3>1, <3>2
  <2> QED BY <2>1, <2>2
<1> HIDE DEF found
<1> DEFINE past == Resumable(found.ic, found.slot,
                       IF found.past = Len(prompt) THEN found.past - 1 ELSE found.past)
<1>3. past \in Int /\ (Len(prompt) >= 1 => past < Len(prompt)) /\ Len(prompt) \in Nat
  BY <1>2 DEF Resumable, IsSeq
<1>4. LoadCacheSlot(c, prompt) = LoadFrom(found.ic, found.slot, prompt, past)
  BY DEF LoadCacheSlot, LoadFound, found
<1> HIDE DEF past
<1>5. found.slot \in Slots
  BY <1>1, <1>2
<1>6. LET got == LoadFrom(found.ic, found.slot, prompt, past)
      IN  /\ got.slot = found.slot /\ IsSeq(got.inputs) /\ CacheShape(got.ic)
          /\ past < Len(prompt) => Len(got.inputs) >= 1
          /\ \A t \in Slots : got.ic.slots[t].inUse <=> (t = found.slot \/ found.ic.slots[t].inUse)
  BY <1>2, <1>3, <1>5, LoadFromSlot
<1> QED BY <1>2, <1>3, <1>4, <1>6 DEF Loaded

\* Who uses the slots is the same in two caches of the right shape.
SameUse(c, d) == CacheShape(d) /\ \A s \in Slots : d.slots[s].inUse = c.slots[s].inUse

\* Recording other inputs in a slot leaves who uses it alone.
LEMMA InputsOfSlot ==
    ASSUME NEW c, CacheShape(c), NEW s, NEW x, s \in Slots => IsSeq(x), NEW kv,
           NEW d, d = [c EXCEPT !.kv = kv, !.slots[s].inputs = x]
    PROVE  SameUse(c, d)
<1>1. /\ DOMAIN d = {"kv", "slots", "used", "multi"} /\ d.used = c.used
      /\ d.slots = [c.slots EXCEPT ![s].inputs = x]
  BY DEF CacheShape
<1>2. /\ DOMAIN d.slots = Slots
      /\ \A t \in Slots :
          /\ DOMAIN d.slots[t] = {"inputs", "inUse"} /\ d.slots[t].inUse = c.slots[t].inUse
          /\ d.slots[t].inputs = IF t = s THEN x ELSE c.slots[t].inputs
  BY <1>1 DEF CacheShape, SlotShape
<1> QED BY <1>1, <1>2 DEF CacheShape, SlotShape, SameUse

\* So does moving the inputs of a slot that is full.
LEMMA ShiftKeeps ==
    ASSUME NEW c, CacheShape(c), NEW s \in Slots, NEW keep \in Int
    PROVE  LET shifted == ShiftCacheSlot(c, s, keep)
           IN  SameUse(c, shifted.ic) /\ IsSeq(shifted.reprocess)
<1> DEFINE inputs  == c.slots[s].inputs
           discard == ShiftDiscard(inputs, keep)
           removed == Remove(c.kv, s, keep, keep + discard)
           kept    == SubSeq(inputs, 1, keep) \o SubSeq(inputs, keep + discard + 1, Len(inputs))
<1>1. Len(inputs) \in Int
  BY DEF CacheShape, SlotShape, IsSeq
<1>2. discard \in Int
  <2> DEFINE half   == (NumCtx - keep) \div 2
             target == Max({half, 1})
             above  == Len(inputs) - keep
             over   == Max({above, 0})
             lack   == target - (NumCtx - Len(inputs))
             want   == Max({lack, 0})
  <2>1. NumCtx \in Int /\ half \in Int /\ above \in Int
    BY <1>1, CacheConstants
  <2>2. discard = Min({over, want})
    BY DEF ShiftDiscard
  <2> HIDE DEF half, above
  <2>3. target \in Int /\ over \in Int
    <3>1. \E x \in {half, 1} : \A y \in {half, 1} : x >= y
      BY <2>1
    <3>2. \E x \in {above, 0} : \A y \in {above, 0} : x >= y
      BY <2>1
    <3> QED BY <3>1, <3>2, <2>1, MaxOfAny
  <2> HIDE DEF target, over
  <2>4. lack \in Int
    BY <2>1, <2>3, <1>1
  <2> HIDE DEF lack
  <2>5. want \in Int
    <3>1. \E x \in {lack, 0} : \A y \in {lack, 0} : x >= y
      BY <2>4
    <3> QED BY <3>1, <2>4, MaxOfAny
  <2> HIDE DEF want
  <2> QED BY <2>2, <2>3, <2>5, MinOfTwo
<1> HIDE DEF discard
<1>3. IsSeq(kept)
  <2>1. IsSeq(SubSeq(inputs, 1, keep)) /\ IsSeq(SubSeq(inputs, keep + discard + 1, Len(inputs)))
    BY <1>1, <1>2, SubIsSeq
  <2> QED BY <2>1, CatIsSeq
<1>4. ShiftCacheSlot(c, s, keep) =
        IF discard = 0 THEN [ok |-> TRUE, reprocess |-> <<>>, ic |-> c]
        ELSE Shift(c, s, removed, kept)
  BY DEF ShiftCacheSlot, ShiftBy, discard
<1>5. IsSeq(<<>>) /\ SameUse(c, c)
  BY DEF IsSeq, SameUse
<1> HIDE DEF inputs, removed, kept
<1>6. CASE discard = 0
  BY <1>4, <1>5, <1>6
<1>7. CASE discard # 0 /\ removed.ok
  <2> DEFINE d == [c EXCEPT !.kv = removed.kv, !.slots[s].inputs = kept]
  <2>1. SameUse(c, d)
    BY <1>3, InputsOfSlot
  <2>2. ShiftCacheSlot(c, s, keep) = [ok |-> TRUE, reprocess |-> <<>>, ic |-> d]
    BY <1>4, <1>7 DEF Shift
  <2> HIDE DEF d
  <2> QED BY <2>1, <2>2, <1>5
<1>8. CASE discard # 0 /\ ~removed.ok
  <2> DEFINE kv == Remove(removed.kv, s, 0, MaxInt).kv
             d  == [c EXCEPT !.kv = kv, !.slots[s].inputs = <<>>]
  <2>1. SameUse(c, d)
    BY <1>5, InputsOfSlot
  <2>2. ShiftCacheSlot(c, s, keep) = [ok |-> FALSE, reprocess |-> kept, ic |-> d]
    BY <1>4, <1>8 DEF Shift
  <2> HIDE DEF d
  <2> QED BY <2>1, <2>2, <1>3
<1> QED BY <1>6, <1>7, <1>8

-----------------------------------------------------------------------------
(* Steps that keep the account *)

\* Nothing of what is accounted for changes.
SameReq(rq, sr) ==
    /\ ReqShape(sr)
    /\ \A q \in Requests : sr[q].pc = rq[q].pc /\ sr[q].slot = rq[q].slot

\* Then the account is kept.
LEMMA SameKeeps ==
    ASSUME NEW rq, NEW sr, NEW sq, NEW sm, NEW c, NEW d,
           Acc(rq, sq, sm, c), SameReq(rq, sr), SameUse(c, d)
    PROVE  Acc(sr, sq, sm, d)
<1>1. Loading(sr) = Loading(rq)
  BY DEF SameReq, Loading
<1>2. \A i \in Occupied(sq) : sq[i] \in Requests
  BY DEF Acc, Owners, Occupied
<1>3. Owners(sr, sq)
  BY <1>2 DEF Acc, Owners, SameReq
<1>4. InUse(sr, sq, d)
  BY <1>2 DEF Acc, InUse, SameReq, SameUse
<1> QED BY <1>1, <1>3, <1>4 DEF Acc, Permits, SameReq, SameUse

\* What a request without an entry of s.seqs does concerns no entry.
LEMMA OthersKept ==
    ASSUME NEW rq, NEW sr, NEW sq, NEW c, Owners(rq, sq), InUse(rq, sq, c),
           \A i \in Occupied(sq) : sr[sq[i]] = rq[sq[i]]
    PROVE  Owners(sr, sq) /\ InUse(sr, sq, c)
<1>1. Owners(sr, sq)
  BY DEF Owners
<1>2. InUse(sr, sq, c)
  BY DEF InUse
<1> QED BY <1>1, <1>2

\* removeSequence gives back the permit, the entry and the slot.
LEMMA RemoveKeeps ==
    ASSUME NEW w, {"req", "seqs", "sem", "ic"} \subseteq DOMAIN w,
           Acc(w.req, w.seqs, w.sem, w.ic),
           NEW i \in Idx, w.seqs[i] # None, NEW why, NEW v, v = removeSequence(w, i, why)
    PROVE  /\ DOMAIN v = DOMAIN w
           /\ v.seqs = [w.seqs EXCEPT ![i] = None]
           /\ Acc(v.req, v.seqs, v.sem, v.ic)
<1> DEFINE q   == w.seqs[i]
           s   == w.req[q].slot
           new == [Blank EXCEPT !.pc = "done", !.reason = why, !.predicted = w.req[q].predicted]
<1>1. v = [w EXCEPT !.req[q] = new, !.seqs[i] = None, !.sem = @ - 1, !.ic.slots[s].inUse = FALSE]
  BY DEF removeSequence
<1>2. /\ DOMAIN new = {"pc", "inputs", "pending", "slot", "iBatch", "predicted", "held",
                       "quit", "limit", "keep", "shift", "reason"}
      /\ new.pc = "done" /\ new.inputs = <<>> /\ new.pending = <<>> /\ new.keep \in Int
  BY DEF Blank
<1>3. q \in Requests /\ s \in Slots /\ i \in Occupied(w.seqs) /\ w.req[q].pc = "stream"
  BY DEF Acc, Owners, Occupied
<1> HIDE DEF q, s, new
<1>4. /\ DOMAIN v = DOMAIN w
      /\ v.req = [w.req EXCEPT ![q] = new]
      /\ v.seqs = [w.seqs EXCEPT ![i] = None]
      /\ v.sem = w.sem - 1
      /\ v.ic = [w.ic EXCEPT !.slots[s].inUse = FALSE]
  BY <1>1
<1>5. \A p \in Requests : v.req[p] = IF p = q THEN new ELSE w.req[p]
  BY <1>3, <1>4 DEF Acc, ReqShape
<1>6. \A j \in Idx : v.seqs[j] = IF j = i THEN None ELSE w.seqs[j]
  BY <1>4 DEF Acc, Owners
<1>7. Occupied(v.seqs) = Occupied(w.seqs) \ {i}
  BY <1>6 DEF Occupied
<1>8. \A j \in Occupied(v.seqs) :
         j \in Occupied(w.seqs) /\ j # i /\ v.seqs[j] = w.seqs[j] /\ w.seqs[j] \in Requests
         /\ w.seqs[j] # q /\ v.req[v.seqs[j]] = w.req[w.seqs[j]]
  <2> TAKE j \in Occupied(v.seqs)
  <2>1. j \in Occupied(w.seqs) /\ j # i /\ j \in Idx
    BY <1>7 DEF Occupied
  <2>2. v.seqs[j] = w.seqs[j] /\ w.seqs[j] \in Requests /\ w.seqs[j] # q
    BY <2>1, <1>3, <1>6 DEF Acc, Owners, Occupied, q
  <2> QED BY <2>1, <2>2, <1>5
<1>9. /\ DOMAIN v.ic = DOMAIN w.ic /\ v.ic.used = w.ic.used
      /\ v.ic.slots = [w.ic.slots EXCEPT ![s].inUse = FALSE]
  BY <1>4 DEF Acc, CacheShape
<1>10. /\ DOMAIN v.ic.slots = Slots
       /\ \A t \in Slots :
           /\ DOMAIN v.ic.slots[t] = {"inputs", "inUse"}
           /\ v.ic.slots[t].inputs = w.ic.slots[t].inputs
           /\ t = s => v.ic.slots[t].inUse = FALSE
           /\ t # s => v.ic.slots[t].inUse = w.ic.slots[t].inUse
  <2>1. /\ DOMAIN v.ic.slots = Slots
        /\ \A t \in Slots : v.ic.slots[t] = IF t = s THEN [w.ic.slots[s] EXCEPT !.inUse = FALSE]
                                            ELSE w.ic.slots[t]
    BY <1>3, <1>9 DEF Acc, CacheShape
  <2>2. \A t \in Slots : DOMAIN w.ic.slots[t] = {"inputs", "inUse"}
    BY DEF Acc, CacheShape, SlotShape
  <2>3. [w.ic.slots[s] EXCEPT !.inUse = FALSE].inUse = FALSE
    BY <2>2, <1>3
  <2> QED BY <2>1, <2>2, <2>3
<1>11. ReqShape(v.req)
  <2>1. DOMAIN v.req = Requests
    BY <1>4 DEF Acc, ReqShape
  <2>2. IsSeq(<<>>)
    BY DEF IsSeq
  <2> QED BY <2>1, <2>2, <1>2, <1>5 DEF Acc, ReqShape
<1>12. CacheShape(v.ic)
  <2>1. \A t \in Slots : SlotShape(v.ic.slots[t])
    BY <1>10 DEF Acc, CacheShape, SlotShape
  <2>2. \A t \in Slots : \E j \in 1 .. NumSlots : v.ic.used[j] = t
    BY <1>9 DEF Acc, CacheShape
  <2>3. DOMAIN v.ic = {"kv", "slots", "used", "multi"} /\ DOMAIN v.ic.used = 1 .. NumSlots
    BY <1>9 DEF Acc, CacheShape
  <2> QED BY ONLY <2>1, <2>2, <2>3, <1>10 DEF CacheShape
<1>13. Owners(v.req, v.seqs)
  <2>1. v.seqs \in [Idx -> Requests \cup {None}]
    BY <1>4 DEF Acc, Owners
  <2> QED BY <2>1, <1>8 DEF Acc, Owners
<1>14. InUse(v.req, v.seqs, v.ic)
  <2> SUFFICES ASSUME NEW t \in Slots
               PROVE  v.ic.slots[t].inUse <=> \E j \in Occupied(v.seqs) : v.req[v.seqs[j]].slot = t
    BY DEF InUse
  <2>1. CASE t = s
    <3>1. ASSUME NEW j \in Occupied(v.seqs), v.req[v.seqs[j]].slot = t PROVE FALSE
      BY <3>1, <2>1, <1>3, <1>8 DEF Acc, Owners, s, q
    <3> QED BY <3>1, <2>1, <1>10
  <2>2. CASE t # s
    <3>1. v.ic.slots[t].inUse <=> \E j \in Occupied(w.seqs) : w.req[w.seqs[j]].slot = t
      BY <2>2, <1>10 DEF Acc, InUse
    <3>2. ASSUME NEW j \in Occupied(w.seqs), w.req[w.seqs[j]].slot = t
          PROVE  j \in Occupied(v.seqs) /\ v.req[v.seqs[j]].slot = t
      BY <3>2, <2>2, <1>7, <1>8 DEF s, q
    <3> QED BY <3>1, <3>2, <1>8
  <2> QED BY <2>1, <2>2
<1>15. Permits(v.req, v.seqs, v.sem)
  <2>1. Loading(v.req) = Loading(w.req)
    BY <1>2, <1>3, <1>5 DEF Loading
  <2>2. Cardinality(Occupied(v.seqs)) = Cardinality(Occupied(w.seqs)) - 1
    BY <1>3, <1>7, Counted, FS_RemoveElement
  <2>3. Cardinality(Occupied(w.seqs)) \in Nat /\ Cardinality(Loading(w.req)) \in Nat
    BY Counted
  <2> QED BY <2>1, <2>2, <2>3, <1>4, SlotCount DEF Acc, Permits
<1> QED BY <1>4, <1>11, <1>12, <1>13, <1>14, <1>15 DEF Acc

-----------------------------------------------------------------------------
(* The loop of forwardBatch *)

\* What a round passes to the next.
VisitInv(w) ==
    /\ DOMAIN w = {"req", "seqs", "sem", "ic", "snapshot", "entries", "outputs", "resume"}
    /\ IsSeq(w.entries)
    /\ w.resume \in Idx \cup {None}
    /\ Acc(w.req, w.seqs, w.sem, w.ic)

\* Taking inputs of a sequence into the batch touches nothing that is counted.
LEMMA TakeKeeps ==
    ASSUME NEW w, VisitInv(w), NEW q \in Requests, NEW past, NEW n \in Int
    PROVE  VisitInv(Take(w, q, past, n))
<1> DEFINE v    == Take(w, q, past, n)
           more == [j \in 1 .. n |-> [slot |-> w.req[q].slot, pos |-> past + j - 1,
                                      input |-> w.req[q].inputs[j], q |-> q]]
           out  == IF n = Len(w.req[q].inputs) THEN Append(w.outputs, Len(w.entries) + n)
                   ELSE w.outputs
           iB   == Len(w.outputs) + 1
           took == SubSeq(w.req[q].inputs, 1, n)
           left == SubSeq(w.req[q].inputs, n + 1, Len(w.req[q].inputs))
<1>1. v = [w EXCEPT !.entries = @ \o more, !.outputs = out,
                    !.req[q].iBatch = iB, !.req[q].pending = took, !.req[q].inputs = left]
  <2>1. DOMAIN w = {"req", "seqs", "sem", "ic", "snapshot", "entries", "outputs", "resume"}
        /\ DOMAIN w.req = Requests
        /\ DOMAIN w.req[q] = {"pc", "inputs", "pending", "slot", "iBatch", "predicted", "held",
                              "quit", "limit", "keep", "shift", "reason"}
    BY DEF VisitInv, Acc, ReqShape
  <2> QED BY <2>1 DEF Take
<1>2. IsSeq(more) /\ IsSeq(took) /\ IsSeq(left)
  <2>1. Len(w.req[q].inputs) \in Int /\ n + 1 \in Int
    BY DEF VisitInv, Acc, ReqShape, IsSeq
  <2>2. IsSeq(took) /\ IsSeq(left)
    BY <2>1, SubIsSeq
  <2>3. IsSeq(more)
    BY FunIsSeq
  <2> QED BY <2>2, <2>3
<1> HIDE DEF v, more, out, iB, took, left
<1>3. /\ DOMAIN v = DOMAIN w /\ v.entries = w.entries \o more /\ v.resume = w.resume
      /\ v.seqs = w.seqs /\ v.sem = w.sem /\ v.ic = w.ic
      /\ v.req = [w.req EXCEPT ![q].iBatch = iB, ![q].pending = took, ![q].inputs = left]
  BY <1>1 DEF VisitInv
<1>4. IsSeq(v.entries)
  BY <1>2, <1>3, CatIsSeq DEF VisitInv
<1>5. SameReq(w.req, v.req)
  BY <1>2, <1>3 DEF VisitInv, Acc, ReqShape, SameReq
<1>6. SameUse(w.ic, w.ic)
  BY DEF VisitInv, Acc, SameUse
<1>7. Acc(v.req, v.seqs, v.sem, v.ic)
  BY <1>3, <1>5, <1>6, SameKeeps DEF VisitInv
<1> QED BY <1>3, <1>4, <1>7 DEF VisitInv, v

\* Nor does taking as many as there is room for.
LEMMA TakeInputsKeeps ==
    ASSUME NEW w, VisitInv(w), NEW q \in Requests, w.req[q].slot \in Slots
    PROVE  VisitInv(TakeInputs(w, q))
<1> DEFINE a == BatchSize - Len(w.entries)
           b == NumCtx - Cached(w, q)
           c == Len(w.req[q].inputs)
<1>1. Cached(w, q) \in Int
  BY DEF VisitInv, Acc, CacheShape, SlotShape, Cached, IsSeq
<1>2. a \in Int /\ b \in Int /\ c \in Int
  BY <1>1, CacheConstants DEF VisitInv, Acc, ReqShape, IsSeq
<1> HIDE DEF a, b, c
<1>3. Min({a, b, c}) \in Int
  BY <1>2, MinOfThree
<1> QED BY <1>3, TakeKeeps DEF TakeInputs, a, b, c

\* A round of the loop keeps the account.
LEMMA VisitKeeps ==
    ASSUME NEW w, VisitInv(w), NEW i \in Idx
    PROVE  VisitInv(VisitIndex(w, i))
<1> DEFINE q == w.seqs[i]
<1>1. VisitIndex(w, i) = Visit(w, i, q)
  BY DEF VisitIndex
<1>2. CASE q = None \/ w.req[q].inputs = <<>>
  BY <1>1, <1>2 DEF Visit
<1>3. CASE q # None /\ w.req[q].inputs # <<>>
  <2>1. q \in Requests /\ w.req[q].slot \in Slots /\ w.req[q].keep \in Int
    BY <1>3 DEF VisitInv, Acc, Owners, Occupied, ReqShape
  <2> HIDE DEF q
  <2>2. CASE Len(w.entries) = BatchSize
    <3>1. Visit(w, i, q) = [w EXCEPT !.resume = IF @ = None THEN i ELSE @]
      BY <1>3, <2>2 DEF Visit
    <3> QED BY <1>1, <3>1 DEF VisitInv
  <2>3. CASE Len(w.entries) # BatchSize /\ Cached(w, q) + 1 <= NumCtx
    <3>1. Visit(w, i, q) = TakeInputs(w, q)
      BY <1>3, <2>3 DEF Visit
    <3> QED BY <1>1, <2>1, <3>1, TakeInputsKeeps
  <2>4. CASE Len(w.entries) # BatchSize /\ ~(Cached(w, q) + 1 <= NumCtx) /\ ~w.req[q].shift
    <3> DEFINE v == removeSequence(w, i, "length")
    <3>1. Visit(w, i, q) = [v EXCEPT !.snapshot[i] = None]
      BY <1>3, <2>4 DEF Visit
    <3>2. /\ DOMAIN v = DOMAIN w
              /\ Acc(v.req, v.seqs, v.sem, v.ic)
      <4>1. w.seqs[i] # None /\ {"req", "seqs", "sem", "ic"} \subseteq DOMAIN w
        BY <1>3 DEF VisitInv, q
      <4>2. Acc(w.req, w.seqs, w.sem, w.ic)
        BY DEF VisitInv
      <4>3. v = removeSequence(w, i, "length")
        OBVIOUS
      <4> HIDE DEF v
      <4> QED BY <4>1, <4>2, <4>3, RemoveKeeps
    <3>3. v.entries = w.entries /\ v.resume = w.resume
      BY DEF VisitInv, removeSequence
    <3> HIDE DEF v
    <3> QED BY <1>1, <3>1, <3>2, <3>3 DEF VisitInv
  <2>5. CASE Len(w.entries) # BatchSize /\ ~(Cached(w, q) + 1 <= NumCtx) /\ w.req[q].shift
    <3> DEFINE shifted == ShiftCacheSlot(w.ic, w.req[q].slot, w.req[q].keep)
    <3>1. Visit(w, i, q) = AfterShift(w, i, q, shifted)
      BY <1>3, <2>5 DEF Visit
    <3>2. SameUse(w.ic, shifted.ic) /\ IsSeq(shifted.reprocess)
      BY <2>1, ShiftKeeps DEF VisitInv, Acc
    <3> HIDE DEF shifted
    <3>3. SameReq(w.req, w.req)
      BY DEF VisitInv, Acc, SameReq
    <3>4. Acc(w.req, w.seqs, w.sem, shifted.ic)
      BY <3>2, <3>3, SameKeeps DEF VisitInv
    <3>5. CASE shifted.ok
      <4> DEFINE v == [w EXCEPT !.ic = shifted.ic]
      <4>1. VisitInv(v) /\ v.req = w.req
        BY <3>4 DEF VisitInv
      <4>2. Visit(w, i, q) = TakeInputs(v, q)
        BY <3>1, <3>5 DEF AfterShift
      <4> HIDE DEF v
      <4> QED BY <1>1, <2>1, <4>1, <4>2, TakeInputsKeeps
    <3>6. CASE ~shifted.ok
      <4> DEFINE v   == Visit(w, i, q)
                 all == shifted.reprocess \o w.req[q].inputs
      <4>1. v = [w EXCEPT !.ic = shifted.ic, !.req[q].inputs = all, !.snapshot[i] = None]
        BY <2>1, <3>1, <3>6 DEF AfterShift, VisitInv, Acc, ReqShape
      <4>2. IsSeq(all)
        BY <2>1, <3>2, CatIsSeq DEF VisitInv, Acc, ReqShape
      <4> HIDE DEF v, all
      <4>3. /\ DOMAIN v = DOMAIN w /\ v.entries = w.entries /\ v.resume = w.resume
            /\ v.seqs = w.seqs /\ v.sem = w.sem /\ v.ic = shifted.ic
            /\ v.req = [w.req EXCEPT ![q].inputs = all]
        BY <4>1 DEF VisitInv
      <4>4. SameReq(w.req, v.req)
        BY <4>2, <4>3 DEF VisitInv, Acc, ReqShape, SameReq
      <4>5. Acc(v.req, v.seqs, v.sem, v.ic)
        BY <3>2, <4>3, <4>4, SameKeeps DEF VisitInv
      <4> QED BY <1>1, <4>3, <4>5 DEF VisitInv, v
    <3> QED BY <3>5, <3>6
  <2> QED BY <2>2, <2>3, <2>4, <2>5
<1> QED BY <1>2, <1>3

\* The rounds of the loop are defined one after the other.
LEMMA VisitedRounds ==
    ASSUME NEW w0
    PROVE  Visited(w0) = [n \in 0 .. NumSlots |->
               IF n = 0 THEN w0
               ELSE VisitIndex(Visited(w0)[n - 1], (nextSeq + n - 1) % NumSlots)]
<1> DEFINE G(w, n) == VisitIndex(w, (nextSeq + n - 1) % NumSlots)
           S == {k \in Nat : \E f : f = [n \in 0 .. k |-> IF n = 0 THEN w0 ELSE G(f[n - 1], n)]}
<1> HIDE DEF G
<1>1. 0 \in S
  <2> DEFINE f == [n \in 0 .. 0 |-> w0]
  <2>1. f = [n \in 0 .. 0 |-> IF n = 0 THEN w0 ELSE G(f[n - 1], n)]
    OBVIOUS
  <2> QED BY <2>1
<1>2. ASSUME NEW k \in Nat, k \in S PROVE k + 1 \in S
  <2>1. PICK f : f = [n \in 0 .. k |-> IF n = 0 THEN w0 ELSE G(f[n - 1], n)]
    BY <1>2
  <2> DEFINE g == [n \in 0 .. k + 1 |-> IF n <= k THEN f[n] ELSE G(f[k], n)]
  <2>2. ASSUME NEW n \in 0 .. k + 1 PROVE g[n] = IF n = 0 THEN w0 ELSE G(g[n - 1], n)
    <3>1. CASE n = 0
      BY <2>1, <3>1
    <3>2. CASE n \in 1 .. k
      <4>1. g[n - 1] = f[n - 1] /\ g[n] = f[n]
        BY <3>2
      <4>2. f[n] = G(f[n - 1], n)
        BY <2>1, <3>2
      <4> QED BY <4>1, <4>2, <3>2
    <3>3. CASE n = k + 1
      <4>1. g[n] = G(f[k], n) /\ g[n - 1] = f[k]
        BY <3>3
      <4> QED BY <4>1, <3>3
    <3> QED BY <3>1, <3>2, <3>3
  <2>3. g = [n \in 0 .. k + 1 |-> IF n = 0 THEN w0 ELSE G(g[n - 1], n)]
    BY <2>2
  <2> HIDE DEF g
  <2> QED BY <2>3
<1> HIDE DEF S
<1>3. NumSlots \in S
  BY <1>1, <1>2, Induct, SlotCount
<1>4. PICK f : f = [n \in 0 .. NumSlots |-> IF n = 0 THEN w0 ELSE G(f[n - 1], n)]
  BY <1>3 DEF S
<1> QED BY <1>4 DEF Visited, G

\* The loop of forwardBatch keeps the account.
LEMMA VisitAllKeeps ==
    ASSUME NEW w0, VisitInv(w0), nextSeq \in Nat
    PROVE  VisitInv(VisitAll(w0))
<1> DEFINE V == Visited(w0)
           S == {n \in Nat : n <= NumSlots => VisitInv(V[n])}
<1>1. V = [n \in 0 .. NumSlots |->
            IF n = 0 THEN w0 ELSE VisitIndex(V[n - 1], (nextSeq + n - 1) % NumSlots)]
  BY VisitedRounds
<1> HIDE DEF V
<1>2. 0 \in S
  BY <1>1, SlotCount
<1>3. ASSUME NEW n \in Nat, n \in S PROVE n + 1 \in S
  <2> SUFFICES ASSUME n + 1 <= NumSlots PROVE VisitInv(V[n + 1])
    OBVIOUS
  <2>1. VisitInv(V[n])
    BY <1>3, SlotCount
  <2>2. n + 1 \in 0 .. NumSlots /\ n + 1 # 0 /\ (n + 1) - 1 = n
    BY SlotCount
  <2>3. V[n + 1] = VisitIndex(V[n], (nextSeq + (n + 1) - 1) % NumSlots)
    BY <1>1, <2>2
  <2>4. (nextSeq + (n + 1) - 1) % NumSlots \in Idx
    BY SlotCount DEF Idx, Slots
  <2> QED BY <2>1, <2>3, <2>4, VisitKeeps
<1> HIDE DEF S
<1>4. NumSlots \in S
  BY <1>2, <1>3, Induct, SlotCount
<1> QED BY <1>4, SlotCount DEF S, V, VisitAll

-----------------------------------------------------------------------------
(* The loop of computeBatch *)

\* What a round passes to the next: the rounds before n are over, and the
\* sequences from n on are those the loop began with.
DecodeInv(w, n, sq) ==
    /\ DOMAIN w = {"req", "seqs", "sem", "ic", "inflight", "panic"}
    /\ Acc(w.req, w.seqs, w.sem, w.ic)
    /\ w.panic \in {"no", "stop"}
    /\ \A j \in Idx : j >= n => w.seqs[j] = sq[j]

Known(w, p, t) == [Resolve(w, p, t) EXCEPT !.req[p.of].predicted = @ + 1]

\* A token that becomes known touches nothing that is counted.
LEMMA ResolveKeeps ==
    ASSUME NEW w, NEW n, NEW sq, DecodeInv(w, n, sq), NEW p, NEW t,
           NEW v, v = Known(w, p, t)
    PROVE  DecodeInv(v, n, sq) /\ v.seqs = w.seqs /\ v.panic = w.panic
<1> DEFINE q  == p.of
           r  == Resolve(w, p, t)
           sl == [s \in Slots |-> FilledSlot(w.ic.slots[s], p, t)]
<1>1. /\ DOMAIN r = DOMAIN w /\ r.seqs = w.seqs /\ r.sem = w.sem /\ r.panic = w.panic
      /\ r.ic = [w.ic EXCEPT !.slots = sl]
      /\ r.req = [w.req EXCEPT ![q].inputs = Filled(@, p, t), ![q].pending = Filled(@, p, t)]
  <2>1. DOMAIN w = {"req", "seqs", "sem", "ic", "inflight", "panic"} /\ DOMAIN w.req = Requests
    BY DEF DecodeInv, Acc, ReqShape
  <2>2. DOMAIN w.ic = {"kv", "slots", "used", "multi"}
    BY DEF DecodeInv, Acc, CacheShape
  <2>3. DOMAIN r = DOMAIN w /\ r.seqs = w.seqs /\ r.sem = w.sem /\ r.panic = w.panic
    BY <2>1 DEF Resolve
  <2>4. r.ic = [w.ic EXCEPT !.slots = sl]
    BY <2>1, <2>2 DEF Resolve
  <2>5. r.req = [w.req EXCEPT ![q].inputs = Filled(@, p, t), ![q].pending = Filled(@, p, t)]
    BY <2>1 DEF Resolve
  <2> QED BY <2>3, <2>4, <2>5
<1> HIDE DEF r
<1>2. /\ DOMAIN v = DOMAIN w /\ v.seqs = w.seqs /\ v.sem = w.sem /\ v.panic = w.panic
      /\ v.ic = r.ic /\ v.req = [r.req EXCEPT ![q].predicted = @ + 1]
  BY <1>1 DEF DecodeInv, Known, r
<1>3. SameReq(w.req, v.req)
  <2> DEFINE F == {"pc", "inputs", "pending", "slot", "iBatch", "predicted", "held",
                   "quit", "limit", "keep", "shift", "reason"}
  <2>1. /\ DOMAIN w.req = Requests
        /\ \A x \in Requests : /\ DOMAIN w.req[x] = F /\ w.req[x].keep \in Int
                               /\ IsSeq(w.req[x].inputs) /\ IsSeq(w.req[x].pending)
    BY DEF DecodeInv, Acc, ReqShape
  <2>2. /\ DOMAIN r.req = Requests
        /\ \A x \in Requests :
            /\ DOMAIN r.req[x] = F /\ r.req[x].keep = w.req[x].keep
            /\ r.req[x].pc = w.req[x].pc /\ r.req[x].slot = w.req[x].slot
            /\ r.req[x].inputs = IF x = q THEN Filled(w.req[x].inputs, p, t) ELSE w.req[x].inputs
            /\ r.req[x].pending = IF x = q THEN Filled(w.req[x].pending, p, t)
                                  ELSE w.req[x].pending
    BY <1>1, <2>1
  <2>3. /\ DOMAIN v.req = Requests
        /\ \A x \in Requests :
            /\ DOMAIN v.req[x] = F /\ v.req[x].keep = r.req[x].keep
            /\ v.req[x].pc = r.req[x].pc /\ v.req[x].slot = r.req[x].slot
            /\ v.req[x].inputs = r.req[x].inputs /\ v.req[x].pending = r.req[x].pending
    BY <1>2, <2>2
  <2>4. \A x \in Requests : IsSeq(r.req[x].inputs) /\ IsSeq(r.req[x].pending)
    BY <2>1, <2>2, FilledIsSeq
  <2> QED BY <2>1, <2>2, <2>3, <2>4 DEF SameReq, ReqShape
<1>4. SameUse(w.ic, v.ic)
  <2>1. /\ DOMAIN w.ic = {"kv", "slots", "used", "multi"} /\ DOMAIN w.ic.slots = Slots
        /\ \A s \in Slots : /\ DOMAIN w.ic.slots[s] = {"inputs", "inUse"}
                            /\ IsSeq(w.ic.slots[s].inputs) /\ w.ic.slots[s].inUse \in BOOLEAN
    BY DEF DecodeInv, Acc, CacheShape, SlotShape
  <2>2. v.ic.slots = sl /\ v.ic.used = w.ic.used /\ DOMAIN v.ic = DOMAIN w.ic
    BY <1>1, <1>2, <2>1
  <2>3. DOMAIN sl = Slots /\ \A s \in Slots :
          /\ DOMAIN sl[s] = {"inputs", "inUse"} /\ sl[s].inUse = w.ic.slots[s].inUse
          /\ sl[s].inputs = Filled(w.ic.slots[s].inputs, p, t)
    BY <2>1 DEF FilledSlot
  <2> HIDE DEF sl
  <2>4. \A s \in Slots : SlotShape(sl[s])
    BY <2>1, <2>3, FilledIsSeq DEF SlotShape
  <2> QED BY <2>1, <2>2, <2>3, <2>4 DEF SameUse, CacheShape, DecodeInv, Acc
<1>5. Acc(v.req, v.seqs, v.sem, v.ic)
  BY <1>2, <1>3, <1>4, SameKeeps DEF DecodeInv
<1> QED BY <1>2, <1>5 DEF DecodeInv

\* A sequence that ends in round i leaves the later rounds alone.
LEMMA RemoveInRound ==
    ASSUME NEW w, NEW i \in Idx, NEW sq, DecodeInv(w, i, sq), w.seqs[i] # None, NEW why,
           NEW v, v = removeSequence(w, i, why)
    PROVE  DecodeInv(v, i + 1, sq)
<1>1. {"req", "seqs", "sem", "ic"} \subseteq DOMAIN w /\ Acc(w.req, w.seqs, w.sem, w.ic)
  BY DEF DecodeInv
<1>2. /\ DOMAIN v = DOMAIN w /\ v.seqs = [w.seqs EXCEPT ![i] = None]
      /\ Acc(v.req, v.seqs, v.sem, v.ic)
  BY <1>1, RemoveKeeps
<1>3. v.panic = w.panic
  BY DEF DecodeInv, removeSequence
<1>4. i \in Int /\ Idx \subseteq Int /\ w.seqs \in [Idx -> Requests \cup {None}]
  BY SlotCount DEF Idx, DecodeInv, Acc, Owners
<1>5. ASSUME NEW j \in Idx, j >= i + 1 PROVE v.seqs[j] = sq[j]
  <2>1. j # i /\ j >= i
    BY <1>4, <1>5
  <2>2. v.seqs[j] = w.seqs[j]
    BY <2>1, <1>2, <1>4
  <2> QED BY <2>1, <2>2 DEF DecodeInv
<1> QED BY <1>2, <1>3, <1>5 DEF DecodeInv

\* A step that ends no sequence does so too.
LEMMA StayInRound ==
    ASSUME NEW w, NEW i \in Idx, NEW sq, DecodeInv(w, i, sq)
    PROVE  DecodeInv(w, i + 1, sq)
<1>1. i \in Int /\ Idx \subseteq Int
  BY SlotCount DEF Idx
<1> QED BY <1>1 DEF DecodeInv

\* What sampling may lead to.
LEMMA SampledWays ==
    ASSUME NEW w, NEW i, NEW q, NEW o, NEW v, v = Sampled(w, i, q, o)
    PROVE  \/ \E why : v = removeSequence(w, i, why)
           \/ \E x : v = [w EXCEPT !.req[q].held = x]
           \/ v = StopAt(w, i, w.req[q].slot, o.cut)
<1>2. CASE o.what = "eos"
  BY <1>2 DEF Sampled
<1>3. CASE o.what # "eos" /\ w.req[q].limit > 0 /\ w.req[q].predicted >= w.req[q].limit
  BY <1>3 DEF Sampled
<1>4. CASE o.what # "eos" /\ ~(w.req[q].limit > 0 /\ w.req[q].predicted >= w.req[q].limit)
  <2>1. CASE o.what = "stop"
    BY <1>4, <2>1 DEF Sampled
  <2>2. CASE o.what = "hold"
    BY <1>4, <2>2 DEF Sampled
  <2>3. CASE o.what = "flush"
    BY <1>4, <2>3 DEF Sampled
  <2>4. CASE o.what \notin {"stop", "hold", "flush"}
    BY <1>4, <2>4 DEF Sampled
  <2> QED BY <2>1, <2>2, <2>3, <2>4
<1> QED BY <1>2, <1>3, <1>4

\* Sampling a token ends the sequence of the round, or changes what is held back.
LEMMA SampledKeeps ==
    ASSUME NEW w, NEW i \in Idx, NEW sq, DecodeInv(w, i, sq), w.seqs[i] # None,
           w.panic = "no", NEW q, NEW o, o.cut \in Int
    PROVE  DecodeInv(Sampled(w, i, q, o), i + 1, sq)
<1> DEFINE v == Sampled(w, i, q, o)
<1>1. ASSUME NEW why, v = removeSequence(w, i, why)
      PROVE  DecodeInv(v, i + 1, sq)
  <2> HIDE DEF v
  <2> QED BY <1>1, RemoveInRound
<1>2. ASSUME NEW x, v = [w EXCEPT !.req[q].held = x]
      PROVE  DecodeInv(v, i + 1, sq)
  <2> HIDE DEF v
  <2>1. /\ DOMAIN v = DOMAIN w /\ v.seqs = w.seqs /\ v.sem = w.sem /\ v.panic = w.panic
        /\ v.ic = w.ic /\ v.req = [w.req EXCEPT ![q].held = x]
    BY <1>2 DEF DecodeInv
  <2>2. SameReq(w.req, v.req) /\ SameUse(w.ic, v.ic)
    BY <2>1 DEF DecodeInv, Acc, ReqShape, SameReq, SameUse
  <2>3. Acc(v.req, v.seqs, v.sem, v.ic)
    BY <2>1, <2>2, SameKeeps DEF DecodeInv
  <2>4. DecodeInv(v, i, sq)
    BY <2>1, <2>3 DEF DecodeInv
  <2> QED BY <2>4, StayInRound
<1>3. ASSUME v = StopAt(w, i, w.req[q].slot, o.cut)
      PROVE  DecodeInv(v, i + 1, sq)
  <2> DEFINE s == w.req[q].slot
             x == SubSeq(w.ic.slots[s].inputs, 1, Len(w.ic.slots[s].inputs) - o.cut)
             u == [w EXCEPT !.ic.slots[s].inputs = x]
  <2> HIDE DEF v
  <2>1. CASE o.cut > Len(w.ic.slots[s].inputs)
    <3>1. v = [w EXCEPT !.panic = "stop"]
      BY <1>3, <2>1 DEF StopAt
    <3>2. DecodeInv(v, i, sq)
      BY <3>1 DEF DecodeInv
    <3> QED BY <3>2, StayInRound
  <2>2. CASE ~(o.cut > Len(w.ic.slots[s].inputs))
    <3>1. v = removeSequence(u, i, "stop")
      BY <1>3, <2>2 DEF StopAt
    <3>2. s \in Slots => IsSeq(x)
      BY SubIsSeq DEF DecodeInv, Acc, CacheShape, SlotShape, IsSeq
    <3> HIDE DEF s, x
    <3>3. /\ DOMAIN u = DOMAIN w /\ u.seqs = w.seqs /\ u.sem = w.sem /\ u.panic = w.panic
          /\ u.req = w.req /\ u.ic = [w.ic EXCEPT !.slots[s].inputs = x]
      BY DEF DecodeInv
    <3> HIDE DEF u
    <3>4. SameUse(w.ic, u.ic)
      <4>1. u.ic = [w.ic EXCEPT !.kv = w.ic.kv, !.slots[s].inputs = x]
        BY <3>3 DEF DecodeInv, Acc, CacheShape
      <4>2. CacheShape(w.ic)
        BY DEF DecodeInv, Acc
      <4> QED BY <4>1, <4>2, <3>2, InputsOfSlot
    <3>5. SameReq(w.req, u.req)
      BY <3>3 DEF SameReq, DecodeInv, Acc
    <3>6. Acc(u.req, u.seqs, u.sem, u.ic)
      BY <3>3, <3>4, <3>5, SameKeeps DEF DecodeInv
    <3>7. DecodeInv(u, i, sq) /\ u.seqs[i] # None
      BY <3>3, <3>6 DEF DecodeInv
    <3> QED BY <3>1, <3>7, RemoveInRound
  <2> QED BY <2>1, <2>2
<1>4. \/ \E why : v = removeSequence(w, i, why)
      \/ \E x : v = [w EXCEPT !.req[q].held = x]
      \/ v = StopAt(w, i, w.req[q].slot, o.cut)
  BY SampledWays
<1> QED BY <1>1, <1>2, <1>3, <1>4

\* A round of the loop: nothing happens after a panic, and otherwise the token
\* becomes known and is sampled.
LEMMA DecodeOneKeeps ==
    ASSUME NEW w, NEW i \in Idx, NEW sq, DecodeInv(w, i, sq), w.seqs[i] # None,
           NEW p, NEW o, o.cut \in Int
    PROVE  DecodeInv(DecodeOne(w, i, p, o), i + 1, sq)
<1>1. CASE w.panic # "no"
  BY <1>1, StayInRound DEF DecodeOne
<1>2. CASE w.panic = "no"
  <2> DEFINE v == Known(w, p, o.token)
  <2>1. DecodeOne(w, i, p, o) = Sampled(v, i, p.of, o)
    BY <1>2 DEF DecodeOne, Known
  <2>2. DecodeInv(v, i, sq) /\ v.seqs = w.seqs /\ v.panic = w.panic
    BY ResolveKeeps
  <2> HIDE DEF v
  <2> QED BY <1>2, <2>1, <2>2, SampledKeeps
<1> QED BY <1>1, <1>2

\* The rounds of the loop are defined one after the other.
LEMMA DecodedRounds ==
    ASSUME NEW w0, NEW b, NEW outcome
    PROVE  Decoded(w0, b, outcome) = [n \in 0 .. NumSlots |->
               IF n = 0 THEN w0
               ELSE DecodeIndex(Decoded(w0, b, outcome)[n - 1], n - 1, b, outcome)]
<1> DEFINE G(w, n) == DecodeIndex(w, n - 1, b, outcome)
           S == {k \in Nat : \E f : f = [n \in 0 .. k |-> IF n = 0 THEN w0 ELSE G(f[n - 1], n)]}
<1> HIDE DEF G
<1>1. 0 \in S
  <2> DEFINE f == [n \in 0 .. 0 |-> w0]
  <2>1. f = [n \in 0 .. 0 |-> IF n = 0 THEN w0 ELSE G(f[n - 1], n)]
    OBVIOUS
  <2> QED BY <2>1
<1>2. ASSUME NEW k \in Nat, k \in S PROVE k + 1 \in S
  <2>1. PICK f : f = [n \in 0 .. k |-> IF n = 0 THEN w0 ELSE G(f[n - 1], n)]
    BY <1>2
  <2> DEFINE g == [n \in 0 .. k + 1 |-> IF n <= k THEN f[n] ELSE G(f[k], n)]
  <2>2. ASSUME NEW n \in 0 .. k + 1 PROVE g[n] = IF n = 0 THEN w0 ELSE G(g[n - 1], n)
    <3>1. CASE n = 0
      BY <2>1, <3>1
    <3>2. CASE n \in 1 .. k
      <4>1. g[n - 1] = f[n - 1] /\ g[n] = f[n]
        BY <3>2
      <4>2. f[n] = G(f[n - 1], n)
        BY <2>1, <3>2
      <4> QED BY <4>1, <4>2, <3>2
    <3>3. CASE n = k + 1
      <4>1. g[n] = G(f[k], n) /\ g[n - 1] = f[k]
        BY <3>3
      <4> QED BY <4>1, <3>3
    <3> QED BY <3>1, <3>2, <3>3
  <2>3. g = [n \in 0 .. k + 1 |-> IF n = 0 THEN w0 ELSE G(g[n - 1], n)]
    BY <2>2
  <2> HIDE DEF g
  <2> QED BY <2>3
<1> HIDE DEF S
<1>3. NumSlots \in S
  BY <1>1, <1>2, Induct, SlotCount
<1>4. PICK f : f = [n \in 0 .. NumSlots |-> IF n = 0 THEN w0 ELSE G(f[n - 1], n)]
  BY <1>3 DEF S
<1> QED BY <1>4 DEF Decoded, G

\* The loop of computeBatch keeps the account.
LEMMA DecodeAllKeeps ==
    ASSUME NEW w0, NEW b, NEW sq, DecodeInv(w0, 0, sq),
           NEW mine \in SUBSET {i \in Idx : sq[i] # None}, NEW outcome \in [mine -> Outcomes]
    PROVE  DecodeInv(DecodeAll(w0, b, outcome), NumSlots, sq)
<1> DEFINE D == Decoded(w0, b, outcome)
           S == {n \in Nat : n <= NumSlots => DecodeInv(D[n], n, sq)}
<1>1. D = [n \in 0 .. NumSlots |-> IF n = 0 THEN w0 ELSE DecodeIndex(D[n - 1], n - 1, b, outcome)]
  BY DecodedRounds
<1> HIDE DEF D
<1>2. 0 \in S
  BY <1>1, SlotCount
<1>3. ASSUME NEW n \in Nat, n \in S PROVE n + 1 \in S
  <2> SUFFICES ASSUME n + 1 <= NumSlots PROVE DecodeInv(D[n + 1], n + 1, sq)
    OBVIOUS
  <2>1. DecodeInv(D[n], n, sq)
    BY <1>3, SlotCount
  <2>2. n + 1 \in 0 .. NumSlots /\ n + 1 # 0 /\ (n + 1) - 1 = n /\ n \in Idx /\ n >= n
    BY SlotCount DEF Idx, Slots
  <2>3. D[n + 1] = DecodeIndex(D[n], n, b, outcome)
    BY <1>1, <2>2
  <2>4. CASE n \in mine
    <3>1. D[n].seqs[n] # None
      BY <2>1, <2>2, <2>4 DEF DecodeInv
    <3>2. outcome[n].cut \in Int
      BY <2>4, RunnerConstants DEF Outcomes
    <3>3. D[n + 1] = DecodeOne(D[n], n, b.next[n], outcome[n])
      BY <2>3, <2>4 DEF DecodeIndex
    <3> QED BY <2>1, <2>2, <3>1, <3>2, <3>3, DecodeOneKeeps
  <2>5. CASE n \notin mine
    <3>1. D[n + 1] = D[n]
      BY <2>3, <2>5 DEF DecodeIndex
    <3> QED BY <2>1, <2>2, <3>1, StayInRound
  <2> QED BY <2>4, <2>5
<1> HIDE DEF S
<1>4. NumSlots \in S
  BY <1>2, <1>3, Induct, SlotCount
<1> QED BY <1>4, SlotCount DEF S, D, DecodeAll

-----------------------------------------------------------------------------
(* The invariant holds *)

\* In the beginning no permit is taken, and every entry and slot is free.
LEMMA SlotInit == Init => SlotInv
<1> SUFFICES ASSUME Init PROVE SlotInv
  OBVIOUS
<1>1. ReqShape(req)
  BY DEF Init, ReqShape, Blank, IsSeq
<1>2. PICK window \in Windows, multi \in MultiUser : ic = NewInputCache(window, multi)
  BY DEF Init
<1>3. /\ DOMAIN ic = {"kv", "slots", "used", "multi"}
      /\ ic.slots = [s \in Slots |-> [inputs |-> <<>>, inUse |-> FALSE]]
      /\ ic.used = [i \in 1 .. NumSlots |-> i - 1]
  BY <1>2 DEF NewInputCache
<1>4. CacheShape(ic)
  <2>1. \A s \in Slots : s + 1 \in 1 .. NumSlots /\ ic.used[s + 1] = s
    BY <1>3, SlotCount DEF Slots
  <2>2. \A s \in Slots : SlotShape(ic.slots[s])
    <3>1. SlotShape([inputs |-> <<>>, inUse |-> FALSE])
      BY DEF SlotShape, IsSeq
    <3> QED BY <3>1, <1>3
  <2> QED BY <1>3, <2>1, <2>2 DEF CacheShape
<1>5. Occupied(seqs) = {} /\ Loading(req) = {}
  BY DEF Init, Occupied, Loading, Blank
<1>6. Owners(req, seqs) /\ InUse(req, seqs, ic)
  BY <1>3, <1>5 DEF Init, Owners, InUse
<1>7. Permits(req, seqs, sem)
  <2>1. Cardinality(Occupied(seqs)) = 0 /\ Cardinality(Loading(req)) = 0
    BY <1>5, FS_EmptySet
  <2> QED BY <2>1, SlotCount DEF Init, Permits
<1> QED BY <1>1, <1>4, <1>6, <1>7 DEF Init, SlotInv, Acc

\* Accepting a request, or one that ends before it has a permit, counts nothing.
LEMMA SubmitKeeps == ASSUME SlotInv, NEW q \in Requests, Submit(q) PROVE SlotInv'
<1>1. PICK shape \in Shapes :
        \/ req' = [req EXCEPT ![q].pc = "done", ![q].reason = "error"]
        \/ req' = [req EXCEPT ![q] =
              [Blank EXCEPT !.pc = "acquire",
                            !.inputs = [i \in DOMAIN Truncated(shape) |-> Input(Truncated(shape)[i])],
                            !.limit = shape.limit, !.keep = Keep(shape), !.shift = shape.shift]]
  BY DEF Submit
<1>2. req[q].pc = "new" /\ UNCHANGED <<seqs, sem, ic, nextSeq, panic>>
  BY DEF Submit
<1>3. Keep(shape) \in Int /\ IsSeq(Truncated(shape))
  <2> DEFINE a == NumCtx - 1
             n == Len(shape.prompt)
             b == IF shape.keep < 0 THEN n ELSE shape.keep
  <2>1. shape.prompt \in Seq(Nat \ {0}) /\ shape.keep \in Int /\ NumCtx \in Int
    BY RunnerConstants, CacheConstants
  <2>2. n \in Int /\ a \in Int /\ b \in Int /\ IsSeq(shape.prompt)
    BY <2>1 DEF IsSeq
  <2> HIDE DEF a, b
  <2>3. Keep(shape) \in Int
    BY <2>2, MinOfTwo DEF Keep, a, b
  <2>4. /\ IsSeq(SubSeq(shape.prompt, 1, Keep(shape)))
        /\ IsSeq(SubSeq(shape.prompt, Keep(shape) + n - NumCtx + 1, n))
    BY <2>1, <2>2, <2>3, SubIsSeq
  <2>5. IsSeq(SubSeq(shape.prompt, 1, Keep(shape))
                \o SubSeq(shape.prompt, Keep(shape) + n - NumCtx + 1, n))
    BY <2>4, CatIsSeq
  <2> QED BY <2>2, <2>3, <2>5 DEF Truncated
<1> DEFINE new == req'[q]
<1>4. /\ DOMAIN req' = Requests
      /\ \A x \in Requests : x # q => req'[x] = req[x]
      /\ DOMAIN new = {"pc", "inputs", "pending", "slot", "iBatch", "predicted", "held",
                       "quit", "limit", "keep", "shift", "reason"}
      /\ IsSeq(new.inputs) /\ IsSeq(new.pending) /\ new.keep \in Int
      /\ new.pc \in {"done", "acquire"}
  <2>1. /\ DOMAIN req = Requests /\ IsSeq(req[q].inputs) /\ IsSeq(req[q].pending)
        /\ DOMAIN req[q] = {"pc", "inputs", "pending", "slot", "iBatch", "predicted", "held",
                            "quit", "limit", "keep", "shift", "reason"}
        /\ req[q].keep \in Int
    BY DEF SlotInv, Acc, ReqShape
  <2>2. CASE req' = [req EXCEPT ![q].pc = "done", ![q].reason = "error"]
    BY <2>1, <2>2
  <2>3. CASE req' = [req EXCEPT ![q] =
              [Blank EXCEPT !.pc = "acquire",
                            !.inputs = [i \in DOMAIN Truncated(shape) |-> Input(Truncated(shape)[i])],
                            !.limit = shape.limit, !.keep = Keep(shape), !.shift = shape.shift]]
    <3> DEFINE f == [i \in DOMAIN Truncated(shape) |-> Input(Truncated(shape)[i])]
    <3>1. IsSeq(f) /\ IsSeq(<<>>)
      BY <1>3 DEF IsSeq
    <3> HIDE DEF f
    <3>2. /\ DOMAIN req' = Requests
          /\ \A x \in Requests : x # q => req'[x] = req[x]
          /\ new = [Blank EXCEPT !.pc = "acquire", !.inputs = f,
                        !.limit = shape.limit, !.keep = Keep(shape), !.shift = shape.shift]
      BY <2>1, <2>3 DEF f
    <3> HIDE DEF new
    <3> QED BY <3>1, <3>2, <1>3 DEF Blank
  <2> QED BY <1>1, <2>2, <2>3
<1> HIDE DEF new
<1>5. ReqShape(req')
  BY <1>4 DEF SlotInv, Acc, ReqShape, new
<1>6. Loading(req') = Loading(req)
  BY <1>2, <1>4 DEF Loading, new
<1>7. \A i \in Occupied(seqs) : seqs[i] \in Requests /\ req'[seqs[i]] = req[seqs[i]]
  BY <1>2, <1>4 DEF SlotInv, Acc, Owners, Occupied
<1>8. Owners(req', seqs) /\ InUse(req', seqs, ic) /\ Permits(req', seqs, sem)
  <2>1. Owners(req', seqs) /\ InUse(req', seqs, ic)
    BY <1>7, OthersKept DEF SlotInv, Acc
  <2> QED BY <2>1, <1>6 DEF SlotInv, Acc, Permits
<1> QED BY <1>2, <1>5, <1>8 DEF SlotInv, Acc

\* A permit is there to be taken.
LEMMA AcquireKeeps == ASSUME SlotInv, NEW q \in Requests, Acquire(q) PROVE SlotInv'
<1>1. /\ req[q].pc = "acquire" /\ sem < NumSlots /\ sem' = sem + 1
      /\ req' = [req EXCEPT ![q].pc = "load"] /\ UNCHANGED <<seqs, ic, nextSeq, panic>>
  BY DEF Acquire
<1>2. /\ ReqShape(req') /\ req'[q].pc = "load"
      /\ \A x \in Requests : x # q => req'[x] = req[x]
  BY <1>1 DEF SlotInv, Acc, ReqShape
<1>3. Loading(req') = Loading(req) \cup {q} /\ q \notin Loading(req)
  BY <1>1, <1>2 DEF Loading
<1>4. \A i \in Occupied(seqs) : seqs[i] \in Requests /\ req'[seqs[i]] = req[seqs[i]]
  BY <1>1, <1>2 DEF SlotInv, Acc, Owners, Occupied
<1>5. Owners(req', seqs) /\ InUse(req', seqs, ic)
  BY <1>4, OthersKept DEF SlotInv, Acc
<1>6. Permits(req', seqs, sem')
  <2>1. Cardinality(Loading(req')) = Cardinality(Loading(req)) + 1
    BY <1>3, Counted, FS_AddElement
  <2>2. Cardinality(Loading(req)) \in Nat /\ Cardinality(Occupied(seqs)) \in Nat
    BY Counted
  <2>3. sem = Cardinality(Loading(req)) + Cardinality(Occupied(seqs)) /\ NumSlots \in Nat
    BY SlotCount DEF SlotInv, Acc, Permits
  <2>4. sem' = Cardinality(Loading(req')) + Cardinality(Occupied(seqs)) /\ sem' <= NumSlots
    BY <2>1, <2>2, <2>3, <1>1
  <2> QED BY <2>4 DEF Permits
<1> QED BY <1>1, <1>2, <1>5, <1>6 DEF SlotInv, Acc

\* A client that goes away counts nothing either: before Acquire the request
\* has no permit, and after it the loop ends the sequence.
LEMMA ClientGoneKeeps == ASSUME SlotInv, NEW q \in Requests, ClientGone(q) PROVE SlotInv'
<1>1. UNCHANGED <<seqs, sem, ic, nextSeq, panic>>
  BY DEF ClientGone
<1>2. CASE req[q].pc = "acquire"
  <2> DEFINE new == [Blank EXCEPT !.pc = "done", !.reason = "gone"]
  <2>1. req' = [req EXCEPT ![q] = new]
    BY <1>2 DEF ClientGone
  <2>2. /\ DOMAIN new = {"pc", "inputs", "pending", "slot", "iBatch", "predicted", "held",
                         "quit", "limit", "keep", "shift", "reason"}
        /\ IsSeq(new.inputs) /\ IsSeq(new.pending) /\ new.keep \in Int /\ new.pc = "done"
    BY DEF Blank, IsSeq
  <2> HIDE DEF new
  <2>3. /\ ReqShape(req') /\ req'[q].pc = "done"
        /\ \A x \in Requests : x # q => req'[x] = req[x]
    BY <2>1, <2>2 DEF SlotInv, Acc, ReqShape
  <2>4. Loading(req') = Loading(req)
    BY <1>2, <2>3 DEF Loading
  <2>5. \A i \in Occupied(seqs) : seqs[i] \in Requests /\ req'[seqs[i]] = req[seqs[i]]
    BY <1>2, <2>3 DEF SlotInv, Acc, Owners, Occupied
  <2>6. Owners(req', seqs) /\ InUse(req', seqs, ic) /\ Permits(req', seqs, sem)
    <3>1. Owners(req', seqs) /\ InUse(req', seqs, ic)
      BY <2>5, OthersKept DEF SlotInv, Acc
    <3> QED BY <3>1, <2>4 DEF SlotInv, Acc, Permits
  <2> QED BY <1>1, <2>3, <2>6 DEF SlotInv, Acc
<1>3. CASE req[q].pc # "acquire"
  <2>1. req' = [req EXCEPT ![q].quit = TRUE]
    BY <1>3 DEF ClientGone
  <2>2. SameReq(req, req') /\ SameUse(ic, ic)
    BY <2>1 DEF SameReq, SameUse, SlotInv, Acc, ReqShape
  <2>3. Acc(req', seqs, sem, ic)
    BY <2>2, SameKeeps DEF SlotInv
  <2> QED BY <1>1, <2>3 DEF SlotInv
<1> QED BY <1>2, <1>3

\* A handler that got through Acquire finds an entry and a cache slot.
LEMMA RoomForLoad ==
    ASSUME NEW rq, NEW sq, NEW sm, NEW c, Acc(rq, sq, sm, c),
           NEW q \in Requests, rq[q].pc = "load"
    PROVE  {i \in Idx : sq[i] = None} # {} /\ FreeSlots(c) # {}
<1>1. q \in Loading(rq)
  BY DEF Loading
<1>2. Cardinality(Loading(rq)) \in Nat /\ Cardinality(Loading(rq)) # 0
  BY <1>1, Counted, FS_EmptySet
<1>3. Cardinality(Occupied(sq)) \in Nat /\ Cardinality(Occupied(sq)) < NumSlots
  BY <1>2, Counted, SlotCount DEF Acc, Permits
<1>4. {i \in Idx : sq[i] = None} # {}
  <2> SUFFICES ASSUME {i \in Idx : sq[i] = None} = {} PROVE FALSE
    OBVIOUS
  <2>1. Occupied(sq) = Slots
    BY DEF Occupied, Idx
  <2> QED BY <2>1, <1>3, SlotCount
<1>5. FreeSlots(c) # {}
  <2> SUFFICES ASSUME FreeSlots(c) = {} PROVE FALSE
    OBVIOUS
  <2> DEFINE f == [i \in Occupied(sq) |-> rq[sq[i]].slot]
  <2>1. \A s \in Slots : \E i \in Occupied(sq) : f[i] = s
    BY DEF FreeSlots, Acc, InUse
  <2>2. f \in [Occupied(sq) -> Slots]
    BY DEF Acc, Owners
  <2> HIDE DEF f
  <2>3. f \in Surjection(Occupied(sq), Slots)
    BY <2>1, <2>2 DEF Surjection
  <2>4. Cardinality(Slots) <= Cardinality(Occupied(sq))
    BY <2>3, Counted, FS_Surjection
  <2> QED BY <2>4, <1>3, SlotCount
<1> QED BY <1>4, <1>5

\* So the handler goes on with a slot that was free.
LEMMA LoadStep ==
    ASSUME SlotInv, NEW q \in Requests, Load(q)
    PROVE  \E at, got :
             /\ at \in Idx /\ seqs[at] = None
             /\ Loaded(ic, req[q].inputs, got)
             /\ req' = [req EXCEPT ![q].pc = "stream", ![q].slot = got.slot,
                                   ![q].inputs = got.inputs]
             /\ seqs' = [seqs EXCEPT ![at] = q]
             /\ ic' = got.ic /\ sem' = sem /\ panic' = panic
<1> DEFINE free == {i \in Idx : seqs[i] = None}
           got  == LoadCacheSlot(ic, req[q].inputs)
           at   == Min(free)
<1>1. req[q].pc = "load"
  BY DEF Load
<1>2. free # {} /\ FreeSlots(ic) # {}
  BY <1>1, RoomForLoad DEF SlotInv
<1>3. /\ req' = [req EXCEPT ![q].pc = "stream", ![q].slot = got.slot, ![q].inputs = got.inputs]
      /\ seqs' = [seqs EXCEPT ![at] = q]
      /\ ic' = got.ic /\ sem' = sem /\ panic' = panic
  BY <1>2 DEF Load
<1>4. at \in Idx /\ seqs[at] = None
  <2>1. free \in SUBSET Nat
    BY SlotCount DEF Idx
  <2> HIDE DEF free
  <2>2. at \in free
    BY <1>2, <2>1, MinIn
  <2> QED BY <2>2 DEF free
<1>5. Loaded(ic, req[q].inputs, got)
  BY <1>2, LoadFinds DEF SlotInv, Acc, ReqShape
<1> HIDE DEF free, got, at
<1> QED BY <1>3, <1>4, <1>5

\* The permit of the handler becomes the entry and the slot of the sequence.
LEMMA LoadKeeps == ASSUME SlotInv, NEW q \in Requests, Load(q) PROVE SlotInv'
<1>1. req[q].pc = "load" /\ UNCHANGED nextSeq
  BY DEF Load
<1>2. PICK at, got :
         /\ at \in Idx /\ seqs[at] = None
         /\ Loaded(ic, req[q].inputs, got)
         /\ req' = [req EXCEPT ![q].pc = "stream", ![q].slot = got.slot, ![q].inputs = got.inputs]
         /\ seqs' = [seqs EXCEPT ![at] = q]
         /\ ic' = got.ic /\ sem' = sem /\ panic' = panic
  BY LoadStep
<1>3. /\ req' = [req EXCEPT ![q].pc = "stream", ![q].slot = got.slot, ![q].inputs = got.inputs]
      /\ seqs' = [seqs EXCEPT ![at] = q]
      /\ ic' = got.ic /\ sem' = sem /\ panic' = panic
  BY <1>2
<1>4. at \in Idx /\ seqs[at] = None
  BY <1>2
<1>5. Loaded(ic, req[q].inputs, got)
  BY <1>2
<1>6. got.slot \in Slots /\ ~ic.slots[got.slot].inUse
  BY <1>5 DEF Loaded, FreeSlots
<1>7. /\ ReqShape(req') /\ req'[q].pc = "stream" /\ req'[q].slot = got.slot
      /\ \A x \in Requests : x # q => req'[x] = req[x]
  BY <1>3, <1>5 DEF SlotInv, Acc, ReqShape, Loaded
<1>8. /\ seqs' \in [Idx -> Requests \cup {None}]
      /\ \A i \in Idx : seqs'[i] = IF i = at THEN q ELSE seqs[i]
  BY <1>3 DEF SlotInv, Acc, Owners
<1>9. q # None
  BY RunnerConstants
<1>10. Occupied(seqs') = Occupied(seqs) \cup {at} /\ at \notin Occupied(seqs)
  BY <1>4, <1>8, <1>9 DEF Occupied
<1>11. \A i \in Occupied(seqs) :
         /\ i # at /\ i \in Idx /\ seqs'[i] = seqs[i] /\ seqs[i] \in Requests /\ seqs[i] # q
         /\ req'[seqs[i]] = req[seqs[i]] /\ req[seqs[i]].slot # got.slot
         /\ req[seqs[i]].slot \in Slots /\ req[seqs[i]].pc = "stream"
  <2> TAKE i \in Occupied(seqs)
  <2>1. i # at /\ i \in Idx /\ seqs[i] \in Requests /\ req[seqs[i]].pc = "stream"
    BY <1>10 DEF SlotInv, Acc, Owners, Occupied
  <2>2. seqs[i] # q /\ seqs'[i] = seqs[i]
    BY <2>1, <1>1, <1>8
  <2>3. req[seqs[i]].slot # got.slot /\ req[seqs[i]].slot \in Slots
    BY <1>6 DEF SlotInv, Acc, InUse, Owners
  <2> QED BY <2>1, <2>2, <2>3, <1>7
<1>12. seqs'[at] = q
  BY <1>4, <1>8
<1>13. Owners(req', seqs')
  <2>1. \A i \in Occupied(seqs') : req'[seqs'[i]].pc = "stream" /\ req'[seqs'[i]].slot \in Slots
    <3> TAKE i \in Occupied(seqs')
    <3>1. CASE i = at
      BY <3>1, <1>6, <1>7, <1>12
    <3>2. CASE i \in Occupied(seqs)
      BY <3>2, <1>11
    <3> QED BY <3>1, <3>2, <1>10
  <2>2. \A i, j \in Occupied(seqs') : i # j =>
            seqs'[i] # seqs'[j] /\ req'[seqs'[i]].slot # req'[seqs'[j]].slot
    <3> SUFFICES ASSUME NEW i \in Occupied(seqs'), NEW j \in Occupied(seqs'), i # j
                 PROVE  seqs'[i] # seqs'[j] /\ req'[seqs'[i]].slot # req'[seqs'[j]].slot
      OBVIOUS
    <3>1. CASE i = at
      BY <3>1, <1>7, <1>10, <1>11, <1>12
    <3>2. CASE j = at
      BY <3>2, <1>7, <1>10, <1>11, <1>12
    <3>3. CASE i \in Occupied(seqs) /\ j \in Occupied(seqs)
      <4>1. seqs[i] # seqs[j] /\ req[seqs[i]].slot # req[seqs[j]].slot
        BY <3>3 DEF SlotInv, Acc, Owners
      <4> QED BY <4>1, <3>3, <1>11
    <3> QED BY <3>1, <3>2, <3>3, <1>10
  <2> QED BY <1>8, <2>1, <2>2 DEF Owners
<1>14. InUse(req', seqs', ic')
  <2> SUFFICES ASSUME NEW s \in Slots
               PROVE  ic'.slots[s].inUse <=> \E i \in Occupied(seqs') : req'[seqs'[i]].slot = s
    BY DEF InUse
  <2>1. ic'.slots[s].inUse <=> (s = got.slot \/ \E i \in Occupied(seqs) : req[seqs[i]].slot = s)
    BY <1>3, <1>5 DEF Loaded, SlotInv, Acc, InUse
  <2>2. req'[seqs'[at]].slot = got.slot /\ at \in Occupied(seqs')
    BY <1>7, <1>10, <1>12
  <2>3. \A i \in Occupied(seqs) : i \in Occupied(seqs') /\ req'[seqs'[i]].slot = req[seqs[i]].slot
    BY <1>10, <1>11
  <2> QED BY <2>1, <2>2, <2>3, <1>10
<1>15. Permits(req', seqs', sem')
  <2>1. Loading(req') = Loading(req) \ {q} /\ q \in Loading(req)
    BY <1>1, <1>7 DEF Loading
  <2>2. Cardinality(Loading(req')) = Cardinality(Loading(req)) - 1
    BY <2>1, Counted, FS_RemoveElement
  <2>3. Cardinality(Occupied(seqs')) = Cardinality(Occupied(seqs)) + 1
    BY <1>10, Counted, FS_AddElement
  <2>4. Cardinality(Loading(req)) \in Nat /\ Cardinality(Occupied(seqs)) \in Nat
    BY Counted
  <2>5. sem = Cardinality(Loading(req)) + Cardinality(Occupied(seqs)) /\ sem <= NumSlots
    BY DEF SlotInv, Acc, Permits
  <2>6. sem' = Cardinality(Loading(req')) + Cardinality(Occupied(seqs')) /\ sem' <= NumSlots
    BY <2>2, <2>3, <2>4, <2>5, <1>3
  <2> QED BY <2>6 DEF Permits
<1>16. CacheShape(ic')
  BY <1>3, <1>5 DEF Loaded
<1> QED BY <1>1, <1>3, <1>7, <1>13, <1>14, <1>15, <1>16 DEF SlotInv, Acc

\* forwardBatch.
LEMMA ForwardKeeps == ASSUME SlotInv, ForwardBatch PROVE SlotInv'
<1> DEFINE w0 == [req |-> req, seqs |-> seqs, sem |-> sem, ic |-> ic, snapshot |-> seqs,
                  entries |-> <<>>, outputs |-> <<>>, resume |-> None]
           w  == VisitAll(w0)
<1>1. VisitInv(w0) /\ nextSeq \in Nat
  <2>1. /\ DOMAIN w0 = {"req", "seqs", "sem", "ic", "snapshot", "entries", "outputs", "resume"}
        /\ w0.req = req /\ w0.seqs = seqs /\ w0.sem = sem /\ w0.ic = ic
        /\ w0.entries = <<>> /\ w0.resume = None
    OBVIOUS
  <2>2. IsSeq(<<>>)
    BY DEF IsSeq
  <2> HIDE DEF w0
  <2> QED BY <2>1, <2>2 DEF SlotInv, VisitInv
<1>2. /\ req' = w.req /\ seqs' = w.seqs /\ sem' = w.sem
      /\ nextSeq' = IF w.resume # None THEN w.resume
                    ELSE ((nextSeq + NumSlots - 1) % NumSlots) + 1
      /\ IF w.entries = <<>> THEN ic' = w.ic /\ UNCHANGED <<inflight, panic>>
         ELSE \E f \in {StartForward(w.ic.kv, w.entries)} :
                /\ ic' = [w.ic EXCEPT !.kv = f.kv]
                /\ IF f.full THEN panic' = "kv full" /\ UNCHANGED inflight
                   ELSE inflight' = Append(inflight, NewBatch(w, f)) /\ UNCHANGED panic
  BY DEF ForwardBatch
<1> HIDE DEF w0
<1>3. VisitInv(w)
  BY <1>1, VisitAllKeeps
<1> HIDE DEF w
<1>4. nextSeq' \in Nat
  <2>1. w.resume # None => w.resume \in Nat
    BY <1>3, SlotCount DEF VisitInv, Idx
  <2>2. ((nextSeq + NumSlots - 1) % NumSlots) + 1 \in Nat
    BY <1>1, SlotCount
  <2> QED BY <1>2, <2>1, <2>2
<1>5. panic' \in {"no", "kv full", "stop"}
  BY <1>2 DEF SlotInv
<1>6. SameUse(w.ic, ic')
  <2>1. CacheShape(w.ic)
    BY <1>3 DEF VisitInv, Acc
  <2>2. CASE w.entries = <<>>
    BY <1>2, <2>1, <2>2 DEF SameUse
  <2>3. CASE w.entries # <<>>
    <3>1. PICK kv : ic' = [w.ic EXCEPT !.kv = kv]
      BY <1>2, <2>3
    <3>2. /\ DOMAIN ic' = {"kv", "slots", "used", "multi"}
          /\ ic'.slots = w.ic.slots /\ ic'.used = w.ic.used
      BY <2>1, <3>1 DEF CacheShape
    <3> QED BY <2>1, <3>2 DEF CacheShape, SameUse
  <2> QED BY <2>2, <2>3
<1>7. SameReq(w.req, w.req)
  BY <1>3 DEF VisitInv, Acc, SameReq
<1>8. Acc(w.req, w.seqs, w.sem, ic')
  BY <1>3, <1>6, <1>7, SameKeeps DEF VisitInv
<1> QED BY <1>2, <1>4, <1>5, <1>8 DEF SlotInv

\* Gathering the inputs of a batch.
LEMMA GatherKeeps == ASSUME SlotInv, NEW k, GatherInputs(k) PROVE SlotInv'
<1>0. PICK own \in {{i \in Idx : seqs[i] # None /\ inflight[k].seqs[i] = seqs[i]}} :
        /\ ic' = [ic EXCEPT !.slots = [s \in Slots |->
                    IF \E i \in own : req[seqs[i]].slot = s
                    THEN Extended(ic.slots[s],
                            req[seqs[CHOOSE i \in own : req[seqs[i]].slot = s]].pending)
                    ELSE ic.slots[s]]]
        /\ req' = [q \in Requests |->
                    IF \E i \in own : seqs[i] = q
                    THEN [req[q] EXCEPT !.pending = <<>>,
                                        !.inputs = IF @ = <<>>
                                                   THEN <<Placeholder(q, FreshNth(q))>> ELSE @]
                    ELSE req[q]]
  BY DEF GatherInputs
<1> DEFINE of(s) == req[seqs[CHOOSE i \in own : req[seqs[i]].slot = s]].pending
           sl == [s \in Slots |-> IF \E i \in own : req[seqs[i]].slot = s
                                  THEN Extended(ic.slots[s], of(s)) ELSE ic.slots[s]]
<1>1. ic' = [ic EXCEPT !.slots = sl] /\ UNCHANGED <<seqs, sem, nextSeq, panic>>
  BY <1>0 DEF GatherInputs
<1>2. ASSUME NEW s \in Slots, \E i \in own : req[seqs[i]].slot = s PROVE IsSeq(of(s))
  <2>1. (CHOOSE i \in own : req[seqs[i]].slot = s) \in own
    BY <1>2
  <2>2. \A i \in own : seqs[i] \in Requests
    BY DEF SlotInv, Acc, Owners
  <2> QED BY <2>1, <2>2 DEF SlotInv, Acc, ReqShape
<1> HIDE DEF of
<1>3. \A s \in Slots : SlotShape(sl[s]) /\ sl[s].inUse = ic.slots[s].inUse
  <2> TAKE s \in Slots
  <2>1. /\ DOMAIN ic.slots[s] = {"inputs", "inUse"} /\ IsSeq(ic.slots[s].inputs)
        /\ ic.slots[s].inUse \in BOOLEAN
    BY DEF SlotInv, Acc, CacheShape, SlotShape
  <2>2. CASE \E i \in own : req[seqs[i]].slot = s
    <3>1. sl[s] = [ic.slots[s] EXCEPT !.inputs = @ \o of(s)]
      BY <2>2 DEF Extended
    <3>2. IsSeq(ic.slots[s].inputs \o of(s))
      BY <1>2, <2>1, <2>2, CatIsSeq
    <3>3. /\ DOMAIN sl[s] = {"inputs", "inUse"} /\ sl[s].inUse = ic.slots[s].inUse
          /\ sl[s].inputs = ic.slots[s].inputs \o of(s)
      BY <2>1, <3>1
    <3> QED BY <2>1, <3>2, <3>3 DEF SlotShape
  <2>3. CASE ~\E i \in own : req[seqs[i]].slot = s
    <3>1. sl[s] = ic.slots[s]
      BY <2>3
    <3> QED BY <2>1, <3>1 DEF SlotShape
  <2> QED BY <2>2, <2>3
<1>4. DOMAIN sl = Slots
  OBVIOUS
<1> HIDE DEF sl
<1>5. SameUse(ic, ic')
  <2>1. /\ DOMAIN ic' = {"kv", "slots", "used", "multi"} /\ ic'.slots = sl /\ ic'.used = ic.used
    BY <1>1 DEF SlotInv, Acc, CacheShape
  <2> QED BY <2>1, <1>3, <1>4 DEF SlotInv, Acc, CacheShape, SameUse
<1>6. SameReq(req, req')
  <2>1. ASSUME NEW q \in Requests
        PROVE  /\ DOMAIN req'[q] = DOMAIN req[q]
               /\ req'[q].pc = req[q].pc /\ req'[q].slot = req[q].slot
               /\ req'[q].keep = req[q].keep
               /\ IsSeq(req'[q].inputs) /\ IsSeq(req'[q].pending)
    <3> DEFINE h == <<Placeholder(q, FreshNth(q))>>
    <3>1. IsSeq(h) /\ IsSeq(<<>>)
      BY DEF IsSeq
    <3> HIDE DEF h
    <3>2. req'[q] = req[q] \/ req'[q] = [req[q] EXCEPT !.pending = <<>>,
                                            !.inputs = IF @ = <<>> THEN h ELSE @]
      BY <1>0 DEF h
    <3> QED BY <3>1, <3>2 DEF SlotInv, Acc, ReqShape
  <2>2. DOMAIN req' = Requests
    BY <1>0
  <2> QED BY <2>1, <2>2 DEF SlotInv, Acc, ReqShape, SameReq
<1>7. Acc(req', seqs, sem, ic')
  BY <1>5, <1>6, SameKeeps DEF SlotInv
<1> QED BY <1>1, <1>7 DEF SlotInv

\* Computing a batch.
LEMMA ComputeKeeps == ASSUME SlotInv, NEW k, Compute(k) PROVE SlotInv'
<1>1. PICK kv : ic' = [ic EXCEPT !.kv = kv]
  BY DEF Compute
<1>2. UNCHANGED <<req, seqs, sem, nextSeq, panic>>
  BY DEF Compute
<1>3. SameUse(ic, ic')
  <2>1. /\ DOMAIN ic' = {"kv", "slots", "used", "multi"}
        /\ ic'.slots = ic.slots /\ ic'.used = ic.used
    BY <1>1 DEF SlotInv, Acc, CacheShape
  <2> QED BY <2>1 DEF SlotInv, Acc, CacheShape, SameUse
<1>4. SameReq(req, req)
  BY DEF SlotInv, Acc, SameReq
<1>5. Acc(req, seqs, sem, ic')
  BY <1>3, <1>4, SameKeeps DEF SlotInv
<1> QED BY <1>2, <1>5 DEF SlotInv

\* Decoding a batch.
LEMMA DecodeKeeps == ASSUME SlotInv, NEW k, Decode(k) PROVE SlotInv'
<1> DEFINE mine == {i \in Idx : /\ seqs[i] # None
                                /\ inflight[k].next[i] # None
                                /\ inflight[k].seqs[i] = seqs[i]}
           w0   == [req |-> req, seqs |-> seqs, sem |-> sem, ic |-> ic,
                    inflight |-> Finished(k), panic |-> panic]
<1>1. PICK outcome \in [mine -> Outcomes] :
         \E w \in {DecodeAll(w0, inflight[k], outcome)} :
            /\ req' = w.req /\ seqs' = w.seqs /\ sem' = w.sem /\ ic' = w.ic
            /\ inflight' = w.inflight /\ panic' = w.panic
  BY DEF Decode
<1> DEFINE w == DecodeAll(w0, inflight[k], outcome)
<1>2. /\ req' = w.req /\ seqs' = w.seqs /\ sem' = w.sem /\ ic' = w.ic /\ panic' = w.panic
      /\ nextSeq' = nextSeq
  BY <1>1 DEF Decode
<1>3. DecodeInv(w0, 0, seqs)
  BY DEF Decode, Alive, SlotInv, DecodeInv
<1> HIDE DEF w0
<1>4. DecodeInv(w, NumSlots, seqs)
  <2>1. mine \in SUBSET {i \in Idx : seqs[i] # None}
    OBVIOUS
  <2> HIDE DEF mine
  <2> QED BY <1>3, <2>1, DecodeAllKeeps
<1> HIDE DEF w
<1> QED BY <1>2, <1>4 DEF SlotInv, DecodeInv

\* The invariant is inductive.
LEMMA SlotNext == SlotInv /\ [Next]_vars => SlotInv'
<1> SUFFICES ASSUME SlotInv, [Next]_vars PROVE SlotInv'
  OBVIOUS
<1>1. ASSUME NEW q \in Requests, Submit(q) \/ Acquire(q) \/ Load(q) \/ ClientGone(q)
      PROVE  SlotInv'
  BY <1>1, SubmitKeeps, AcquireKeeps, LoadKeeps, ClientGoneKeeps
<1>2. CASE ForwardBatch
  BY <1>2, ForwardKeeps
<1>3. ASSUME NEW k, GatherInputs(k) \/ Compute(k) \/ Decode(k) PROVE SlotInv'
  BY <1>3, GatherKeeps, ComputeKeeps, DecodeKeeps
<1>4. CASE UNCHANGED vars
  BY <1>4 DEF vars, SlotInv, Acc, ReqShape, CacheShape, Owners, InUse, Permits, Loading, Occupied
<1> QED BY <1>1, <1>2, <1>3, <1>4 DEF Next

\* The invariant says what the slots are accounted for.
LEMMA SlotsFromInv == SlotInv => SlotsAccounted
<1> SUFFICES ASSUME SlotInv PROVE SlotsAccounted
  OBVIOUS
<1>1. sem = Cardinality({q \in Requests : req[q].pc = "load"})
            + Cardinality({i \in Idx : seqs[i] # None})
  BY DEF SlotInv, Acc, Permits, Loading, Occupied
<1>2. {s \in Slots : ic.slots[s].inUse}
        = {req[seqs[i]].slot : i \in {j \in Idx : seqs[j] # None}}
  <2>1. \A i \in Occupied(seqs) : req[seqs[i]].slot \in Slots
    BY DEF SlotInv, Acc, Owners
  <2>2. \A s \in Slots : ic.slots[s].inUse <=> \E i \in Occupied(seqs) : req[seqs[i]].slot = s
    BY DEF SlotInv, Acc, InUse
  <2> QED BY <2>1, <2>2 DEF Occupied
<1>3. \A i, j \in Idx : i # j /\ seqs[i] # None /\ seqs[j] # None =>
            req[seqs[i]].slot # req[seqs[j]].slot
  BY DEF SlotInv, Acc, Owners, Occupied
<1>4. panic # "slot"
  BY DEF SlotInv
<1> QED BY <1>1, <1>2, <1>3, <1>4 DEF SlotsAccounted

\* A permit of the semaphore is an entry of s.seqs and a free cache slot
\* (completion, removeSequence, LoadCacheSlot): whatever the batches, the
\* shifts, the forks and the clients that go away, a handler that got through
\* Acquire finds both, no two sequences share a slot, and a slot is in use
\* exactly as long as its sequence is in s.seqs.
THEOREM SlotsAreAccounted == Spec => []SlotsAccounted
<1>1. Init => SlotInv
  BY SlotInit
<1>2. SlotInv /\ [Next]_vars => SlotInv'
  BY SlotNext
<1>3. SlotInv => SlotsAccounted
  BY SlotsFromInv
<1> QED BY <1>1, <1>2, <1>3, PTL DEF Spec
=============================================================================
