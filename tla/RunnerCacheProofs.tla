------------------------- MODULE RunnerCacheProofs -------------------------
(***************************************************************************)
(* Proofs about the caches of the runner, for any number of slots, cells,  *)
(* requests and batches: every position stays within the context, and the  *)
(* cells that Init allocates are enough for every batch.                   *)
(*                                                                         *)
(* First what the operations of the KV cache do to its cells, then what    *)
(* the input cache makes of them, then the two loops of the runner and its *)
(* actions.                                                                *)
(***************************************************************************)
EXTENDS RunnerLogitsProofs

-----------------------------------------------------------------------------
(* The number of cells *)

\* A quotient, rounded down.
LEMMA Division ==
    ASSUME NEW a \in Nat, NEW b \in Nat, b > 0
    PROVE  a \div b \in Nat /\ (a \div b) * b <= a /\ a < (a \div b) * b + b
OBVIOUS

\* Between two multiples of a number that follow each other there is none.
LEMMA Multiples ==
    ASSUME NEW a \in Nat, NEW b \in Nat, NEW d \in Nat, d > 0, a * d < b * d + d
    PROVE  a * d <= b * d
<1>1. CASE a <= b
  BY <1>1
<1>2. CASE a >= b + 1
  <2>1. a * d >= (b + 1) * d
    BY <1>2
  <2>2. (b + 1) * d = b * d + d
    OBVIOUS
  <2> QED BY <2>1, <2>2
<1> QED BY <1>1, <1>2

\* What Init allocates: a multiple of the padding, with room for every sequence
\* or, with a window, for what the windows hold and a batch.
LEMMA Sizes ==
    ASSUME NEW window \in Windows
    PROVE  /\ SwaMemory(window) \in Nat /\ SwaMemory(window) > 0 /\ SwaMemory(window) >= window
           /\ CacheSize(window) \in Nat /\ CacheSize(window) > 0 /\ CacheSize(window) < MaxInt
           /\ SwaMemory(window) = MaxInt => CacheSize(window) >= NumSlots * NumCtx
           /\ SwaMemory(window) # MaxInt => CacheSize(window) >= NumSlots * SwaMemory(window) + BatchSize
           /\ \E m \in Nat : CacheSize(window) = m * CachePadding
<1> DEFINE n    == IF SwaMemory(window) = MaxInt THEN NumSlots * NumCtx
                   ELSE NumSlots * SwaMemory(window) + BatchSize
           pads == (n + CachePadding - 1) \div CachePadding
<1>1. /\ NumSlots \in Nat /\ NumSlots > 0 /\ NumCtx \in Nat /\ NumCtx > 0
      /\ BatchSize \in Nat /\ BatchSize > 0 /\ CachePadding \in Nat /\ CachePadding > 0
      /\ MaxInt \in Nat /\ MaxInt > NumCtx + BatchSize + CachePadding + NumSlots * NumCtx
      /\ window \in Nat /\ window > 0 /\ window <= MaxInt
  BY CacheConstants, RunnerConstants
<1>2. /\ SwaMemory(window) \in Nat /\ SwaMemory(window) > 0 /\ SwaMemory(window) >= window
      /\ SwaMemory(window) # MaxInt => SwaMemory(window) < NumCtx
  BY <1>1 DEF SwaMemory
<1>3. n \in Nat /\ n > 0 /\ n <= NumSlots * NumCtx + BatchSize
  <2>1. NumSlots * NumCtx \in Nat /\ NumSlots * NumCtx > 0
    BY <1>1
  <2>2. CASE SwaMemory(window) = MaxInt
    BY <1>1, <2>1, <2>2
  <2>3. CASE SwaMemory(window) # MaxInt
    <3>1. NumSlots * SwaMemory(window) \in Nat /\ NumSlots * SwaMemory(window) <= NumSlots * NumCtx
      BY <1>1, <1>2, <2>3
    <3> QED BY <1>1, <2>1, <2>3, <3>1
  <2> QED BY <2>2, <2>3
<1>4. CacheSize(window) = pads * CachePadding
  BY DEF CacheSize, roundUp
<1> HIDE DEF n
<1>5. n + CachePadding - 1 \in Nat
  BY <1>1, <1>3
<1>6. /\ pads \in Nat /\ pads * CachePadding <= n + CachePadding - 1
      /\ n + CachePadding - 1 < pads * CachePadding + CachePadding
  BY <1>1, <1>5, Division
<1> HIDE DEF pads
<1>7. pads * CachePadding \in Nat
  BY <1>1, <1>6
<1>8. /\ CacheSize(window) \in Nat /\ CacheSize(window) >= n
      /\ CacheSize(window) <= n + CachePadding - 1
  BY <1>1, <1>3, <1>4, <1>6, <1>7
<1>9. NumSlots * NumCtx \in Nat
  BY <1>1
<1>10. CacheSize(window) > 0 /\ CacheSize(window) < MaxInt
  BY <1>1, <1>3, <1>8, <1>9
<1> QED BY <1>2, <1>4, <1>6, <1>8, <1>10 DEF n

\* The cells that a batch reads are rounded to the padding: no cell gets lost,
\* and none beyond the cache is read.
LEMMA Rounding ==
    ASSUME NEW window \in Windows, NEW lo \in 0 .. CacheSize(window) - 1,
           NEW hi \in 0 .. CacheSize(window) - 1
    PROVE  /\ roundDown(lo) \in Nat /\ roundDown(lo) <= lo
           /\ roundUp(hi + 1) \in Nat /\ roundUp(hi + 1) > hi
           /\ roundUp(hi + 1) <= CacheSize(window)
<1>1. CachePadding \in Nat /\ CachePadding > 0
  BY CacheConstants
<1>2. PICK m \in Nat : CacheSize(window) = m * CachePadding
  BY Sizes
<1>3. CacheSize(window) \in Nat /\ CacheSize(window) > 0
  BY Sizes
<1>4. lo \in Nat /\ hi \in Nat /\ hi < CacheSize(window)
  BY <1>3
<1>5. lo \div CachePadding \in Nat /\ (lo \div CachePadding) * CachePadding <= lo
  BY <1>1, <1>4, Division
<1> DEFINE up == (hi + 1 + CachePadding - 1) \div CachePadding
<1>6. hi + 1 + CachePadding - 1 \in Nat
  BY <1>1, <1>4
<1>7. /\ up \in Nat /\ up * CachePadding <= hi + 1 + CachePadding - 1
      /\ hi + 1 + CachePadding - 1 < up * CachePadding + CachePadding
  BY <1>1, <1>6, Division
<1>8. roundUp(hi + 1) = up * CachePadding
  BY DEF roundUp
<1> HIDE DEF up
<1>9. up * CachePadding \in Nat /\ m * CachePadding \in Nat
  BY <1>1, <1>7
<1>10. up * CachePadding < m * CachePadding + CachePadding
  BY <1>1, <1>2, <1>4, <1>7, <1>9
<1>11. up * CachePadding <= m * CachePadding
  BY <1>1, <1>7, <1>10, Multiples
<1>12. roundDown(lo) \in Nat /\ roundDown(lo) <= lo
  BY <1>1, <1>5 DEF roundDown
<1> QED BY <1>1, <1>2, <1>4, <1>7, <1>8, <1>9, <1>11, <1>12

-----------------------------------------------------------------------------
(* The KV cache *)

KvShape(kv) ==
    /\ DOMAIN kv = {"window", "memory", "cells", "cellRanges", "data"}
    /\ kv.window \in Windows /\ kv.memory = SwaMemory(kv.window)
    /\ DOMAIN kv.cells = 0 .. CacheSize(kv.window) - 1
    /\ DOMAIN kv.data = DOMAIN kv.cells
    /\ DOMAIN kv.cellRanges = Slots
    /\ \A c \in DOMAIN kv.cells :
        /\ DOMAIN kv.cells[c] = {"pos", "sequences"}
        /\ kv.cells[c].pos \in 0 .. NumCtx - 1
        /\ kv.cells[c].sequences \subseteq Slots
        /\ DOMAIN kv.data[c] = {"token", "pos"}

\* The range of a sequence has all of its cells.
RangeFits(kv, s) ==
    /\ kv.cellRanges[s] = None \/ kv.cellRanges[s] \in [min : Nat, max : DOMAIN kv.cells]
    /\ CellsOf(kv, s) \subseteq InRange(kv, s)

Ranges(kv) == \A s \in Slots : RangeFits(kv, s)

\* A sequence has one cell for a position.
Once(kv) ==
    \A s \in Slots : \A c, d \in CellsOf(kv, s) : kv.cells[c].pos = kv.cells[d].pos => c = d

KvOK(kv) == KvShape(kv) /\ Ranges(kv) /\ Once(kv)

\* The cells of a cache are numbers below MaxInt.
LEMMA CellsAreNumbers ==
    ASSUME NEW kv, KvShape(kv)
    PROVE  /\ CacheSize(kv.window) \in Nat /\ CacheSize(kv.window) > 0
           /\ DOMAIN kv.cells = 0 .. CacheSize(kv.window) - 1
           /\ \A c \in DOMAIN kv.cells : c \in Nat /\ c < MaxInt
           /\ \A c \in DOMAIN kv.cells : kv.cells[c].pos \in Nat /\ kv.cells[c].pos < NumCtx
           /\ 0 \in DOMAIN kv.cells /\ MaxInt \in Nat /\ NumCtx \in Nat /\ NumCtx > 0 /\ NumCtx < MaxInt
<1>1. kv.window \in Windows /\ DOMAIN kv.cells = 0 .. CacheSize(kv.window) - 1
  BY DEF KvShape
<1>2. /\ CacheSize(kv.window) \in Nat /\ CacheSize(kv.window) > 0
      /\ CacheSize(kv.window) < MaxInt
  BY <1>1, Sizes
<1>3. MaxInt \in Nat /\ NumCtx \in Nat /\ NumCtx > 0 /\ NumCtx < MaxInt
  <2>1. NumSlots * NumCtx \in Nat
    BY CacheConstants
  <2> QED BY <2>1, CacheConstants
<1>4. \A c \in DOMAIN kv.cells : kv.cells[c].pos \in 0 .. NumCtx - 1
  BY DEF KvShape
<1>5. \A c \in DOMAIN kv.cells : kv.cells[c].pos \in Nat /\ kv.cells[c].pos < NumCtx
  BY <1>3, <1>4
<1> QED BY <1>1, <1>2, <1>3, <1>5

\* The range of some cells goes from the first to the last of them.
LEMMA RangeOfCells ==
    ASSUME NEW K \in Nat, NEW C \in SUBSET (0 .. K), NEW x \in C
    PROVE  /\ RangeOf(C) \in [min : C, max : C]
           /\ RangeOf(C) # None
           /\ \A c \in C : RangeOf(C).min <= c /\ c <= RangeOf(C).max
<1>1. Min(C) \in C /\ \A y \in C : Min(C) <= y
  BY MinIn
<1>2. Max(C) \in C /\ \A y \in C : Max(C) >= y
  BY MaxIn
<1>3. RangeOf(C) = [min |-> Min(C), max |-> Max(C)]
  BY DEF RangeOf
<1>7. C \subseteq Nat
  OBVIOUS
<1>8. Min(C) \in Nat /\ Max(C) \in Nat
  BY <1>1, <1>2, <1>7
<1>4. RangeOf(C) \in [min : Nat, max : Nat]
  BY <1>3, <1>8
<1>5. RangeOf(C) # None
  BY <1>4, CacheConstants
<1>6. \A c \in C : RangeOf(C).min <= c /\ c <= RangeOf(C).max
  <2> TAKE c \in C
  <2>1. Min(C) <= c /\ Max(C) >= c
    BY <1>1, <1>2
  <2>2. c \in Int /\ Max(C) \in Int
    BY <1>7, <1>8
  <2> QED BY <1>3, <2>1, <2>2
<1> QED BY <1>1, <1>2, <1>3, <1>5, <1>6

\* A range that has the cells of a sequence has them when there are fewer.
LEMMA RangeStays ==
    ASSUME NEW kv, NEW r, NEW s, RangeFits(kv, s), DOMAIN r.cells = DOMAIN kv.cells,
           r.cellRanges[s] = kv.cellRanges[s], CellsOf(r, s) \subseteq CellsOf(kv, s)
    PROVE  RangeFits(r, s)
BY DEF RangeFits, InRange

\* A range that was computed from the cells of a sequence has them.
LEMMA RangeComputed ==
    ASSUME NEW kv, KvShape(kv), NEW s, NEW C, CellsOf(kv, s) \subseteq C,
           C \subseteq DOMAIN kv.cells, kv.cellRanges[s] = RangeOf(C)
    PROVE  RangeFits(kv, s)
<1>1. /\ CacheSize(kv.window) \in Nat /\ CacheSize(kv.window) > 0
      /\ DOMAIN kv.cells = 0 .. CacheSize(kv.window) - 1 /\ 0 \in DOMAIN kv.cells /\ MaxInt \in Nat
  BY CellsAreNumbers
<1>2. CASE C = {}
  <2>1. RangeOf(C) = [min |-> MaxInt, max |-> 0] /\ CellsOf(kv, s) = {}
    BY <1>2 DEF RangeOf, newRange
  <2>2. RangeOf(C) \in [min : Nat, max : DOMAIN kv.cells]
    BY <1>1, <2>1
  <2> QED BY <2>1, <2>2 DEF RangeFits
<1>3. CASE C # {}
  <2>1. PICK x \in C : TRUE
    BY <1>3
  <2>2. CacheSize(kv.window) - 1 \in Nat /\ C \in SUBSET (0 .. CacheSize(kv.window) - 1)
    BY <1>1
  <2>3. /\ RangeOf(C) \in [min : C, max : C] /\ RangeOf(C) # None
        /\ \A c \in C : RangeOf(C).min <= c /\ c <= RangeOf(C).max
    BY <2>1, <2>2, RangeOfCells
  <2>4. RangeOf(C) \in [min : Nat, max : DOMAIN kv.cells]
    BY <2>2, <2>3, <1>1
  <2>5. CellsOf(kv, s) \subseteq InRange(kv, s)
    BY <2>3 DEF InRange
  <2> QED BY <2>4, <2>5 DEF RangeFits
<1> QED BY <1>2, <1>3

\* A sequence without cells needs no range.
LEMMA RangeOfNone ==
    ASSUME NEW kv, NEW s, kv.cellRanges[s] = None, CellsOf(kv, s) = {}
    PROVE  RangeFits(kv, s)
BY DEF RangeFits

\* r is kv without what s has from a position on.
Dropped(kv, r, s, past) ==
    /\ r.window = kv.window /\ r.memory = kv.memory /\ r.data = kv.data
    /\ DOMAIN r.cells = DOMAIN kv.cells
    /\ \A c \in DOMAIN kv.cells :
        /\ r.cells[c].pos = kv.cells[c].pos
        /\ r.cells[c].sequences = IF kv.cells[c].pos >= past THEN kv.cells[c].sequences \ {s}
                                  ELSE kv.cells[c].sequences

\* The cells that the sequences have then.
LEMMA DroppedCells ==
    ASSUME NEW kv, KvShape(kv), NEW r, NEW s, NEW past \in Nat, Dropped(kv, r, s, past)
    PROVE  /\ CellsOf(r, s) = {c \in CellsOf(kv, s) : kv.cells[c].pos < past}
           /\ \A t : t # s => CellsOf(r, t) = CellsOf(kv, t)
           /\ \A c \in DOMAIN kv.cells : r.cells[c].pos = kv.cells[c].pos
<1>1. \A c \in DOMAIN kv.cells : kv.cells[c].pos \in Nat
  BY CellsAreNumbers
<1>2. \A c \in DOMAIN kv.cells : kv.cells[c].pos >= past <=> ~(kv.cells[c].pos < past)
  BY <1>1
<1> QED BY <1>2 DEF Dropped, CellsOf

\* Remove from a position to the end: no cell has to move, so that it never
\* stops at one that is shared.
LEMMA RemoveTail ==
    ASSUME NEW kv, KvShape(kv), NEW s \in Slots, NEW past \in Nat,
           NEW r, r = Remove(kv, s, past, MaxInt).kv
    PROVE  /\ KvShape(r) /\ Dropped(kv, r, s, past)
           /\ Ranges(kv) => Ranges(r)
<1> DEFINE cut == RemoveCells(kv, s, past, MaxInt, MaxInt)
           k1  == [kv EXCEPT !.cells = cut]
           k2  == Ranged(k1, s)
<1>1. \A c \in DOMAIN kv.cells :
        c \in Nat /\ c < MaxInt /\ kv.cells[c].pos \in Nat /\ kv.cells[c].pos < MaxInt
  BY CellsAreNumbers
<1>2. Stuck(kv, s, MaxInt) = {}
  BY <1>1, CellsAreNumbers DEF Stuck, CellsOf
<1>3. r = k2
  BY <1>2 DEF Remove, Moved
<1>4. /\ DOMAIN cut = DOMAIN kv.cells
      /\ \A c \in DOMAIN kv.cells :
            cut[c] = IF s \in kv.cells[c].sequences /\ kv.cells[c].pos >= past
                     THEN Drop(kv.cells[c], s) ELSE kv.cells[c]
  <2>1. DOMAIN cut = DOMAIN kv.cells
    BY DEF RemoveCells
  <2>2. ASSUME NEW c \in DOMAIN kv.cells
        PROVE  cut[c] = IF s \in kv.cells[c].sequences /\ kv.cells[c].pos >= past
                        THEN Drop(kv.cells[c], s) ELSE kv.cells[c]
    <3>1. c \in Nat /\ c < MaxInt /\ kv.cells[c].pos \in Nat /\ kv.cells[c].pos < MaxInt /\ MaxInt \in Nat
      BY <1>1, CellsAreNumbers
    <3> QED BY <3>1 DEF RemoveCells
  <2> QED BY <2>1, <2>2
<1> HIDE DEF cut
<1>5. \A c \in DOMAIN kv.cells : /\ DOMAIN cut[c] = {"pos", "sequences"}
                                 /\ cut[c].pos = kv.cells[c].pos
                                 /\ cut[c].sequences = IF kv.cells[c].pos >= past
                                                       THEN kv.cells[c].sequences \ {s}
                                                       ELSE kv.cells[c].sequences
  <2> TAKE c \in DOMAIN kv.cells
  <2>1. DOMAIN kv.cells[c] = {"pos", "sequences"}
    BY DEF KvShape
  <2>2. DOMAIN Drop(kv.cells[c], s) = {"pos", "sequences"} /\ Drop(kv.cells[c], s).pos = kv.cells[c].pos
        /\ Drop(kv.cells[c], s).sequences = kv.cells[c].sequences \ {s}
    BY <2>1 DEF Drop
  <2> QED BY <1>4, <2>1, <2>2
<1>6. /\ DOMAIN k1 = DOMAIN kv /\ k1.cells = cut /\ k1.window = kv.window
      /\ k1.memory = kv.memory /\ k1.data = kv.data /\ k1.cellRanges = kv.cellRanges
  BY DEF KvShape
<1> HIDE DEF k1
<1>7. /\ DOMAIN k2 = DOMAIN k1 /\ k2.cells = k1.cells /\ k2.window = k1.window
      /\ k2.memory = k1.memory /\ k2.data = k1.data /\ DOMAIN k2.cellRanges = DOMAIN k1.cellRanges
      /\ \A t \in Slots \ {s} : k2.cellRanges[t] = k1.cellRanges[t]
      /\ k2.cellRanges[s] = IF CellsOf(k1, s) = {} THEN None ELSE RangeOf(CellsOf(k1, s))
  BY <1>6 DEF KvShape, Ranged
<1> HIDE DEF k2
<1>8. KvShape(r)
  <2>1. /\ DOMAIN r = {"window", "memory", "cells", "cellRanges", "data"}
        /\ r.window \in Windows /\ r.memory = SwaMemory(r.window)
        /\ DOMAIN r.cells = 0 .. CacheSize(r.window) - 1
        /\ DOMAIN r.data = DOMAIN r.cells /\ DOMAIN r.cellRanges = Slots /\ r.cells = cut
        /\ DOMAIN r.cells = DOMAIN kv.cells
    BY <1>3, <1>4, <1>6, <1>7 DEF KvShape
  <2>2. ASSUME NEW c \in DOMAIN r.cells
        PROVE  /\ DOMAIN r.cells[c] = {"pos", "sequences"}
               /\ r.cells[c].pos \in 0 .. NumCtx - 1
               /\ r.cells[c].sequences \subseteq Slots
               /\ DOMAIN r.data[c] = {"token", "pos"}
    <3>1. c \in DOMAIN kv.cells /\ r.cells[c] = cut[c] /\ r.data[c] = kv.data[c]
      BY <1>3, <1>6, <1>7, <2>1
    <3> QED BY <1>5, <3>1 DEF KvShape
  <2> QED BY <2>1, <2>2 DEF KvShape
<1>9. Dropped(kv, r, s, past)
  <2>1. r.window = kv.window /\ r.memory = kv.memory /\ r.data = kv.data /\ r.cells = cut
    BY <1>3, <1>6, <1>7
  <2> QED BY <1>4, <1>5, <2>1 DEF Dropped
<1>10. ASSUME Ranges(kv), NEW t \in Slots PROVE RangeFits(r, t)
  <2>1. CASE t = s
    <3>1. CellsOf(r, s) = CellsOf(k1, s)
      BY <1>3, <1>7 DEF CellsOf
    <3>2. CASE CellsOf(k1, s) = {}
      BY <1>3, <1>7, <2>1, <3>1, <3>2, RangeOfNone
    <3>3. CASE CellsOf(k1, s) # {}
      <4>1. r.cellRanges[s] = RangeOf(CellsOf(r, s)) /\ CellsOf(r, s) \subseteq DOMAIN r.cells
        BY <1>3, <1>7, <3>1, <3>3 DEF CellsOf
      <4> QED BY <1>8, <2>1, <4>1, RangeComputed
    <3> QED BY <3>2, <3>3
  <2>2. CASE t # s
    <3>1. CellsOf(r, t) \subseteq CellsOf(kv, t)
      BY <1>9, <2>2, DroppedCells
    <3>2. r.cellRanges[t] = kv.cellRanges[t]
      BY <1>3, <1>6, <1>7, <2>2
    <3> QED BY <1>9, <1>10, <3>1, <3>2, RangeStays DEF Ranges, Dropped
  <2> QED BY <2>1, <2>2
<1> QED BY <1>8, <1>9, <1>10 DEF Ranges

\* What Remove does to the cells before it stops.
CutAt(kv, cut, s, begin, end, upto) ==
    /\ DOMAIN cut = DOMAIN kv.cells
    /\ \A c \in DOMAIN kv.cells :
         /\ DOMAIN cut[c] = {"pos", "sequences"}
         /\ cut[c].pos \in 0 .. NumCtx - 1 /\ cut[c].sequences \subseteq Slots
         /\ cut[c].sequences \subseteq kv.cells[c].sequences
         /\ cut[c].sequences \ {s} = kv.cells[c].sequences \ {s}
         /\ s \notin kv.cells[c].sequences \/ c >= upto => cut[c] = kv.cells[c]
         /\ s \in kv.cells[c].sequences /\ c < upto =>
             /\ kv.cells[c].pos < begin => cut[c] = kv.cells[c]
             /\ kv.cells[c].pos >= begin /\ kv.cells[c].pos < end =>
                  /\ cut[c].sequences = kv.cells[c].sequences \ {s}
                  /\ cut[c].pos = kv.cells[c].pos
             /\ kv.cells[c].pos >= end =>
                  /\ cut[c].sequences = kv.cells[c].sequences
                  /\ cut[c].pos = kv.cells[c].pos + begin - end

\* That is what it does.
LEMMA CutCells ==
    ASSUME NEW kv, KvShape(kv), NEW s, NEW begin \in Nat, NEW end \in Nat, begin < end,
           NEW upto \in Nat, NEW cut, cut = RemoveCells(kv, s, begin, end, upto)
    PROVE  CutAt(kv, cut, s, begin, end, upto)
<1>1. DOMAIN cut = DOMAIN kv.cells
  BY DEF RemoveCells
<1> SUFFICES ASSUME NEW c \in DOMAIN kv.cells
    PROVE  /\ DOMAIN cut[c] = {"pos", "sequences"}
           /\ cut[c].pos \in 0 .. NumCtx - 1 /\ cut[c].sequences \subseteq Slots
           /\ cut[c].sequences \subseteq kv.cells[c].sequences
           /\ cut[c].sequences \ {s} = kv.cells[c].sequences \ {s}
           /\ s \notin kv.cells[c].sequences \/ c >= upto => cut[c] = kv.cells[c]
           /\ s \in kv.cells[c].sequences /\ c < upto =>
               /\ kv.cells[c].pos < begin => cut[c] = kv.cells[c]
               /\ kv.cells[c].pos >= begin /\ kv.cells[c].pos < end =>
                    /\ cut[c].sequences = kv.cells[c].sequences \ {s}
                    /\ cut[c].pos = kv.cells[c].pos
               /\ kv.cells[c].pos >= end =>
                    /\ cut[c].sequences = kv.cells[c].sequences
                    /\ cut[c].pos = kv.cells[c].pos + begin - end
  BY <1>1 DEF CutAt
<1> DEFINE cell == kv.cells[c]
<1>2. cut[c] = IF s \notin cell.sequences \/ c >= upto THEN cell
               ELSE IF cell.pos \in begin .. end - 1 THEN Drop(cell, s)
               ELSE IF cell.pos >= end THEN [cell EXCEPT !.pos = @ + begin - end]
               ELSE cell
  BY DEF RemoveCells
<1>3. /\ DOMAIN cell = {"pos", "sequences"} /\ cell.pos \in 0 .. NumCtx - 1
      /\ cell.sequences \subseteq Slots /\ NumCtx \in Nat /\ c \in Nat
  BY CellsAreNumbers DEF KvShape
<1> HIDE DEF cell
<1>4. CASE s \notin cell.sequences \/ c >= upto
  <2>1. cut[c] = cell
    BY <1>2, <1>4
  <2> QED BY <1>3, <1>4, <2>1 DEF cell
<1>5. CASE s \in cell.sequences /\ c < upto /\ cell.pos < begin
  <2>1. cut[c] = cell
    BY <1>2, <1>3, <1>5
  <2>2. ~(cell.pos >= begin) /\ ~(cell.pos >= end)
    BY <1>3, <1>5
  <2> QED BY <1>3, <1>5, <2>1, <2>2 DEF cell
<1>6. CASE s \in cell.sequences /\ c < upto /\ cell.pos >= begin /\ cell.pos < end
  <2>1. cut[c] = Drop(cell, s)
    BY <1>2, <1>3, <1>6
  <2>2. /\ DOMAIN cut[c] = {"pos", "sequences"} /\ cut[c].pos = cell.pos
        /\ cut[c].sequences = cell.sequences \ {s}
    BY <1>3, <2>1 DEF Drop
  <2>3. ~(cell.pos < begin) /\ ~(cell.pos >= end) /\ ~(c >= upto)
    BY <1>3, <1>6
  <2> QED BY <1>3, <1>6, <2>2, <2>3 DEF cell
<1>7. CASE s \in cell.sequences /\ c < upto /\ cell.pos >= end
  <2>1. cut[c] = [cell EXCEPT !.pos = cell.pos + begin - end]
    BY <1>2, <1>3, <1>7
  <2>2. /\ DOMAIN cut[c] = {"pos", "sequences"} /\ cut[c].pos = cell.pos + begin - end
        /\ cut[c].sequences = cell.sequences
    BY <1>3, <2>1
  <2>3. /\ ~(cell.pos < begin) /\ ~(cell.pos < end) /\ ~(c >= upto)
        /\ cell.pos + begin - end \in 0 .. NumCtx - 1
    BY <1>3, <1>7
  <2> QED BY <1>3, <1>7, <2>2, <2>3 DEF cell
<1>8. \/ s \notin cell.sequences \/ c >= upto
      \/ s \in cell.sequences /\ c < upto /\ cell.pos < begin
      \/ s \in cell.sequences /\ c < upto /\ cell.pos >= begin /\ cell.pos < end
      \/ s \in cell.sequences /\ c < upto /\ cell.pos >= end
  BY <1>3
<1> QED BY <1>4, <1>5, <1>6, <1>7, <1>8

\* r is kv after the positions of s from begin to end were removed and the later
\* ones moved down, with their keys.
ShiftedBy(kv, r, s, begin, end) ==
    /\ r.window = kv.window /\ r.memory = kv.memory
    /\ DOMAIN r.cells = DOMAIN kv.cells
    /\ \A c \in DOMAIN kv.cells :
        /\ s \notin kv.cells[c].sequences \/ kv.cells[c].pos < begin =>
             r.cells[c] = kv.cells[c] /\ r.data[c] = kv.data[c]
        /\ s \in kv.cells[c].sequences /\ kv.cells[c].pos >= begin /\ kv.cells[c].pos < end =>
             /\ r.cells[c].pos = kv.cells[c].pos
             /\ r.cells[c].sequences = kv.cells[c].sequences \ {s}
             /\ r.data[c] = kv.data[c]
        /\ s \in kv.cells[c].sequences /\ kv.cells[c].pos >= end =>
             /\ kv.cells[c].sequences = {s} /\ r.cells[c].sequences = {s}
             /\ r.cells[c].pos = kv.cells[c].pos + begin - end
             /\ r.data[c].token = kv.data[c].token
             /\ r.data[c].pos = kv.data[c].pos + begin - end

\* r is kv after a Remove that gave up: what other sequences have is as it was.
Loosened(kv, r, s) ==
    /\ r.window = kv.window /\ r.memory = kv.memory /\ r.data = kv.data
    /\ DOMAIN r.cells = DOMAIN kv.cells
    /\ \A c \in DOMAIN kv.cells :
        /\ r.cells[c].sequences \ {s} = kv.cells[c].sequences \ {s}
        /\ kv.cells[c].sequences # {s} => r.cells[c].pos = kv.cells[c].pos

\* Remove in the middle of a sequence: it moves what comes later, or gives up at
\* a cell that is shared or when the model cannot shift.
LEMMA RemoveMiddle ==
    ASSUME NEW kv, KvShape(kv), Ranges(kv), NEW s \in Slots, NEW begin \in Nat, NEW end \in Nat,
           begin < end, end <= NumCtx, NEW got, got = Remove(kv, s, begin, end)
    PROVE  /\ KvShape(got.kv) /\ Ranges(got.kv) /\ got.ok \in BOOLEAN
           /\ got.ok => ShiftedBy(kv, got.kv, s, begin, end) /\ (CanShift \/ CellsOf(got.kv, s) = {})
           /\ ~got.ok => Loosened(kv, got.kv, s)
<1>1. \A c \in DOMAIN kv.cells : c \in Nat /\ c < MaxInt /\ kv.cells[c].pos \in Nat
  BY CellsAreNumbers
<1>2. MaxInt \in Nat /\ NumCtx \in Nat /\ NumCtx < MaxInt /\ end # MaxInt
  BY CellsAreNumbers
<1>3. CASE Stuck(kv, s, end) # {}
  <2> DEFINE upto == Min(Stuck(kv, s, end))
             cut  == RemoveCells(kv, s, begin, end, upto)
             r    == [kv EXCEPT !.cells = cut]
  <2>1. Stuck(kv, s, end) \in SUBSET Nat
    BY <1>1 DEF Stuck, CellsOf
  <2>2. upto \in Nat /\ upto \in Stuck(kv, s, end) /\ \A y \in Stuck(kv, s, end) : upto <= y
    BY <1>3, <2>1, MinIn
  <2>3. got = [ok |-> FALSE, kv |-> r]
    BY <1>3 DEF Remove
  <2> HIDE DEF upto
  <2>4. /\ DOMAIN cut = DOMAIN kv.cells
        /\ \A c \in DOMAIN kv.cells :
                /\ DOMAIN cut[c] = {"pos", "sequences"}
                /\ cut[c].pos \in 0 .. NumCtx - 1 /\ cut[c].sequences \subseteq Slots
                /\ cut[c].sequences \subseteq kv.cells[c].sequences
                /\ cut[c].sequences \ {s} = kv.cells[c].sequences \ {s}
                /\ s \notin kv.cells[c].sequences \/ c >= upto => cut[c] = kv.cells[c]
                /\ s \in kv.cells[c].sequences /\ c < upto =>
                    /\ kv.cells[c].pos < begin => cut[c] = kv.cells[c]
                    /\ kv.cells[c].pos >= begin /\ kv.cells[c].pos < end =>
                         /\ cut[c].sequences = kv.cells[c].sequences \ {s}
                         /\ cut[c].pos = kv.cells[c].pos
                    /\ kv.cells[c].pos >= end =>
                         /\ cut[c].sequences = kv.cells[c].sequences
                         /\ cut[c].pos = kv.cells[c].pos + begin - end
    <3>1. cut = RemoveCells(kv, s, begin, end, upto)
      OBVIOUS
    <3> HIDE DEF cut
    <3>2. CutAt(kv, cut, s, begin, end, upto)
      BY <2>2, <3>1, CutCells
    <3> QED BY <3>2 DEF CutAt
  <2> HIDE DEF cut
  <2>5. /\ DOMAIN r = DOMAIN kv /\ r.cells = cut /\ r.window = kv.window
        /\ r.memory = kv.memory /\ r.data = kv.data /\ r.cellRanges = kv.cellRanges
    BY DEF KvShape
  <2> HIDE DEF r
  <2>6. KvShape(r)
    BY <2>4, <2>5 DEF KvShape
  <2>7. Loosened(kv, r, s)
    <3>1. ASSUME NEW c \in DOMAIN kv.cells, kv.cells[c].sequences # {s}
          PROVE  cut[c].pos = kv.cells[c].pos
      <4>1. s \in kv.cells[c].sequences /\ kv.cells[c].pos >= end => c \in Stuck(kv, s, end)
        BY <3>1 DEF Stuck, CellsOf
      <4>2. s \in kv.cells[c].sequences /\ kv.cells[c].pos >= end => c >= upto
        BY <1>1, <2>2, <4>1
      <4>3. kv.cells[c].pos < begin \/ (kv.cells[c].pos >= begin /\ kv.cells[c].pos < end)
              \/ kv.cells[c].pos >= end
        BY <1>1
      <4>4. c >= upto \/ c < upto
        BY <1>1, <2>2
      <4> QED BY <2>4, <4>2, <4>3, <4>4
    <3> QED BY <2>4, <2>5, <3>1 DEF Loosened
  <2>8. ASSUME NEW t \in Slots PROVE RangeFits(r, t)
    <3>1. CellsOf(r, t) \subseteq CellsOf(kv, t)
      BY <2>4, <2>5 DEF CellsOf
    <3> QED BY <2>4, <2>5, <3>1, RangeStays DEF Ranges
  <2> QED BY <2>3, <2>6, <2>7, <2>8 DEF Ranges
<1>4. CASE Stuck(kv, s, end) = {}
  <2> DEFINE cut == RemoveCells(kv, s, begin, end, MaxInt)
             k1  == [kv EXCEPT !.cells = cut]
             k2  == Ranged(k1, s)
             k3  == [k2 EXCEPT !.data = Shifted(k2, s, begin, begin - end)]
  <2>1. got = IF CellsOf(k2, s) = {} \/ end = MaxInt THEN [ok |-> TRUE, kv |-> k2]
              ELSE IF CanShift THEN [ok |-> TRUE, kv |-> k3] ELSE [ok |-> FALSE, kv |-> k2]
    BY <1>4 DEF Remove, Moved
  <2>2. DOMAIN cut = DOMAIN kv.cells
    BY DEF RemoveCells
  <2>3. ASSUME NEW c \in DOMAIN kv.cells
        PROVE  /\ DOMAIN cut[c] = {"pos", "sequences"}
               /\ cut[c].pos \in 0 .. NumCtx - 1 /\ cut[c].sequences \subseteq Slots
               /\ cut[c].sequences \subseteq kv.cells[c].sequences
               /\ cut[c].sequences \ {s} = kv.cells[c].sequences \ {s}
               /\ s \notin kv.cells[c].sequences \/ kv.cells[c].pos < begin => cut[c] = kv.cells[c]
               /\ s \in kv.cells[c].sequences /\ kv.cells[c].pos >= begin /\ kv.cells[c].pos < end =>
                    /\ cut[c].sequences = kv.cells[c].sequences \ {s}
                    /\ cut[c].pos = kv.cells[c].pos
               /\ s \in kv.cells[c].sequences /\ kv.cells[c].pos >= end =>
                    /\ kv.cells[c].sequences = {s} /\ cut[c].sequences = {s}
                    /\ cut[c].pos = kv.cells[c].pos + begin - end
    <3>1. c < MaxInt
      BY <1>1
    <3>2. s \in kv.cells[c].sequences /\ kv.cells[c].pos >= end => kv.cells[c].sequences = {s}
      BY <1>4 DEF Stuck, CellsOf
    <3>3. cut = RemoveCells(kv, s, begin, end, MaxInt)
      OBVIOUS
    <3> HIDE DEF cut
    <3>4. CutAt(kv, cut, s, begin, end, MaxInt)
      BY <1>2, <3>3, CutCells
    <3> QED BY <3>1, <3>2, <3>4 DEF CutAt
  <2> HIDE DEF cut
  <2>4. /\ DOMAIN k1 = DOMAIN kv /\ k1.cells = cut /\ k1.window = kv.window
        /\ k1.memory = kv.memory /\ k1.data = kv.data /\ k1.cellRanges = kv.cellRanges
    BY DEF KvShape
  <2> HIDE DEF k1
  <2>5. /\ DOMAIN k2 = DOMAIN k1 /\ k2.cells = k1.cells /\ k2.window = k1.window
        /\ k2.memory = k1.memory /\ k2.data = k1.data /\ DOMAIN k2.cellRanges = DOMAIN k1.cellRanges
        /\ \A t \in Slots \ {s} : k2.cellRanges[t] = k1.cellRanges[t]
        /\ k2.cellRanges[s] = IF CellsOf(k1, s) = {} THEN None ELSE RangeOf(CellsOf(k1, s))
    BY <2>4 DEF KvShape, Ranged
  <2> HIDE DEF k2
  <2>6. KvShape(k2)
    <3>1. /\ DOMAIN k2 = {"window", "memory", "cells", "cellRanges", "data"}
          /\ k2.window \in Windows /\ k2.memory = SwaMemory(k2.window)
          /\ DOMAIN k2.cells = 0 .. CacheSize(k2.window) - 1 /\ DOMAIN k2.cells = DOMAIN kv.cells
          /\ DOMAIN k2.data = DOMAIN k2.cells /\ DOMAIN k2.cellRanges = Slots
          /\ k2.cells = cut /\ k2.data = kv.data
      BY <2>2, <2>4, <2>5 DEF KvShape
    <3>2. ASSUME NEW c \in DOMAIN k2.cells
          PROVE  /\ DOMAIN k2.cells[c] = {"pos", "sequences"}
                 /\ k2.cells[c].pos \in 0 .. NumCtx - 1
                 /\ k2.cells[c].sequences \subseteq Slots
                 /\ DOMAIN k2.data[c] = {"token", "pos"}
      BY <2>3, <3>1 DEF KvShape
    <3> QED BY <3>1, <3>2 DEF KvShape
  <2>7. ASSUME NEW t \in Slots PROVE RangeFits(k2, t)
    <3>1. CASE t = s
      <4>1. CellsOf(k2, s) = CellsOf(k1, s)
        BY <2>5 DEF CellsOf
      <4>2. CASE CellsOf(k1, s) = {}
        BY <2>5, <3>1, <4>1, <4>2, RangeOfNone
      <4>3. CASE CellsOf(k1, s) # {}
        <5>1. k2.cellRanges[s] = RangeOf(CellsOf(k2, s)) /\ CellsOf(k2, s) \subseteq DOMAIN k2.cells
          BY <2>5, <4>1, <4>3 DEF CellsOf
        <5> QED BY <2>6, <3>1, <5>1, RangeComputed
      <4> QED BY <4>2, <4>3
    <3>2. CASE t # s
      <4>1. CellsOf(k2, t) \subseteq CellsOf(kv, t) /\ DOMAIN k2.cells = DOMAIN kv.cells
        BY <2>2, <2>3, <2>4, <2>5 DEF CellsOf
      <4>2. k2.cellRanges[t] = kv.cellRanges[t]
        BY <2>4, <2>5, <3>2
      <4> QED BY <4>1, <4>2, RangeStays DEF Ranges
    <3> QED BY <3>1, <3>2
  <2>8. CASE CellsOf(k2, s) = {}
    <3>1. got = [ok |-> TRUE, kv |-> k2]
      BY <2>1, <2>8
    <3>2. \A c \in DOMAIN kv.cells : ~(s \in kv.cells[c].sequences /\ kv.cells[c].pos >= end)
      BY <2>2, <2>3, <2>4, <2>5, <2>8 DEF CellsOf
    <3>3. ShiftedBy(kv, k2, s, begin, end)
      BY <2>2, <2>3, <2>4, <2>5, <3>2 DEF ShiftedBy
    <3> QED BY <2>6, <2>7, <2>8, <3>1, <3>3 DEF Ranges
  <2>9. CASE CellsOf(k2, s) # {} /\ ~CanShift
    <3>1. got = [ok |-> FALSE, kv |-> k2]
      BY <1>2, <2>1, <2>9
    <3>2. \A c \in DOMAIN kv.cells : kv.cells[c].pos < begin
            \/ (kv.cells[c].pos >= begin /\ kv.cells[c].pos < end) \/ kv.cells[c].pos >= end
      BY <1>1
    <3>3. Loosened(kv, k2, s)
      BY <2>2, <2>3, <2>4, <2>5, <3>2 DEF Loosened
    <3> QED BY <2>6, <2>7, <3>1, <3>3 DEF Ranges
  <2>10. CASE CellsOf(k2, s) # {} /\ CanShift
    <3>1. got = [ok |-> TRUE, kv |-> k3]
      BY <1>2, <2>1, <2>10
    <3> DEFINE moved == Shifted(k2, s, begin, begin - end)
    <3>2. /\ DOMAIN k3 = DOMAIN k2 /\ k3.cells = k2.cells /\ k3.window = k2.window
          /\ k3.memory = k2.memory /\ k3.cellRanges = k2.cellRanges /\ k3.data = moved
      BY <2>6 DEF KvShape
    <3> HIDE DEF k3
    <3>3. InRange(k2, s) = CellsOf(k2, s)
      BY <2>7 DEF RangeFits, InRange
    <3>4. /\ DOMAIN moved = DOMAIN kv.cells
          /\ \A c \in DOMAIN kv.cells :
               moved[c] = IF s \in cut[c].sequences /\ cut[c].pos >= begin
                          THEN [kv.data[c] EXCEPT !.pos = @ + (begin - end)] ELSE kv.data[c]
      BY <2>2, <2>4, <2>5, <2>6, <3>3 DEF Shifted, KvShape, CellsOf
    <3> HIDE DEF moved
    <3>5. ASSUME NEW c \in DOMAIN kv.cells
          PROVE  /\ DOMAIN moved[c] = {"token", "pos"}
                 /\ s \notin kv.cells[c].sequences \/ kv.cells[c].pos < begin => moved[c] = kv.data[c]
                 /\ s \in kv.cells[c].sequences /\ kv.cells[c].pos >= begin /\ kv.cells[c].pos < end =>
                      moved[c] = kv.data[c]
                 /\ s \in kv.cells[c].sequences /\ kv.cells[c].pos >= end =>
                      /\ moved[c].token = kv.data[c].token
                      /\ moved[c].pos = kv.data[c].pos + begin - end
      <4>1. DOMAIN kv.data[c] = {"token", "pos"} /\ kv.cells[c].pos \in Nat
        BY <1>1 DEF KvShape
      <4>2. CASE s \notin kv.cells[c].sequences \/ kv.cells[c].pos < begin
        <5>1. ~(s \in cut[c].sequences /\ cut[c].pos >= begin)
          BY <2>3, <4>1, <4>2
        <5>2. ~(s \in kv.cells[c].sequences /\ kv.cells[c].pos >= begin)
              /\ ~(s \in kv.cells[c].sequences /\ kv.cells[c].pos >= end)
          BY <4>1, <4>2
        <5> QED BY <3>4, <4>1, <5>1, <5>2
      <4>3. CASE s \in kv.cells[c].sequences /\ kv.cells[c].pos >= begin /\ kv.cells[c].pos < end
        <5>1. s \notin cut[c].sequences
          BY <2>3, <4>3
        <5>2. ~(kv.cells[c].pos < begin) /\ ~(kv.cells[c].pos >= end)
          BY <4>1, <4>3
        <5> QED BY <3>4, <4>1, <4>3, <5>1, <5>2
      <4>4. CASE s \in kv.cells[c].sequences /\ kv.cells[c].pos >= end
        <5>1. s \in cut[c].sequences /\ cut[c].pos = kv.cells[c].pos + begin - end
          BY <2>3, <4>4
        <5>2. cut[c].pos >= begin /\ ~(kv.cells[c].pos < begin) /\ ~(kv.cells[c].pos < end)
          BY <4>1, <4>4, <5>1
        <5>3. moved[c] = [kv.data[c] EXCEPT !.pos = @ + (begin - end)]
          BY <3>4, <5>1, <5>2
        <5>4. /\ DOMAIN moved[c] = {"token", "pos"} /\ moved[c].token = kv.data[c].token
              /\ moved[c].pos = kv.data[c].pos + begin - end
          BY <4>1, <5>3
        <5> QED BY <4>4, <5>2, <5>4
      <4> QED BY <4>1, <4>2, <4>3, <4>4
    <3>6. KvShape(k3)
      BY <2>2, <2>4, <2>5, <2>6, <3>2, <3>4, <3>5 DEF KvShape
    <3>7. ShiftedBy(kv, k3, s, begin, end)
      BY <2>2, <2>3, <2>4, <2>5, <3>2, <3>5 DEF ShiftedBy
    <3>8. \A t \in Slots : RangeFits(k3, t)
      BY <2>7, <3>2 DEF RangeFits, InRange, CellsOf
    <3> QED BY <2>10, <3>1, <3>6, <3>7, <3>8 DEF Ranges
  <2> QED BY <2>8, <2>9, <2>10, CacheConstants
<1> QED BY <1>3, <1>4

\* Sequence t has the cells, positions and keys in r that it has in kv.
SameFor(kv, r, t) ==
    /\ CellsOf(r, t) = CellsOf(kv, t)
    /\ \A c \in CellsOf(kv, t) : r.cells[c].pos = kv.cells[c].pos /\ r.data[c] = kv.data[c]

\* r differs from kv for sequence s only.
OnlyFor(kv, r, s) ==
    /\ r.window = kv.window /\ r.memory = kv.memory /\ DOMAIN r.cells = DOMAIN kv.cells
    /\ \A t \in Slots \ {s} : SameFor(kv, r, t)

\* Its positions stay unique if those of s do.
LEMMA OnceForAll ==
    ASSUME NEW kv, Once(kv), NEW r, NEW s \in Slots, OnlyFor(kv, r, s),
           \A c, d \in CellsOf(r, s) : r.cells[c].pos = r.cells[d].pos => c = d
    PROVE  Once(r)
<1> SUFFICES ASSUME NEW t \in Slots, NEW c \in CellsOf(r, t), NEW d \in CellsOf(r, t),
                    r.cells[c].pos = r.cells[d].pos
             PROVE  c = d
  BY DEF Once
<1>1. CASE t = s
  BY <1>1
<1>2. CASE t # s
  <2>1. SameFor(kv, r, t)
    BY <1>2 DEF OnlyFor
  <2>2. c \in CellsOf(kv, t) /\ d \in CellsOf(kv, t)
    BY <2>1 DEF SameFor
  <2>3. kv.cells[c].pos = kv.cells[d].pos
    BY <2>1, <2>2 DEF SameFor
  <2> QED BY <2>2, <2>3 DEF Once
<1> QED BY <1>1, <1>2

\* A Remove to the end concerns the sequence that it is for.
LEMMA DroppedOnly ==
    ASSUME NEW kv, KvShape(kv), NEW r, NEW s \in Slots, NEW past \in Nat, Dropped(kv, r, s, past)
    PROVE  OnlyFor(kv, r, s) /\ (Once(kv) => Once(r))
<1>1. /\ CellsOf(r, s) = {c \in CellsOf(kv, s) : kv.cells[c].pos < past}
      /\ \A t : t # s => CellsOf(r, t) = CellsOf(kv, t)
      /\ \A c \in DOMAIN kv.cells : r.cells[c].pos = kv.cells[c].pos
  BY DroppedCells
<1>2. \A t : CellsOf(kv, t) \subseteq DOMAIN kv.cells
  BY DEF CellsOf
<1>3. OnlyFor(kv, r, s)
  BY <1>1, <1>2 DEF OnlyFor, SameFor, Dropped
<1>4. ASSUME Once(kv), NEW c \in CellsOf(r, s), NEW d \in CellsOf(r, s),
             r.cells[c].pos = r.cells[d].pos
      PROVE  c = d
  <2>1. c \in CellsOf(kv, s) /\ d \in CellsOf(kv, s) /\ kv.cells[c].pos = kv.cells[d].pos
    BY <1>1, <1>2, <1>4
  <2> QED BY <1>4, <2>1 DEF Once
<1> QED BY <1>3, <1>4, OnceForAll

\* So does one in the middle that shifts, and the positions of what is left are
\* those that it had before, without the ones in between.
LEMMA ShiftedOnly ==
    ASSUME NEW kv, KvShape(kv), NEW r, NEW s \in Slots, NEW begin \in Nat, NEW end \in Nat,
           begin < end, ShiftedBy(kv, r, s, begin, end)
    PROVE  /\ OnlyFor(kv, r, s) /\ (Once(kv) => Once(r))
           /\ CellsOf(r, s) = {c \in CellsOf(kv, s) : kv.cells[c].pos < begin \/ kv.cells[c].pos >= end}
           /\ \A c \in CellsOf(r, s) : r.cells[c].pos = IF kv.cells[c].pos < begin THEN kv.cells[c].pos
                                                        ELSE kv.cells[c].pos + begin - end
<1>1. \A c \in DOMAIN kv.cells : kv.cells[c].pos \in Nat
  BY CellsAreNumbers
<1>2. /\ r.window = kv.window /\ r.memory = kv.memory /\ DOMAIN r.cells = DOMAIN kv.cells
  BY DEF ShiftedBy
<1>3. ASSUME NEW t \in Slots \ {s} PROVE SameFor(kv, r, t)
  <2>1. ASSUME NEW c \in DOMAIN kv.cells
        PROVE  /\ t \in r.cells[c].sequences <=> t \in kv.cells[c].sequences
               /\ t \in kv.cells[c].sequences => r.cells[c].pos = kv.cells[c].pos /\ r.data[c] = kv.data[c]
    <3>1. kv.cells[c].pos \in Nat
      BY <1>1
    <3>2. CASE s \notin kv.cells[c].sequences \/ kv.cells[c].pos < begin
      BY <3>2 DEF ShiftedBy
    <3>3. CASE s \in kv.cells[c].sequences /\ kv.cells[c].pos >= begin /\ kv.cells[c].pos < end
      BY <3>3 DEF ShiftedBy
    <3>4. CASE s \in kv.cells[c].sequences /\ kv.cells[c].pos >= end
      <4>1. kv.cells[c].sequences = {s} /\ r.cells[c].sequences = {s}
        BY <3>4 DEF ShiftedBy
      <4> QED BY <4>1
    <3> QED BY <3>1, <3>2, <3>3, <3>4
  <2> QED BY <1>2, <2>1 DEF SameFor, CellsOf
<1>4. OnlyFor(kv, r, s)
  BY <1>2, <1>3 DEF OnlyFor
<1>5. ASSUME NEW c \in DOMAIN kv.cells
      PROVE  /\ s \in r.cells[c].sequences <=>
                  s \in kv.cells[c].sequences /\ (kv.cells[c].pos < begin \/ kv.cells[c].pos >= end)
             /\ s \in r.cells[c].sequences =>
                  r.cells[c].pos = IF kv.cells[c].pos < begin THEN kv.cells[c].pos
                                   ELSE kv.cells[c].pos + begin - end
  <2>1. kv.cells[c].pos \in Nat
    BY <1>1
  <2>2. CASE s \notin kv.cells[c].sequences
    BY <2>2 DEF ShiftedBy
  <2>3. CASE s \in kv.cells[c].sequences /\ kv.cells[c].pos < begin
    BY <2>3 DEF ShiftedBy
  <2>4. CASE s \in kv.cells[c].sequences /\ kv.cells[c].pos >= begin /\ kv.cells[c].pos < end
    <3>1. s \notin r.cells[c].sequences
      BY <2>4 DEF ShiftedBy
    <3> QED BY <2>1, <2>4, <3>1
  <2>5. CASE s \in kv.cells[c].sequences /\ kv.cells[c].pos >= end
    <3>1. r.cells[c].sequences = {s} /\ r.cells[c].pos = kv.cells[c].pos + begin - end
      BY <2>5 DEF ShiftedBy
    <3> QED BY <2>1, <2>5, <3>1
  <2> QED BY <2>1, <2>2, <2>3, <2>4, <2>5
<1>6. /\ CellsOf(r, s) = {c \in CellsOf(kv, s) : kv.cells[c].pos < begin \/ kv.cells[c].pos >= end}
      /\ \A c \in CellsOf(r, s) : r.cells[c].pos = IF kv.cells[c].pos < begin THEN kv.cells[c].pos
                                                   ELSE kv.cells[c].pos + begin - end
  BY <1>2, <1>5 DEF CellsOf
<1>7. ASSUME Once(kv), NEW c \in CellsOf(r, s), NEW d \in CellsOf(r, s),
             r.cells[c].pos = r.cells[d].pos
      PROVE  c = d
  <2>1. c \in CellsOf(kv, s) /\ d \in CellsOf(kv, s)
    BY <1>6
  <2>2. kv.cells[c].pos \in Nat /\ kv.cells[d].pos \in Nat
    BY <1>1, <2>1 DEF CellsOf
  <2>3. /\ kv.cells[c].pos < begin \/ kv.cells[c].pos >= end
        /\ kv.cells[d].pos < begin \/ kv.cells[d].pos >= end
        /\ r.cells[c].pos = IF kv.cells[c].pos < begin THEN kv.cells[c].pos
                            ELSE kv.cells[c].pos + begin - end
        /\ r.cells[d].pos = IF kv.cells[d].pos < begin THEN kv.cells[d].pos
                            ELSE kv.cells[d].pos + begin - end
    BY <1>6
  <2>4. kv.cells[c].pos = kv.cells[d].pos
    <3>1. CASE kv.cells[c].pos < begin /\ kv.cells[d].pos < begin
      BY <1>7, <2>3, <3>1
    <3>2. CASE kv.cells[c].pos < begin /\ ~(kv.cells[d].pos < begin)
      <4>1. kv.cells[c].pos = kv.cells[d].pos + begin - end /\ kv.cells[d].pos >= end
        BY <1>7, <2>3, <3>2
      <4> QED BY <2>2, <3>2, <4>1
    <3>3. CASE ~(kv.cells[c].pos < begin) /\ kv.cells[d].pos < begin
      <4>1. kv.cells[d].pos = kv.cells[c].pos + begin - end /\ kv.cells[c].pos >= end
        BY <1>7, <2>3, <3>3
      <4> QED BY <2>2, <3>3, <4>1
    <3>4. CASE ~(kv.cells[c].pos < begin) /\ ~(kv.cells[d].pos < begin)
      <4>1. kv.cells[c].pos + begin - end = kv.cells[d].pos + begin - end
        BY <1>7, <2>3, <3>4
      <4> QED BY <2>2, <4>1
    <3> QED BY <3>1, <3>2, <3>3, <3>4
  <2> QED BY <1>7, <2>1, <2>4 DEF Once
<1> QED BY <1>4, <1>6, <1>7, OnceForAll

\* A Remove that gave up, followed by one of the whole sequence.
LEMMA LoosenedOnly ==
    ASSUME NEW kv, KvShape(kv), NEW k1, KvShape(k1), NEW r, NEW s \in Slots,
           Loosened(kv, k1, s), Dropped(k1, r, s, 0)
    PROVE  OnlyFor(kv, r, s) /\ (Once(kv) => Once(r)) /\ CellsOf(r, s) = {}
<1>1. \A c \in DOMAIN k1.cells : k1.cells[c].pos \in Nat
  BY CellsAreNumbers
<1>2. ASSUME NEW c \in DOMAIN kv.cells
      PROVE  /\ r.cells[c].sequences = kv.cells[c].sequences \ {s}
             /\ r.cells[c].sequences # {} => r.cells[c].pos = kv.cells[c].pos
  <2>1. c \in DOMAIN k1.cells
    BY DEF Loosened
  <2>2. k1.cells[c].pos >= 0
    BY <1>1, <2>1
  <2>3. r.cells[c].pos = k1.cells[c].pos /\ r.cells[c].sequences = k1.cells[c].sequences \ {s}
    BY <2>1, <2>2 DEF Dropped
  <2>4. k1.cells[c].sequences \ {s} = kv.cells[c].sequences \ {s}
    BY DEF Loosened
  <2>5. kv.cells[c].sequences \ {s} # {} => kv.cells[c].sequences # {s}
    OBVIOUS
  <2> QED BY <2>3, <2>4, <2>5 DEF Loosened
<1>3. r.window = kv.window /\ r.memory = kv.memory /\ DOMAIN r.cells = DOMAIN kv.cells /\ r.data = kv.data
  BY DEF Loosened, Dropped
<1>4. OnlyFor(kv, r, s)
  <2>1. ASSUME NEW t \in Slots \ {s} PROVE SameFor(kv, r, t)
    <3>1. CellsOf(r, t) = CellsOf(kv, t)
      BY <1>2, <1>3 DEF CellsOf
    <3>2. \A c \in CellsOf(kv, t) : r.cells[c].pos = kv.cells[c].pos
      BY <1>2, <1>3 DEF CellsOf
    <3> QED BY <1>3, <3>1, <3>2 DEF SameFor
  <2> QED BY <1>3, <2>1 DEF OnlyFor
<1>5. CellsOf(r, s) = {}
  BY <1>2, <1>3 DEF CellsOf
<1> QED BY <1>4, <1>5, OnceForAll

\* CopyPrefix: dst has the cells of src up to a position, and nothing else.
LEMMA CopyPrefixKeeps ==
    ASSUME NEW kv, KvOK(kv), NEW src \in Slots, NEW dst \in Slots, src # dst, NEW len \in Int,
           NEW r, r = CopyPrefix(kv, src, dst, len)
    PROVE  /\ KvOK(r) /\ OnlyFor(kv, r, dst) /\ r.data = kv.data
           /\ CellsOf(r, dst) = {c \in CellsOf(kv, src) : kv.cells[c].pos < len}
           /\ \A c \in DOMAIN kv.cells : r.cells[c].pos = kv.cells[c].pos
<1> DEFINE copied == {c \in CellsOf(kv, src) : kv.cells[c].pos < len}
           new    == [c \in DOMAIN kv.cells |-> [kv.cells[c] EXCEPT
                          !.sequences = IF c \in copied THEN @ \cup {dst} ELSE @ \ {dst}]]
<1>1. KvShape(kv) /\ Ranges(kv) /\ Once(kv)
  BY DEF KvOK
<1>2. /\ DOMAIN r = DOMAIN kv /\ r.cells = new /\ r.window = kv.window
      /\ r.memory = kv.memory /\ r.data = kv.data /\ DOMAIN r.cellRanges = Slots
      /\ \A t \in Slots : r.cellRanges[t] = IF t = dst THEN RangeOf(copied) ELSE kv.cellRanges[t]
  BY <1>1 DEF CopyPrefix, KvShape
<1>3. copied \subseteq CellsOf(kv, src) /\ copied \subseteq DOMAIN kv.cells
  BY DEF CellsOf
<1>4. /\ DOMAIN new = DOMAIN kv.cells
      /\ \A c \in DOMAIN kv.cells :
           /\ DOMAIN new[c] = {"pos", "sequences"} /\ new[c].pos = kv.cells[c].pos
           /\ new[c].sequences = IF c \in copied THEN kv.cells[c].sequences \cup {dst}
                                 ELSE kv.cells[c].sequences \ {dst}
  <2>1. \A c \in DOMAIN kv.cells : DOMAIN kv.cells[c] = {"pos", "sequences"}
    BY <1>1 DEF KvShape
  <2> HIDE DEF copied
  <2> QED BY <2>1
<1> HIDE DEF new
<1>5. KvShape(r)
  <2>1. /\ DOMAIN r = {"window", "memory", "cells", "cellRanges", "data"}
        /\ r.window \in Windows /\ r.memory = SwaMemory(r.window)
        /\ DOMAIN r.cells = 0 .. CacheSize(r.window) - 1
        /\ DOMAIN r.data = DOMAIN r.cells /\ DOMAIN r.cellRanges = Slots
        /\ DOMAIN r.cells = DOMAIN kv.cells
    BY <1>1, <1>2, <1>4 DEF KvShape
  <2>2. ASSUME NEW c \in DOMAIN r.cells
        PROVE  /\ DOMAIN r.cells[c] = {"pos", "sequences"}
               /\ r.cells[c].pos \in 0 .. NumCtx - 1
               /\ r.cells[c].sequences \subseteq Slots
               /\ DOMAIN r.data[c] = {"token", "pos"}
    <3>1. c \in DOMAIN kv.cells /\ r.cells[c] = new[c] /\ r.data[c] = kv.data[c]
      BY <1>2, <2>1
    <3>2. kv.cells[c].sequences \subseteq Slots /\ kv.cells[c].pos \in 0 .. NumCtx - 1
          /\ DOMAIN kv.data[c] = {"token", "pos"}
      BY <1>1, <3>1 DEF KvShape
    <3> HIDE DEF copied
    <3> QED BY <1>4, <3>1, <3>2
  <2> QED BY <2>1, <2>2 DEF KvShape
<1>6. CellsOf(r, dst) = copied
  BY <1>2, <1>3, <1>4 DEF CellsOf
<1>7. ASSUME NEW t \in Slots \ {dst} PROVE CellsOf(r, t) = CellsOf(kv, t)
  BY <1>2, <1>4, <1>7 DEF CellsOf
<1>8. \A t : CellsOf(kv, t) \subseteq DOMAIN kv.cells
  BY DEF CellsOf
<1>9. OnlyFor(kv, r, dst)
  BY <1>2, <1>4, <1>7, <1>8 DEF OnlyFor, SameFor
<1>10. Ranges(r)
  <2>1. ASSUME NEW t \in Slots PROVE RangeFits(r, t)
    <3>1. CASE t = dst
      <4>1. r.cellRanges[t] = RangeOf(copied) /\ CellsOf(r, t) \subseteq copied /\ copied \subseteq DOMAIN r.cells
        BY <1>2, <1>3, <1>4, <1>6, <3>1
      <4> HIDE DEF copied
      <4> QED BY <1>5, <4>1, RangeComputed
    <3>2. CASE t # dst
      <4>1. r.cellRanges[t] = kv.cellRanges[t] /\ CellsOf(r, t) \subseteq CellsOf(kv, t)
            /\ DOMAIN r.cells = DOMAIN kv.cells
        BY <1>2, <1>4, <1>7, <3>2
      <4> QED BY <1>1, <4>1, RangeStays DEF Ranges
    <3> QED BY <3>1, <3>2
  <2> QED BY <2>1 DEF Ranges
<1>11. ASSUME NEW c \in CellsOf(r, dst), NEW d \in CellsOf(r, dst), r.cells[c].pos = r.cells[d].pos
       PROVE  c = d
  <2>1. c \in CellsOf(kv, src) /\ d \in CellsOf(kv, src)
    BY <1>3, <1>6
  <2>2. kv.cells[c].pos = kv.cells[d].pos
    BY <1>2, <1>4, <1>8, <1>11, <2>1
  <2> QED BY <1>1, <2>1, <2>2 DEF Once
<1>12. Once(r)
  BY <1>1, <1>9, <1>11, OnceForAll
<1>13. \A c \in DOMAIN kv.cells : r.cells[c].pos = kv.cells[c].pos
  BY <1>2, <1>4
<1> QED BY <1>2, <1>5, <1>6, <1>9, <1>10, <1>12, <1>13 DEF KvOK

-----------------------------------------------------------------------------
(* StartForward *)

\* A batch goes on where the cells of its sequences end, each position once.
BatchFits(kv, batch) ==
    /\ IsSeq(batch) /\ Len(batch) \in 1 .. BatchSize
    /\ \A e \in DOMAIN batch : batch[e].slot \in Slots /\ batch[e].pos \in 0 .. NumCtx - 1
    /\ \A e, f \in DOMAIN batch : batch[e].slot = batch[f].slot /\ batch[e].pos = batch[f].pos => e = f
    /\ \A e \in DOMAIN batch : \A c \in CellsOf(kv, batch[e].slot) : kv.cells[c].pos < batch[e].pos

\* The lowest position of a sequence is above those of its cells.
LEMMA LowestIs ==
    ASSUME NEW kv, KvShape(kv), Ranges(kv), NEW batch, BatchFits(kv, batch), NEW s \in Slots,
           NEW low, low = LowestPos(kv, batch, s)
    PROVE  /\ low \in Nat
           /\ \A c \in CellsOf(kv, s) : kv.cells[c].pos < low
           /\ \A e \in DOMAIN batch : batch[e].slot = s => low <= batch[e].pos
           /\ \/ \E e \in DOMAIN batch : batch[e].slot = s /\ batch[e].pos = low
              \/ CellsOf(kv, s) = {}
              \/ \E c \in CellsOf(kv, s) : kv.cells[c].pos = low - 1
<1> DEFINE B == {batch[i].pos : i \in {j \in DOMAIN batch : batch[j].slot = s}}
           P == {0} \cup PosOf(kv, InRange(kv, s))
<1>1. NumCtx \in Nat /\ NumCtx > 0 /\ \A c \in DOMAIN kv.cells : kv.cells[c].pos \in Nat /\ kv.cells[c].pos < NumCtx
  BY CellsAreNumbers
<1>2. InRange(kv, s) = CellsOf(kv, s) /\ CellsOf(kv, s) \subseteq DOMAIN kv.cells
  BY DEF Ranges, RangeFits, InRange, CellsOf
<1>3. low = IF B # {} THEN Min(B) ELSE Max(P) + 1
  BY DEF LowestPos
<1>4. CASE B # {}
  <2>1. B \in SUBSET Nat
    BY DEF BatchFits
  <2>2. PICK x \in B : TRUE
    BY <1>4
  <2>3. Min(B) \in B /\ \A y \in B : Min(B) <= y
    BY <2>1, <2>2, MinIn
  <2>4. low = Min(B)
    BY <1>3, <1>4
  <2>5. PICK e \in DOMAIN batch : batch[e].slot = s /\ batch[e].pos = low
    BY <2>3, <2>4
  <2>6. \A f \in DOMAIN batch : batch[f].slot = s => low <= batch[f].pos
    BY <2>3, <2>4
  <2>7. low \in Nat
    BY <2>1, <2>3, <2>4
  <2>8. \A c \in CellsOf(kv, s) : kv.cells[c].pos < low
    BY <2>5 DEF BatchFits
  <2> QED BY <2>5, <2>6, <2>7, <2>8
<1>5. CASE B = {}
  <2>1. P \in SUBSET (0 .. NumCtx - 1) /\ 0 \in P
    BY <1>1, <1>2 DEF PosOf
  <2>2. NumCtx - 1 \in Nat
    BY <1>1
  <2> DEFINE top == Max(P)
  <2>3. top \in P /\ \A y \in P : top >= y
    <3> HIDE DEF P
    <3> QED BY <2>1, <2>2, MaxIn
  <2>4. low = top + 1
    BY <1>3, <1>5
  <2> HIDE DEF top
  <2>5. top \in Nat
    BY <1>1, <2>1, <2>3
  <2>6. \A c \in CellsOf(kv, s) : kv.cells[c].pos \in P /\ kv.cells[c].pos \in Nat
    BY <1>1, <1>2 DEF PosOf
  <2>7. ASSUME NEW c \in CellsOf(kv, s) PROVE kv.cells[c].pos < low
    <3>1. top >= kv.cells[c].pos
      BY <2>3, <2>6
    <3> QED BY <2>4, <2>5, <2>6, <3>1
  <2>8. ~ \E e \in DOMAIN batch : batch[e].slot = s
    BY <1>5
  <2>9. CASE \E c \in CellsOf(kv, s) : kv.cells[c].pos = top
    <3>1. PICK c \in CellsOf(kv, s) : kv.cells[c].pos = top
      BY <2>9
    <3>2. top = low - 1
      BY <2>4, <2>5
    <3> QED BY <2>4, <2>5, <2>7, <2>8, <3>1, <3>2
  <2>10. CASE ~ \E c \in CellsOf(kv, s) : kv.cells[c].pos = top
    <3>1. top = 0
      BY <1>2, <2>3, <2>10 DEF PosOf
    <3>2. ASSUME NEW c \in CellsOf(kv, s) PROVE FALSE
      <4>1. kv.cells[c].pos \in Nat /\ top >= kv.cells[c].pos
        BY <2>3, <2>6
      <4>2. kv.cells[c].pos = top
        BY <3>1, <4>1
      <4> QED BY <2>10, <4>2
    <3> QED BY <2>4, <2>5, <2>7, <2>8, <3>2
  <2> QED BY <2>9, <2>10
<1> QED BY <1>4, <1>5

\* What a sequence loses when the window moves on.
Gone(kv, batch, s) ==
    IF kv.memory = MaxInt THEN {}
    ELSE {c \in CellsOf(kv, s) : kv.cells[c].pos < LowestPos(kv, batch, s) - kv.memory}

\* r is kv after the window of every sequence moved on.
Trimmed(kv, r, batch) ==
    /\ r.window = kv.window /\ r.memory = kv.memory /\ r.data = kv.data
    /\ DOMAIN r.cells = DOMAIN kv.cells
    /\ \A c \in DOMAIN kv.cells : r.cells[c].pos = kv.cells[c].pos
    /\ \A s \in Slots : CellsOf(r, s) = CellsOf(kv, s) \ Gone(kv, batch, s)

\* updateSlidingWindow.
LEMMA WindowMoves ==
    ASSUME NEW kv, KvOK(kv), NEW batch, NEW r, r = updateSlidingWindow(kv, batch)
    PROVE  KvOK(r) /\ Trimmed(kv, r, batch)
<1>1. KvShape(kv) /\ Ranges(kv) /\ Once(kv)
  BY DEF KvOK
<1>2. CASE kv.memory = MaxInt
  <2>1. r = kv
    BY <1>2 DEF updateSlidingWindow
  <2>2. \A s \in Slots : Gone(kv, batch, s) = {}
    BY <1>2 DEF Gone
  <2> QED BY <2>1, <2>2 DEF Trimmed
<1>3. CASE kv.memory # MaxInt
  <2> DEFINE new  == [c \in DOMAIN kv.cells |-> [kv.cells[c] EXCEPT
                        !.sequences = {s \in @ : c \notin OutOfWindow(kv, batch, s)}]]
             over == [s \in Slots |-> IF kv.cellRanges[s] = None THEN None
                        ELSE RangeOf(InRange(kv, s) \ OutOfWindow(kv, batch, s))]
  <2>1. r = [kv EXCEPT !.cells = new, !.cellRanges = over]
    BY <1>3 DEF updateSlidingWindow
  <2>2. /\ DOMAIN new = DOMAIN kv.cells
        /\ \A c \in DOMAIN kv.cells :
             /\ DOMAIN new[c] = {"pos", "sequences"} /\ new[c].pos = kv.cells[c].pos
             /\ new[c].sequences = {s \in kv.cells[c].sequences : c \notin OutOfWindow(kv, batch, s)}
    BY <1>1 DEF KvShape
  <2>3. /\ DOMAIN over = Slots
        /\ \A s \in Slots : over[s] = IF kv.cellRanges[s] = None THEN None
                                      ELSE RangeOf(InRange(kv, s) \ OutOfWindow(kv, batch, s))
    OBVIOUS
  <2> HIDE DEF new, over
  <2>4. /\ DOMAIN r = DOMAIN kv /\ r.cells = new /\ r.cellRanges = over /\ r.window = kv.window
        /\ r.memory = kv.memory /\ r.data = kv.data
    BY <1>1, <2>1 DEF KvShape
  <2>5. KvShape(r)
    <3>1. /\ DOMAIN r = {"window", "memory", "cells", "cellRanges", "data"}
          /\ r.window \in Windows /\ r.memory = SwaMemory(r.window)
          /\ DOMAIN r.cells = 0 .. CacheSize(r.window) - 1
          /\ DOMAIN r.data = DOMAIN r.cells /\ DOMAIN r.cellRanges = Slots
          /\ DOMAIN r.cells = DOMAIN kv.cells
      BY <1>1, <2>2, <2>3, <2>4 DEF KvShape
    <3>2. ASSUME NEW c \in DOMAIN r.cells
          PROVE  /\ DOMAIN r.cells[c] = {"pos", "sequences"}
                 /\ r.cells[c].pos \in 0 .. NumCtx - 1
                 /\ r.cells[c].sequences \subseteq Slots
                 /\ DOMAIN r.data[c] = {"token", "pos"}
      <4>1. c \in DOMAIN kv.cells /\ r.cells[c] = new[c] /\ r.data[c] = kv.data[c]
        BY <2>4, <3>1
      <4>2. kv.cells[c].sequences \subseteq Slots /\ kv.cells[c].pos \in 0 .. NumCtx - 1
            /\ DOMAIN kv.data[c] = {"token", "pos"}
        BY <1>1, <4>1 DEF KvShape
      <4> QED BY <2>2, <4>1, <4>2
    <3> QED BY <3>1, <3>2 DEF KvShape
  <2>6. ASSUME NEW s \in Slots PROVE InRange(kv, s) = CellsOf(kv, s)
    BY <1>1 DEF Ranges, RangeFits, InRange
  <2>7. ASSUME NEW s \in Slots PROVE OutOfWindow(kv, batch, s) = Gone(kv, batch, s)
    BY <1>3, <2>6 DEF OutOfWindow, Gone
  <2>8. ASSUME NEW s \in Slots PROVE CellsOf(r, s) = CellsOf(kv, s) \ Gone(kv, batch, s)
    BY <2>2, <2>4, <2>7 DEF CellsOf
  <2>9. Trimmed(kv, r, batch)
    BY <2>2, <2>4, <2>8 DEF Trimmed
  <2>10. ASSUME NEW s \in Slots PROVE RangeFits(r, s)
    <3>1. CASE kv.cellRanges[s] = None
      <4>1. CellsOf(kv, s) = {}
        BY <1>1, <3>1 DEF Ranges, RangeFits, InRange
      <4>2. CellsOf(r, s) = {} /\ r.cellRanges[s] = None
        BY <2>3, <2>4, <2>8, <3>1, <4>1
      <4> QED BY <4>2, RangeOfNone
    <3>2. CASE kv.cellRanges[s] # None
      <4> DEFINE C == InRange(kv, s) \ OutOfWindow(kv, batch, s)
      <4>1. CellsOf(r, s) = C
        BY <2>6, <2>7, <2>8
      <4>2. C \subseteq DOMAIN r.cells
        BY <4>1 DEF CellsOf
      <4>3. r.cellRanges[s] = RangeOf(C)
        BY <2>3, <2>4, <3>2
      <4> HIDE DEF C
      <4> QED BY <2>5, <4>1, <4>2, <4>3, RangeComputed
    <3> QED BY <3>1, <3>2
  <2>11. Once(r)
    <3> SUFFICES ASSUME NEW s \in Slots, NEW c \in CellsOf(r, s), NEW d \in CellsOf(r, s),
                        r.cells[c].pos = r.cells[d].pos
                 PROVE  c = d
      BY DEF Once
    <3>1. c \in CellsOf(kv, s) /\ d \in CellsOf(kv, s) /\ c \in DOMAIN kv.cells /\ d \in DOMAIN kv.cells
      BY <2>8 DEF CellsOf
    <3>2. kv.cells[c].pos = kv.cells[d].pos
      BY <2>9, <3>1 DEF Trimmed
    <3> QED BY <1>1, <3>1, <3>2 DEF Once
  <2> QED BY <2>5, <2>9, <2>10, <2>11 DEF KvOK, Ranges
<1> QED BY <1>2, <1>3

\* Cells in use that can be told apart by members of T leave the rest free.
LEMMA FreeCount ==
    ASSUME NEW kv, KvShape(kv), NEW T, IsFiniteSet(T),
           NEW f \in [DOMAIN kv.cells \ Free(kv) -> T],
           \A c, d \in DOMAIN kv.cells \ Free(kv) : f[c] = f[d] => c = d
    PROVE  /\ IsFiniteSet(Free(kv))
           /\ Cardinality(Free(kv)) >= CacheSize(kv.window) - Cardinality(T)
<1> DEFINE D == DOMAIN kv.cells
           F == Free(kv)
           n == CacheSize(kv.window)
<1>1. n \in Nat /\ n > 0 /\ D = 0 .. n - 1 /\ F \subseteq D
  BY CellsAreNumbers DEF Free
<1>2. IsFiniteSet(D) /\ Cardinality(D) = n
  <2>1. 0 \in Int /\ n - 1 \in Int /\ ~(0 > n - 1) /\ n - 1 - 0 + 1 = n
    BY <1>1
  <2> HIDE DEF D, n
  <2>2. IsFiniteSet(0 .. n - 1) /\ Cardinality(0 .. n - 1) = n - 1 - 0 + 1
    BY <2>1, FS_Interval
  <2> QED BY <1>1, <2>1, <2>2
<1>3. f \in Injection(D \ F, T)
  BY DEF Injection, IsInjective
<1> HIDE DEF D, F, n
<1>4. IsFiniteSet(D \ F) /\ Cardinality(D \ F) <= Cardinality(T)
  BY <1>3, FS_Injection
<1>5. F \cap D = F /\ D \cap F = F
  BY <1>1
<1>6. Cardinality(D \ F) = Cardinality(D) - Cardinality(F)
  <2>1. Cardinality(D \ F) = Cardinality(D) - Cardinality(D \cap F)
    BY <1>2, FS_Difference
  <2> QED BY <1>5, <2>1
<1>7. IsFiniteSet(F)
  BY <1>1, <1>2, FS_Subset
<1>8. Cardinality(F) \in Nat /\ Cardinality(T) \in Nat /\ Cardinality(D \ F) \in Nat
  BY <1>4, <1>7, FS_CardinalityType
<1>9. Cardinality(F) >= n - Cardinality(T)
  BY <1>1, <1>2, <1>4, <1>6, <1>8
<1> QED BY <1>7, <1>9 DEF F, n

\* Pairs of a slot and a number below m.
LEMMA PairCount ==
    ASSUME NEW m \in Nat, m > 0
    PROVE  /\ IsFiniteSet(Slots \X (0 .. m - 1))
           /\ Cardinality(Slots \X (0 .. m - 1)) = NumSlots * m
<1>1. 0 \in Int /\ m - 1 \in Int /\ ~(0 > m - 1) /\ m - 1 - 0 + 1 = m
  OBVIOUS
<1>2. IsFiniteSet(0 .. m - 1) /\ Cardinality(0 .. m - 1) = m - 1 - 0 + 1
  BY <1>1, FS_Interval
<1>3. IsFiniteSet(Slots) /\ Cardinality(Slots) = NumSlots
  BY SlotCount
<1> QED BY <1>1, <1>2, <1>3, FS_Product

\* Without a window there is room for every position of every sequence, and
\* those of the batch have no cell yet.
LEMMA RoomWithoutWindow ==
    ASSUME NEW kv, KvOK(kv), kv.memory = MaxInt, NEW batch, BatchFits(kv, batch)
    PROVE  IsFiniteSet(Free(kv)) /\ Cardinality(Free(kv)) >= Len(batch)
<1> DEFINE U == Slots \X (0 .. NumCtx - 1)
           B == {<<batch[e].slot, batch[e].pos>> : e \in DOMAIN batch}
           N == DOMAIN kv.cells \ Free(kv)
           w(c) == CHOOSE s \in Slots : s \in kv.cells[c].sequences
           f == [c \in N |-> <<w(c), kv.cells[c].pos>>]
<1>1. KvShape(kv) /\ Once(kv)
  BY DEF KvOK
<1>2. NumCtx \in Nat /\ NumCtx > 0
  BY <1>1, CellsAreNumbers
<1>3. IsFiniteSet(U) /\ Cardinality(U) = NumSlots * NumCtx
  BY <1>2, PairCount
<1>4. Len(batch) \in Nat /\ DOMAIN batch = 1 .. Len(batch)
  BY DEF BatchFits, IsSeq
<1>5. IsFiniteSet(B) /\ Cardinality(B) = Len(batch) /\ B \subseteq U
  <2> DEFINE g == [e \in DOMAIN batch |-> <<batch[e].slot, batch[e].pos>>]
  <2>1. IsFiniteSet(1 .. Len(batch)) /\ Cardinality(1 .. Len(batch)) = Len(batch)
    <3>1. 1 \in Int /\ Len(batch) \in Int /\ (Len(batch) >= 1) /\ Len(batch) - 1 + 1 = Len(batch) /\ ~(1 > Len(batch))
      BY <1>4 DEF BatchFits
    <3> QED BY <3>1, FS_Interval
  <2>2. g \in Bijection(DOMAIN batch, B)
    <3>1. g \in [DOMAIN batch -> B] /\ \A t \in B : \E e \in DOMAIN batch : g[e] = t
      OBVIOUS
    <3>2. \A d, e \in DOMAIN batch : g[d] = g[e] => d = e
      BY DEF BatchFits
    <3> HIDE DEF g, B
    <3> QED BY <3>1, <3>2 DEF Bijection, Injection, Surjection, IsInjective
  <2>3. B \subseteq U
    BY DEF BatchFits
  <2> HIDE DEF g, B
  <2> QED BY <1>4, <2>1, <2>2, <2>3, FS_Bijection DEF ExistsBijection
<1>6. U \cap B = B
  BY <1>5
<1>7. IsFiniteSet(U \ B) /\ Cardinality(U \ B) = NumSlots * NumCtx - Len(batch)
  <2> HIDE DEF U, B
  <2>1. IsFiniteSet(U \ B) /\ Cardinality(U \ B) = Cardinality(U) - Cardinality(U \cap B)
    BY <1>3, FS_Difference
  <2> QED BY <1>3, <1>5, <1>6, <2>1
<1>8. ASSUME NEW c \in N
      PROVE  /\ w(c) \in Slots /\ c \in CellsOf(kv, w(c)) /\ kv.cells[c].pos \in 0 .. NumCtx - 1
             /\ f[c] = <<w(c), kv.cells[c].pos>>
  <2>1. kv.cells[c].sequences # {} /\ kv.cells[c].sequences \subseteq Slots
        /\ c \in DOMAIN kv.cells /\ kv.cells[c].pos \in 0 .. NumCtx - 1
    BY <1>1 DEF Free, KvShape
  <2>2. w(c) \in Slots /\ w(c) \in kv.cells[c].sequences
    BY <2>1
  <2> QED BY <2>1, <2>2 DEF CellsOf
<1> HIDE DEF w
<1>9. f \in [N -> U \ B]
  <2>1. ASSUME NEW c \in N PROVE <<w(c), kv.cells[c].pos>> \notin B
    <3> SUFFICES ASSUME NEW e \in DOMAIN batch, <<w(c), kv.cells[c].pos>> = <<batch[e].slot, batch[e].pos>>
                 PROVE  FALSE
      OBVIOUS
    <3>1. c \in CellsOf(kv, batch[e].slot) /\ kv.cells[c].pos = batch[e].pos
      <4>1. w(c) = batch[e].slot /\ kv.cells[c].pos = batch[e].pos
        OBVIOUS
      <4> QED BY <1>8, <4>1
    <3>2. kv.cells[c].pos < batch[e].pos
      BY <3>1 DEF BatchFits
    <3>3. kv.cells[c].pos \in Int
      <4>1. c \in DOMAIN kv.cells
        BY <3>1 DEF CellsOf
      <4> QED BY <1>1, <4>1, CellsAreNumbers
    <3> QED BY <3>1, <3>2, <3>3
  <2> HIDE DEF B
  <2> QED BY <1>8, <2>1
<1>10. ASSUME NEW c \in N, NEW d \in N, f[c] = f[d] PROVE c = d
  <2>1. w(c) = w(d) /\ kv.cells[c].pos = kv.cells[d].pos
    BY <1>8, <1>10
  <2> QED BY <1>1, <1>8, <2>1 DEF Once
<1> HIDE DEF f, U, B
<1>11. /\ IsFiniteSet(Free(kv))
       /\ Cardinality(Free(kv)) >= CacheSize(kv.window) - Cardinality(U \ B)
  BY <1>1, <1>7, <1>9, <1>10, FreeCount
<1>12. CacheSize(kv.window) >= NumSlots * NumCtx /\ CacheSize(kv.window) \in Nat
  BY <1>1, Sizes DEF KvShape
<1>13. Cardinality(Free(kv)) \in Nat /\ NumSlots * NumCtx \in Nat
  BY <1>2, <1>11, SlotCount, FS_CardinalityType
<1> QED BY <1>4, <1>7, <1>11, <1>12, <1>13

\* With a window every sequence keeps as many cells as the window remembers, and
\* a batch fits beside them.
LEMMA RoomWithWindow ==
    ASSUME NEW kv, KvOK(kv), kv.memory # MaxInt, NEW batch, BatchFits(kv, batch),
           NEW r, KvOK(r), Trimmed(kv, r, batch)
    PROVE  IsFiniteSet(Free(r)) /\ Cardinality(Free(r)) >= Len(batch)
<1> DEFINE m == kv.memory
           U == Slots \X (0 .. m - 1)
           N == DOMAIN r.cells \ Free(r)
           low(s) == LowestPos(kv, batch, s)
           w(c) == CHOOSE s \in Slots : s \in r.cells[c].sequences
           f == [c \in N |-> <<w(c), low(w(c)) - 1 - r.cells[c].pos>>]
<1>1. KvShape(kv) /\ Ranges(kv) /\ KvShape(r) /\ Once(r)
  BY DEF KvOK
<1>2. /\ m \in Nat /\ m > 0 /\ CacheSize(kv.window) >= NumSlots * m + BatchSize
      /\ CacheSize(kv.window) \in Nat /\ r.window = kv.window
  BY <1>1, Sizes DEF KvShape, Trimmed
<1>3. IsFiniteSet(U) /\ Cardinality(U) = NumSlots * m
  BY <1>2, PairCount
<1>4. Len(batch) \in Nat /\ Len(batch) <= BatchSize /\ BatchSize \in Nat
  BY CacheConstants DEF BatchFits
<1>5. ASSUME NEW c \in N
      PROVE  /\ w(c) \in Slots /\ c \in CellsOf(r, w(c)) /\ r.cells[c].pos \in Nat
             /\ f[c] = <<w(c), low(w(c)) - 1 - r.cells[c].pos>>
             /\ low(w(c)) \in Nat /\ low(w(c)) - 1 - r.cells[c].pos \in 0 .. m - 1
  <2>1. r.cells[c].sequences # {} /\ r.cells[c].sequences \subseteq Slots
        /\ c \in DOMAIN r.cells /\ r.cells[c].pos \in Nat
    BY <1>1, CellsAreNumbers DEF Free, KvShape
  <2>2. w(c) \in Slots /\ w(c) \in r.cells[c].sequences
    BY <2>1
  <2>3. f[c] = <<w(c), low(w(c)) - 1 - r.cells[c].pos>>
    OBVIOUS
  <2>4. c \in CellsOf(r, w(c))
    BY <2>1, <2>2 DEF CellsOf
  <2> HIDE DEF w
  <2>5. /\ c \in CellsOf(kv, w(c)) /\ c \notin Gone(kv, batch, w(c))
        /\ r.cells[c].pos = kv.cells[c].pos
    BY <2>1, <2>2, <2>4 DEF Trimmed
  <2>6. low(w(c)) \in Nat /\ kv.cells[c].pos < low(w(c))
    BY <1>1, <2>2, <2>5, LowestIs
  <2>7. ~(kv.cells[c].pos < low(w(c)) - m)
    BY <2>5 DEF Gone
  <2> HIDE DEF low, m
  <2>8. low(w(c)) - 1 - r.cells[c].pos \in 0 .. m - 1
    BY <1>2, <2>1, <2>5, <2>6, <2>7
  <2> QED BY <2>1, <2>2, <2>3, <2>4, <2>6, <2>8
<1> HIDE DEF w, low, m
<1>6. f \in [N -> U]
  BY <1>5
<1>7. ASSUME NEW c \in N, NEW d \in N, f[c] = f[d] PROVE c = d
  <2>1. w(c) = w(d) /\ low(w(c)) - 1 - r.cells[c].pos = low(w(d)) - 1 - r.cells[d].pos
    BY <1>5, <1>7
  <2>2. r.cells[c].pos \in Nat /\ r.cells[d].pos \in Nat /\ low(w(c)) \in Nat
    BY <1>5
  <2>3. r.cells[c].pos = r.cells[d].pos
    BY <2>1, <2>2
  <2> QED BY <1>1, <1>5, <2>1, <2>3 DEF Once
<1> HIDE DEF f, U
<1>8. /\ IsFiniteSet(Free(r))
      /\ Cardinality(Free(r)) >= CacheSize(r.window) - Cardinality(U)
  BY <1>1, <1>3, <1>6, <1>7, FreeCount
<1>9. Cardinality(Free(r)) \in Nat /\ NumSlots * m \in Nat
  BY <1>2, <1>8, SlotCount, FS_CardinalityType
<1> QED BY <1>2, <1>3, <1>4, <1>8, <1>9

\* So the batch finds its cells.
LEMMA RoomForBatch ==
    ASSUME NEW kv, KvOK(kv), NEW batch, BatchFits(kv, batch),
           NEW r, r = updateSlidingWindow(kv, batch)
    PROVE  IsFiniteSet(Free(r)) /\ Cardinality(Free(r)) >= Len(batch)
<1>1. KvOK(r) /\ Trimmed(kv, r, batch)
  BY WindowMoves
<1>2. CASE kv.memory = MaxInt
  <2>1. r = kv
    BY <1>2 DEF updateSlidingWindow
  <2> QED BY <1>2, <2>1, RoomWithoutWindow
<1>3. CASE kv.memory # MaxInt
  BY <1>1, <1>3, RoomWithWindow
<1> QED BY <1>2, <1>3

\* findLocs: the first free cells, each once.
LEMMA LocsFound ==
    ASSUME NEW kv, KvShape(kv), IsFiniteSet(Free(kv)), NEW n \in Nat, Cardinality(Free(kv)) >= n
    PROVE  /\ \A i \in 1 .. n : findLoc(kv, i) \in Free(kv)
           /\ \A i, j \in 1 .. n : findLoc(kv, i) = findLoc(kv, j) => i = j
<1> DEFINE F == Free(kv)
           K == Cardinality(F)
           L(c) == {d \in F : d < c}
           g == [c \in F |-> Cardinality(L(c))]
<1>1. F \subseteq Nat /\ IsFiniteSet(F) /\ K \in Nat /\ K >= n
  <2>1. F \subseteq DOMAIN kv.cells
    BY DEF Free
  <2> QED BY <2>1, CellsAreNumbers, FS_CardinalityType
<1>2. \A i : findLoc(kv, i) = CHOOSE c \in F : Cardinality(L(c)) = i - 1
  BY DEF findLoc
<1> HIDE DEF F
<1>3. ASSUME NEW c \in F PROVE IsFiniteSet(L(c)) /\ Cardinality(L(c)) \in Nat /\ L(c) \subseteq F
  <2>1. L(c) \in SUBSET F
    OBVIOUS
  <2> HIDE DEF L
  <2> QED BY <1>1, <2>1, FS_Subset, FS_CardinalityType
<1>4. ASSUME NEW c \in F PROVE Cardinality(L(c)) \in 0 .. K - 1
  <2>1. c \notin L(c) /\ L(c) # F /\ L(c) \in SUBSET F
    BY <1>1
  <2>2. IsFiniteSet(L(c)) /\ Cardinality(L(c)) \in Nat
    BY <1>3
  <2> HIDE DEF L, K
  <2>3. Cardinality(L(c)) <= Cardinality(F) /\ Cardinality(L(c)) # Cardinality(F)
    BY <1>1, <2>1, FS_Subset
  <2> QED BY <1>1, <2>2, <2>3 DEF K
<1>5. ASSUME NEW c \in F, NEW d \in F, c < d PROVE Cardinality(L(c)) # Cardinality(L(d))
  <2>1. L(c) \in SUBSET L(d) /\ c \in L(d) /\ c \notin L(c)
    <3>1. c \in Nat /\ d \in Nat /\ F \subseteq Nat
      BY <1>1
    <3>2. \A x \in Nat : x < c => x < d
      BY <1>5, <3>1
    <3>3. ~(c < c) /\ c < d
      BY <1>5, <3>1
    <3>4. \A x \in L(c) : x \in L(d)
      BY <3>1, <3>2
    <3>5. L(c) \in SUBSET L(d)
      BY <3>4
    <3> QED BY <3>3, <3>5
  <2>2. IsFiniteSet(L(d)) /\ L(c) # L(d)
    BY <1>3, <2>1
  <2> HIDE DEF L
  <2> QED BY <2>1, <2>2, FS_Subset
<1>6. ASSUME NEW c \in F, NEW d \in F, Cardinality(L(c)) = Cardinality(L(d)) PROVE c = d
  <2>1. c \in Nat /\ d \in Nat
    BY <1>1
  <2>2. c < d \/ d < c \/ c = d
    BY <2>1
  <2> QED BY <1>5, <1>6, <2>2
<1> HIDE DEF L
<1>7. CASE K = 0
  <2>1. n = 0
    BY <1>1, <1>7
  <2> QED BY <2>1
<1>8. CASE K > 0
  <2>1. g \in [F -> 0 .. K - 1] /\ \A c, d \in F : g[c] = g[d] => c = d
    BY <1>4, <1>6
  <2> DEFINE T == 0 .. K - 1
  <2>2. IsFiniteSet(T) /\ Cardinality(T) = K
    <3>1. 0 \in Int /\ K - 1 \in Int /\ ~(0 > K - 1) /\ K - 1 - 0 + 1 = K
      BY <1>1, <1>8
    <3> HIDE DEF K
    <3> QED BY <3>1, FS_Interval
  <2> HIDE DEF g, T
  <2>3. g \in Injection(F, T)
    BY <2>1 DEF Injection, IsInjective, T
  <2>4. g \in Surjection(F, T)
    BY <2>2, <2>3, FS_Injection DEF K
  <2>5. ASSUME NEW i \in 1 .. n PROVE \E c \in F : Cardinality(L(c)) = i - 1
    <3>1. i - 1 \in T
      <4> HIDE DEF K
      <4> QED BY <1>1 DEF T
    <3>2. PICK c \in F : g[c] = i - 1
      BY <2>4, <3>1 DEF Surjection
    <3> QED BY <3>2 DEF g
  <2>6. ASSUME NEW i \in 1 .. n PROVE findLoc(kv, i) \in F /\ Cardinality(L(findLoc(kv, i))) = i - 1
    BY <1>2, <2>5
  <2>7. ASSUME NEW i \in 1 .. n, NEW j \in 1 .. n, findLoc(kv, i) = findLoc(kv, j) PROVE i = j
    <3>1. i - 1 = j - 1
      BY <2>6, <2>7
    <3> QED BY <3>1
  <2> QED BY <2>6, <2>7 DEF F
<1> QED BY <1>1, <1>7, <1>8

\* r is kv with a cell for every entry of the batch.
PutAt(kv, r, batch, loc) ==
    /\ r.window = kv.window /\ r.memory = kv.memory /\ r.data = kv.data
    /\ DOMAIN r.cells = DOMAIN kv.cells
    /\ DOMAIN loc = DOMAIN batch
    /\ \A e \in DOMAIN batch : /\ loc[e] \in DOMAIN kv.cells
                               /\ r.cells[loc[e]].pos = batch[e].pos
                               /\ \A s \in Slots : loc[e] \notin CellsOf(kv, s)
    /\ \A d, e \in DOMAIN batch : loc[d] = loc[e] => d = e
    /\ \A s \in Slots : /\ CellsOf(r, s) = CellsOf(kv, s)
                                            \cup {loc[e] : e \in {j \in DOMAIN batch : batch[j].slot = s}}
                        /\ \A c \in CellsOf(kv, s) : r.cells[c].pos = kv.cells[c].pos

\* The range of a sequence that gets cells.
LEMMA RangeWidened ==
    ASSUME NEW K \in Nat, NEW C \in SUBSET (0 .. K), NEW x \in C, NEW range,
           range = None \/ range \in [min : Nat, max : 0 .. K],
           NEW w, w = Widened(range, C)
    PROVE  /\ w \in [min : Nat, max : 0 .. K] /\ w # None
           /\ \A c \in C : w.min <= c /\ c <= w.max
           /\ range # None => w.min <= range.min /\ range.max <= w.max
<1> DEFINE A == C \cup IF range = None THEN {} ELSE {range.min}
           B == C \cup IF range = None THEN {} ELSE {range.max}
<1>1. A \in SUBSET Nat /\ B \in SUBSET (0 .. K)
  <2>1. C \in SUBSET Nat
    OBVIOUS
  <2>2. CASE range = None
    BY <2>1, <2>2
  <2>3. CASE range # None
    <3>1. range.min \in Nat /\ range.max \in 0 .. K
      BY <2>3
    <3>2. A = C \cup {range.min} /\ B = C \cup {range.max}
      BY <2>3
    <3> HIDE DEF A, B
    <3> QED BY <2>1, <3>1, <3>2
  <2> QED BY <2>2, <2>3
<1>2. w = [min |-> Min(A), max |-> Max(B)]
  BY DEF Widened
<1>3. C \subseteq A /\ C \subseteq B /\ \A y \in C : y \in Nat
  OBVIOUS
<1>4. ASSUME range # None
      PROVE  range.min \in A /\ range.max \in B /\ range.min \in Nat /\ range.max \in Nat
  BY <1>4
<1> HIDE DEF A, B
<1>5. /\ Min(A) \in A /\ \A y \in A : Min(A) <= y
      /\ Max(B) \in B /\ \A y \in B : Max(B) >= y
      /\ Min(A) \in Nat /\ Max(B) \in 0 .. K
  <2>1. x \in A /\ x \in B
    BY <1>3
  <2>2. Min(A) \in A /\ \A y \in A : Min(A) <= y
    BY <1>1, <2>1, MinIn
  <2>3. B \subseteq 0 .. K /\ B # {}
    BY <1>1, <2>1
  <2>4. Max(B) \in B /\ \A y \in B : Max(B) >= y
    BY <2>3, MaxIn
  <2> QED BY <1>1, <2>2, <2>4
<1>6. w \in [min : Nat, max : 0 .. K]
  BY <1>2, <1>5
<1>7. w # None
  <2>1. Max(B) \in Nat
    BY <1>5
  <2>2. w \in [min : Nat, max : Nat]
    BY <1>2, <1>5, <2>1
  <2> QED BY <2>2, CacheConstants
<1>8. ASSUME NEW c \in C PROVE w.min <= c /\ c <= w.max
  <2>1. Min(A) <= c /\ Max(B) >= c
    BY <1>3, <1>5
  <2>2. c \in Nat /\ Max(B) \in Nat
    BY <1>3, <1>5
  <2> QED BY <1>2, <2>1, <2>2
<1>9. ASSUME range # None PROVE w.min <= range.min /\ range.max <= w.max
  <2>1. Min(A) <= range.min /\ Max(B) >= range.max
    BY <1>4, <1>5, <1>9
  <2>2. range.max \in Nat /\ Max(B) \in Nat
    BY <1>4, <1>5, <1>9
  <2> QED BY <1>2, <2>1, <2>2
<1> QED BY <1>6, <1>7, <1>8, <1>9

\* Entries take free cells.
LEMMA PutKeeps ==
    ASSUME NEW kv, KvOK(kv), NEW batch, BatchFits(kv, batch),
           NEW loc, DOMAIN loc = DOMAIN batch, \A e \in DOMAIN batch : loc[e] \in Free(kv),
           \A d, e \in DOMAIN batch : loc[d] = loc[e] => d = e,
           NEW r, r = PutCells(kv, batch, loc)
    PROVE  KvOK(r) /\ PutAt(kv, r, batch, loc)
<1> DEFINE D     == DOMAIN kv.cells
           at(c) == CHOOSE i \in DOMAIN batch : loc[i] = c
           new   == [c \in D |->
                       IF \E i \in DOMAIN batch : loc[i] = c
                       THEN [pos |-> batch[at(c)].pos, sequences |-> {batch[at(c)].slot}]
                       ELSE kv.cells[c]]
           mine(s) == {loc[i] : i \in {j \in DOMAIN batch : batch[j].slot = s}}
           over    == [s \in Slots |-> Widened(kv.cellRanges[s], mine(s))]
<1>1. KvShape(kv) /\ Ranges(kv) /\ Once(kv)
  BY DEF KvOK
<1>2. r = [kv EXCEPT !.cells = new, !.cellRanges = over]
  BY <1>1 DEF PutCells, KvShape
<1>3. \A e \in DOMAIN batch : loc[e] \in D /\ kv.cells[loc[e]].sequences = {}
  BY DEF Free
<1>4. \A e \in DOMAIN batch : at(loc[e]) = e
  OBVIOUS
<1>5. /\ DOMAIN new = D
      /\ \A e \in DOMAIN batch : new[loc[e]] = [pos |-> batch[e].pos, sequences |-> {batch[e].slot}]
      /\ \A c \in D : (~ \E e \in DOMAIN batch : loc[e] = c) => new[c] = kv.cells[c]
  <2> HIDE DEF at
  <2> QED BY <1>3, <1>4
<1>6. DOMAIN over = Slots /\ \A s \in Slots : over[s] = Widened(kv.cellRanges[s], mine(s))
  OBVIOUS
<1> HIDE DEF new, at, over
<1>7. /\ DOMAIN r = DOMAIN kv /\ r.cells = new /\ r.cellRanges = over /\ r.window = kv.window
      /\ r.memory = kv.memory /\ r.data = kv.data
  BY <1>1, <1>2 DEF KvShape
<1>8. KvShape(r)
  <2>1. /\ DOMAIN r = {"window", "memory", "cells", "cellRanges", "data"}
        /\ r.window \in Windows /\ r.memory = SwaMemory(r.window)
        /\ DOMAIN r.cells = 0 .. CacheSize(r.window) - 1
        /\ DOMAIN r.data = DOMAIN r.cells /\ DOMAIN r.cellRanges = Slots
        /\ DOMAIN r.cells = D
    BY <1>1, <1>5, <1>6, <1>7 DEF KvShape
  <2>2. ASSUME NEW c \in DOMAIN r.cells
        PROVE  /\ DOMAIN r.cells[c] = {"pos", "sequences"}
               /\ r.cells[c].pos \in 0 .. NumCtx - 1
               /\ r.cells[c].sequences \subseteq Slots
               /\ DOMAIN r.data[c] = {"token", "pos"}
    <3>1. c \in D /\ r.cells[c] = new[c] /\ r.data[c] = kv.data[c]
      BY <1>7, <2>1
    <3>2. DOMAIN kv.data[c] = {"token", "pos"}
      BY <1>1, <3>1 DEF KvShape
    <3>3. CASE \E e \in DOMAIN batch : loc[e] = c
      <4>1. PICK e \in DOMAIN batch : loc[e] = c
        BY <3>3
      <4>2. r.cells[c] = [pos |-> batch[e].pos, sequences |-> {batch[e].slot}]
        BY <1>5, <3>1, <4>1
      <4> QED BY <3>1, <3>2, <4>2 DEF BatchFits
    <3>4. CASE ~ \E e \in DOMAIN batch : loc[e] = c
      <4>1. r.cells[c] = kv.cells[c]
        BY <1>5, <3>1, <3>4
      <4> QED BY <1>1, <3>1, <4>1 DEF KvShape
    <3> QED BY <3>3, <3>4
  <2> QED BY <2>1, <2>2 DEF KvShape
<1>9. ASSUME NEW s \in Slots
      PROVE  /\ \A e \in DOMAIN batch : loc[e] \notin CellsOf(kv, s)
             /\ CellsOf(r, s) = CellsOf(kv, s) \cup mine(s)
             /\ \A c \in CellsOf(kv, s) : r.cells[c] = kv.cells[c]
  <2>1. \A e \in DOMAIN batch : loc[e] \notin CellsOf(kv, s)
    BY <1>3 DEF CellsOf
  <2>2. \A c \in CellsOf(kv, s) : r.cells[c] = kv.cells[c]
    BY <1>5, <1>7, <2>1 DEF CellsOf
  <2>3. ASSUME NEW c \in D PROVE s \in r.cells[c].sequences <=> c \in CellsOf(kv, s) \cup mine(s)
    <3>1. CASE \E e \in DOMAIN batch : loc[e] = c
      <4>1. PICK e \in DOMAIN batch : loc[e] = c
        BY <3>1
      <4>2. r.cells[c].sequences = {batch[e].slot}
        <5>1. r.cells[c] = [pos |-> batch[e].pos, sequences |-> {batch[e].slot}]
          BY <1>5, <1>7, <4>1
        <5> QED BY <5>1
      <4>3. c \notin CellsOf(kv, s)
        BY <2>1, <4>1
      <4>4. c \in mine(s) <=> batch[e].slot = s
        BY <4>1
      <4> QED BY <4>2, <4>3, <4>4
    <3>2. CASE ~ \E e \in DOMAIN batch : loc[e] = c
      <4>1. r.cells[c] = kv.cells[c] /\ c \notin mine(s)
        BY <1>5, <1>7, <3>2
      <4> QED BY <4>1 DEF CellsOf
    <3> QED BY <3>1, <3>2
  <2>4. CellsOf(kv, s) \subseteq D /\ mine(s) \subseteq D /\ DOMAIN r.cells = D
    BY <1>3, <1>5, <1>7 DEF CellsOf
  <2> HIDE DEF mine
  <2>5. CellsOf(r, s) = CellsOf(kv, s) \cup mine(s)
    BY <2>3, <2>4 DEF CellsOf
  <2> QED BY <2>1, <2>2, <2>5
<1>10. PutAt(kv, r, batch, loc)
  <2>1. ASSUME NEW e \in DOMAIN batch PROVE loc[e] \in D /\ r.cells[loc[e]].pos = batch[e].pos
    <3>1. r.cells[loc[e]] = [pos |-> batch[e].pos, sequences |-> {batch[e].slot}]
      BY <1>5, <1>7
    <3> QED BY <1>3, <3>1
  <2>2. DOMAIN r.cells = D
    BY <1>5, <1>7
  <2> QED BY <1>7, <1>9, <2>1, <2>2 DEF PutAt
<1>11. Once(r)
  <2> SUFFICES ASSUME NEW s \in Slots, NEW c \in CellsOf(r, s), NEW d \in CellsOf(r, s),
                      r.cells[c].pos = r.cells[d].pos
               PROVE  c = d
    BY DEF Once
  <2>1. ASSUME NEW x \in CellsOf(kv, s), NEW e \in DOMAIN batch, batch[e].slot = s
        PROVE  r.cells[x].pos # r.cells[loc[e]].pos
    <3>1. kv.cells[x].pos < batch[e].pos /\ x \in D
      BY <2>1 DEF BatchFits, CellsOf
    <3>2. kv.cells[x].pos \in Int
      BY <1>1, <3>1, CellsAreNumbers
    <3>3. r.cells[x].pos = kv.cells[x].pos /\ r.cells[loc[e]].pos = batch[e].pos
      BY <1>10 DEF PutAt
    <3> QED BY <3>1, <3>2, <3>3
  <2>2. ASSUME NEW x \in CellsOf(kv, s), NEW y \in CellsOf(kv, s), r.cells[x].pos = r.cells[y].pos
        PROVE  x = y
    <3>1. kv.cells[x].pos = kv.cells[y].pos
      BY <1>10, <2>2 DEF PutAt
    <3> QED BY <1>1, <3>1 DEF Once
  <2>3. ASSUME NEW e \in DOMAIN batch, batch[e].slot = s, NEW f \in DOMAIN batch, batch[f].slot = s,
               r.cells[loc[e]].pos = r.cells[loc[f]].pos
        PROVE  e = f
    <3>1. batch[e].pos = batch[f].pos
      BY <1>10, <2>3 DEF PutAt
    <3> QED BY <2>3, <3>1 DEF BatchFits
  <2>4. c \in CellsOf(kv, s) \/ \E e \in DOMAIN batch : batch[e].slot = s /\ c = loc[e]
    BY <1>9
  <2>5. d \in CellsOf(kv, s) \/ \E e \in DOMAIN batch : batch[e].slot = s /\ d = loc[e]
    BY <1>9
  <2> QED BY <2>1, <2>2, <2>3, <2>4, <2>5
<1>12. ASSUME NEW s \in Slots PROVE RangeFits(r, s)
  <2> DEFINE n == CacheSize(kv.window)
  <2>1. n \in Nat /\ n > 0 /\ D = 0 .. n - 1 /\ n - 1 \in Nat
    BY <1>1, CellsAreNumbers
  <2>2. RangeFits(kv, s) /\ DOMAIN r.cells = D
    BY <1>1, <1>5, <1>7 DEF Ranges
  <2>3. mine(s) \subseteq D
    BY <1>3
  <2>4. CASE mine(s) = {}
    <3>1. r.cellRanges[s] = kv.cellRanges[s]
      BY <1>6, <1>7, <2>4 DEF Widened
    <3>2. CellsOf(r, s) \subseteq CellsOf(kv, s)
      BY <1>9, <2>4
    <3> QED BY <2>2, <3>1, <3>2, RangeStays
  <2>5. CASE mine(s) # {}
    <3> DEFINE range == kv.cellRanges[s]
               w     == Widened(range, mine(s))
               C     == mine(s)
    <3>1. PICK x \in C : TRUE
      BY <2>5
    <3>2. range = None \/ range \in [min : Nat, max : 0 .. n - 1]
      BY <2>1, <2>2 DEF RangeFits
    <3>3. C \in SUBSET (0 .. n - 1) /\ r.cellRanges[s] = w /\ CellsOf(r, s) = CellsOf(kv, s) \cup C
      BY <1>6, <1>7, <1>9, <2>1, <2>3
    <3> HIDE DEF C, range, n
    <3>4. /\ w \in [min : Nat, max : 0 .. n - 1] /\ w # None
          /\ \A c \in C : w.min <= c /\ c <= w.max
          /\ range # None => w.min <= range.min /\ range.max <= w.max
      <4>1. w = Widened(range, C)
        BY DEF C
      <4> HIDE DEF w
      <4> QED BY <2>1, <3>1, <3>2, <3>3, <4>1, RangeWidened
    <3> HIDE DEF w
    <3>5. ASSUME NEW c \in CellsOf(r, s) PROVE w.min <= c /\ c <= w.max
      <4>1. CASE c \in C
        BY <3>4, <4>1
      <4>2. CASE c \in CellsOf(kv, s)
        <5>1. c \in InRange(kv, s)
          BY <2>2, <4>2 DEF RangeFits
        <5>2. range # None /\ range.min <= c /\ c <= range.max /\ c \in Nat
          BY <2>1, <5>1 DEF InRange, range, CellsOf
        <5>3. range.min \in Nat /\ range.max \in Nat /\ w.min \in Nat /\ w.max \in Nat
          BY <2>1, <3>2, <3>4, <5>2
        <5> QED BY <3>4, <5>2, <5>3
      <4> QED BY <3>3, <4>1, <4>2
    <3>6. CellsOf(r, s) \subseteq InRange(r, s)
      BY <3>3, <3>4, <3>5 DEF InRange
    <3> QED BY <2>1, <2>2, <3>3, <3>4, <3>6 DEF RangeFits
  <2> QED BY <2>4, <2>5
<1> QED BY <1>8, <1>10, <1>11, <1>12 DEF KvOK, Ranges

\* The cells that an entry has to attend to.
Seen(kv, e) ==
    {c \in CellsOf(kv, e.slot) : kv.cells[c].pos <= e.pos /\ kv.cells[c].pos >= e.pos - kv.window}

\* f is what StartForward makes of kv, by way of k1.
Prepared(kv, k1, f, batch) ==
    /\ f.full = FALSE /\ KvOK(k1) /\ KvOK(f.kv)
    /\ Trimmed(kv, k1, batch) /\ PutAt(k1, f.kv, batch, f.loc)
    /\ DOMAIN f.mask = DOMAIN batch
    /\ \A e \in DOMAIN batch : f.mask[e] = Seen(f.kv, batch[e])

\* The window is a number.
LEMMA WindowNat ==
    ASSUME NEW window \in Windows
    PROVE  window \in Nat /\ window > 0 /\ window <= MaxInt
<1>1. Windows \subseteq 1 .. MaxInt
  BY RunnerConstants
<1>2. MaxInt \in Nat
  BY CacheConstants
<1> QED BY <1>1, <1>2

\* What the batch reads of a sequence is in the range it computes.
LEMMA WindowHas ==
    ASSUME NEW kv, KvOK(kv), NEW batch, BatchFits(kv, batch), NEW e \in DOMAIN batch,
           NEW c \in CellsOf(kv, batch[e].slot), kv.cells[c].pos >= batch[e].pos - kv.window
    PROVE  \E x, y \in WindowCells(kv, batch) : x <= c /\ c <= y
<1> DEFINE s   == batch[e].slot
           S   == {batch[i].slot : i \in DOMAIN batch}
           low == LowestPos(kv, batch, s)
           W(t) == IF kv.memory = MaxInt
                   THEN IF kv.cellRanges[t] \in {None, newRange} THEN {}
                        ELSE {kv.cellRanges[t].min, kv.cellRanges[t].max} \cap DOMAIN kv.cells
                   ELSE {d \in InRange(kv, t) : kv.cells[d].pos >= LowestPos(kv, batch, t) - kv.window}
<1>1. KvShape(kv) /\ Ranges(kv) /\ s \in Slots /\ s \in S
  BY DEF KvOK, BatchFits
<1>2. WindowCells(kv, batch) = UNION {W(t) : t \in S}
  BY DEF WindowCells
<1>3. W(s) \subseteq WindowCells(kv, batch)
  <2> HIDE DEF W, S, s
  <2> QED BY <1>1, <1>2
<1>4. c \in DOMAIN kv.cells /\ c \in Nat /\ c \in InRange(kv, s)
      /\ DOMAIN kv.cells = 0 .. CacheSize(kv.window) - 1 /\ CacheSize(kv.window) \in Nat
  BY <1>1, CellsAreNumbers DEF CellsOf, Ranges, RangeFits
<1>5. CASE kv.memory = MaxInt
  <2> DEFINE range == kv.cellRanges[s]
  <2>1. range # None /\ range.min <= c /\ c <= range.max
    BY <1>4 DEF InRange
  <2>e. range # newRange
    BY <1>4, <2>1, CacheConstants DEF newRange
  <2>2. range.min \in Nat /\ range.max \in DOMAIN kv.cells
    BY <1>1, <2>1 DEF Ranges, RangeFits
  <2>3. range.min \in DOMAIN kv.cells
    BY <1>4, <2>1, <2>2
  <2>4. range.min \in W(s) /\ range.max \in W(s)
    BY <1>5, <2>1, <2>2, <2>3, <2>e
  <2> HIDE DEF W, range
  <2> QED BY <1>3, <2>1, <2>4
<1>6. CASE kv.memory # MaxInt
  <2>1. low \in Nat /\ low <= batch[e].pos
    BY <1>1, LowestIs
  <2>2. kv.cells[c].pos \in Nat /\ batch[e].pos \in Nat /\ kv.window \in Nat
    <3>1. kv.window \in Windows /\ MaxInt \in Nat
      BY <1>1, CacheConstants DEF KvShape
    <3>2. kv.window \in Nat
      BY <3>1, WindowNat
    <3>3. kv.cells[c].pos \in Nat
      BY <1>1, <1>4, CellsAreNumbers
    <3>4. batch[e].pos \in 0 .. NumCtx - 1
      BY DEF BatchFits
    <3>5. batch[e].pos \in Nat
      BY <3>4, CacheConstants
    <3> QED BY <3>2, <3>3, <3>5
  <2> HIDE DEF low
  <2>3. kv.cells[c].pos >= low - kv.window
    BY <2>1, <2>2
  <2>4. c \in W(s)
    BY <1>4, <1>6, <2>3 DEF low
  <2>5. c <= c
    BY <1>4
  <2> QED BY <1>3, <2>4, <2>5
<1> QED BY <1>5, <1>6

\* The cells that the range is computed from are cells.
LEMMA WindowIsCells ==
    ASSUME NEW kv, NEW batch
    PROVE  WindowCells(kv, batch) \subseteq DOMAIN kv.cells
<1> DEFINE S   == {batch[i].slot : i \in DOMAIN batch}
           W(t) == IF kv.memory = MaxInt
                   THEN IF kv.cellRanges[t] \in {None, newRange} THEN {}
                        ELSE {kv.cellRanges[t].min, kv.cellRanges[t].max} \cap DOMAIN kv.cells
                   ELSE {d \in InRange(kv, t) : kv.cells[d].pos >= LowestPos(kv, batch, t) - kv.window}
<1>1. WindowCells(kv, batch) = UNION {W(t) : t \in S}
  BY DEF WindowCells
<1>2. ASSUME NEW t PROVE InRange(kv, t) \subseteq DOMAIN kv.cells
  BY DEF InRange, CellsOf
<1>3. \A t \in S : W(t) \subseteq DOMAIN kv.cells
  BY <1>2
<1> HIDE DEF W, S
<1> QED BY <1>1, <1>3

\* buildMask: the padded range cuts nothing off.
LEMMA MaskIs ==
    ASSUME NEW kv, KvShape(kv), NEW e, NEW C, C \subseteq DOMAIN kv.cells, NEW x \in C,
           \A c \in Seen(kv, e) : \E a, b \in C : a <= c /\ c <= b
    PROVE  Mask(kv, RangeOf(C), e) = Seen(kv, e)
<1> DEFINE n  == CacheSize(kv.window)
           lo == RangeOf(C).min
           hi == RangeOf(C).max
           A  == roundDown(lo)
           B  == roundUp(hi + 1)
<1>1. n \in Nat /\ n > 0 /\ DOMAIN kv.cells = 0 .. n - 1 /\ n - 1 \in Nat /\ kv.window \in Windows
  <2>1. n \in Nat /\ n > 0 /\ DOMAIN kv.cells = 0 .. n - 1
    BY CellsAreNumbers
  <2>2. kv.window \in Windows
    BY DEF KvShape
  <2> HIDE DEF n
  <2> QED BY <2>1, <2>2
<1>2. C \in SUBSET (0 .. n - 1)
  BY <1>1
<1> HIDE DEF n
<1>3. lo \in C /\ hi \in C /\ \A c \in C : lo <= c /\ c <= hi
  <2>1. RangeOf(C) \in [min : C, max : C] /\ \A c \in C : RangeOf(C).min <= c /\ c <= RangeOf(C).max
    BY <1>1, <1>2, RangeOfCells
  <2> QED BY <2>1
<1>4. lo \in 0 .. n - 1 /\ hi \in 0 .. n - 1 /\ lo \in Nat /\ hi \in Nat
  BY <1>1, <1>2, <1>3
<1>5. A \in Nat /\ A <= lo /\ B \in Nat /\ B > hi /\ B <= n
  <2> HIDE DEF lo, hi
  <2> QED BY <1>1, <1>4, Rounding DEF n
<1> HIDE DEF lo, hi
<1>6. Mask(kv, RangeOf(C), e) = {c \in A .. B - 1 : /\ e.slot \in kv.cells[c].sequences
                                                    /\ kv.cells[c].pos <= e.pos
                                                    /\ kv.cells[c].pos >= e.pos - kv.window}
  BY DEF Mask, lo, hi
<1> HIDE DEF A, B
<1>7. \A c \in A .. B - 1 : c \in DOMAIN kv.cells
  BY <1>1, <1>5
<1>8. ASSUME NEW c \in Seen(kv, e) PROVE c \in A .. B - 1
  <2>1. PICK a \in C, b \in C : a <= c /\ c <= b
    OBVIOUS
  <2>2. lo <= a /\ b <= hi /\ a \in Nat /\ b \in Nat
    BY <1>1, <1>2, <1>3
  <2>3. c \in Nat
    BY <1>1 DEF Seen, CellsOf
  <2> QED BY <1>4, <1>5, <2>1, <2>2, <2>3
<1> QED BY <1>6, <1>7, <1>8 DEF Seen, CellsOf

\* StartForward.
LEMMA StartForwardKeeps ==
    ASSUME NEW kv, KvOK(kv), NEW batch, BatchFits(kv, batch), NEW f, f = StartForward(kv, batch)
    PROVE  \E k1 : Prepared(kv, k1, f, batch)
<1> DEFINE k1  == updateSlidingWindow(kv, batch)
           loc == [i \in DOMAIN batch |-> findLoc(k1, i)]
           k2  == PutCells(k1, batch, loc)
           W   == WindowCells(kv, batch)
           L   == {loc[i] : i \in DOMAIN loc}
<1>1. KvOK(k1) /\ Trimmed(kv, k1, batch)
  BY WindowMoves
<1>2. IsFiniteSet(Free(k1)) /\ Cardinality(Free(k1)) >= Len(batch)
  BY RoomForBatch
<1>3. KvShape(k1) /\ Len(batch) \in Nat /\ DOMAIN batch = 1 .. Len(batch) /\ KvShape(kv) /\ 1 \in DOMAIN batch
  BY <1>1 DEF KvOK, BatchFits, IsSeq
<1>4. f = Placed(k1, batch, W)
  BY DEF StartForward
<1> HIDE DEF k1
<1>5. f = Located(k1, batch, loc, W)
  BY <1>2, <1>4 DEF Placed, HasLocs
<1>6. /\ \A i \in 1 .. Len(batch) : findLoc(k1, i) \in Free(k1)
      /\ \A i, j \in 1 .. Len(batch) : findLoc(k1, i) = findLoc(k1, j) => i = j
  BY <1>2, <1>3, LocsFound
<1>7. /\ DOMAIN loc = DOMAIN batch /\ \A e \in DOMAIN batch : loc[e] \in Free(k1)
      /\ \A d, e \in DOMAIN batch : loc[d] = loc[e] => d = e
  BY <1>3, <1>6
<1>8. BatchFits(k1, batch)
  <2>1. ASSUME NEW e \in DOMAIN batch, NEW c \in CellsOf(k1, batch[e].slot)
        PROVE  k1.cells[c].pos < batch[e].pos
    <3>1. batch[e].slot \in Slots
      BY DEF BatchFits
    <3>2. c \in CellsOf(kv, batch[e].slot) /\ k1.cells[c].pos = kv.cells[c].pos
      BY <1>1, <3>1 DEF Trimmed, CellsOf
    <3> QED BY <3>2 DEF BatchFits
  <2> QED BY <2>1 DEF BatchFits
<1> HIDE DEF loc
<1>9. KvOK(k2) /\ PutAt(k1, k2, batch, loc)
  BY <1>1, <1>7, <1>8, PutKeeps
<1>10. f = Masked(k2, batch, loc, RangeOf(W \cup L))
  BY <1>5 DEF Located
<1> HIDE DEF k2, W
<1>11. /\ f.full = FALSE /\ f.kv = k2 /\ f.loc = loc /\ DOMAIN f.mask = DOMAIN batch
       /\ \A e \in DOMAIN batch : f.mask[e] = Mask(k2, RangeOf(W \cup L), batch[e])
  <2> HIDE DEF L
  <2> QED BY <1>10 DEF Masked
<1>12. L \subseteq DOMAIN k2.cells /\ W \subseteq DOMAIN k2.cells /\ loc[1] \in L
  <2>1. DOMAIN k2.cells = DOMAIN kv.cells
    BY <1>1, <1>9 DEF Trimmed, PutAt
  <2>2. W \subseteq DOMAIN kv.cells
    BY WindowIsCells DEF W
  <2>3. \A e \in DOMAIN batch : loc[e] \in DOMAIN k1.cells
    BY <1>9 DEF PutAt
  <2>4. DOMAIN k1.cells = DOMAIN kv.cells
    BY <1>1 DEF Trimmed
  <2> QED BY <1>3, <1>7, <2>1, <2>2, <2>3, <2>4
<1>13. ASSUME NEW e \in DOMAIN batch, NEW c \in Seen(k2, batch[e])
       PROVE  \E a, b \in W \cup L : a <= c /\ c <= b
  <2> DEFINE s == batch[e].slot
  <2>1. s \in Slots
    BY DEF BatchFits
  <2>2. c \in CellsOf(k2, s) /\ k2.cells[c].pos >= batch[e].pos - k2.window
    BY DEF Seen
  <2>3. k2.window = kv.window /\ DOMAIN k2.cells = DOMAIN kv.cells
    BY <1>1, <1>9 DEF Trimmed, PutAt
  <2>4. c \in Nat
    BY <1>3, <2>2, <2>3, CellsAreNumbers DEF CellsOf
  <2>5. CASE c \in CellsOf(k1, s)
    <3>1. c \in CellsOf(kv, s) /\ k2.cells[c].pos = kv.cells[c].pos
      BY <1>1, <1>9, <2>1, <2>5 DEF Trimmed, PutAt, CellsOf
    <3>2. kv.cells[c].pos >= batch[e].pos - kv.window
      BY <2>2, <2>3, <3>1
    <3>3. \E x, y \in W : x <= c /\ c <= y
      BY <3>1, <3>2, WindowHas DEF W
    <3> QED BY <3>3
  <2>6. CASE c \notin CellsOf(k1, s)
    <3>1. CellsOf(k2, s) = CellsOf(k1, s) \cup {loc[j] : j \in {i \in DOMAIN batch : batch[i].slot = s}}
      BY <1>9, <2>1 DEF PutAt
    <3>2. c \in L
      BY <1>7, <2>2, <2>6, <3>1
    <3>3. c <= c
      BY <2>4
    <3> QED BY <3>2, <3>3
  <2> QED BY <2>5, <2>6
<1>14. ASSUME NEW e \in DOMAIN batch PROVE f.mask[e] = Seen(k2, batch[e])
  <2> DEFINE C == W \cup L
  <2>1. C \subseteq DOMAIN k2.cells /\ loc[1] \in C
    BY <1>12
  <2>2. \A c \in Seen(k2, batch[e]) : \E a, b \in C : a <= c /\ c <= b
    BY <1>13
  <2>3. f.mask[e] = Mask(k2, RangeOf(C), batch[e])
    BY <1>11
  <2>4. KvShape(k2)
    BY <1>9 DEF KvOK
  <2> HIDE DEF C
  <2> QED BY <2>1, <2>2, <2>3, <2>4, MaskIs
<1> QED BY <1>1, <1>9, <1>11, <1>14 DEF Prepared

-----------------------------------------------------------------------------
(* Inputs *)

\* A part of a sequence of inputs.
LEMMA PartTyped ==
    ASSUME NEW S, NEW s \in Seq(S), NEW m \in Nat, m >= 1, NEW n \in Nat, n <= Len(s)
    PROVE  /\ SubSeq(s, m, n) \in Seq(S)
           /\ Len(SubSeq(s, m, n)) = IF m <= n THEN n - m + 1 ELSE 0
           /\ \A j \in 1 .. Len(SubSeq(s, m, n)) : SubSeq(s, m, n)[j] = s[m + j - 1]
OBVIOUS

\* Two sequences of inputs, one after the other.
LEMMA JoinTyped ==
    ASSUME NEW S, NEW s \in Seq(S), NEW t \in Seq(S)
    PROVE  /\ s \o t \in Seq(S) /\ Len(s \o t) = Len(s) + Len(t)
           /\ \A j \in 1 .. Len(s) : (s \o t)[j] = s[j]
           /\ \A j \in 1 .. Len(t) : (s \o t)[Len(s) + j] = t[j]
OBVIOUS

\* An input with a token is an input.
LEMMA InputTyped ==
    ASSUME NEW t \in Nat
    PROVE  Input(t) \in InputType
BY DEF Input, InputType

\* A placeholder is one.
LEMMA PlaceholderTyped ==
    ASSUME NEW q \in Requests, NEW n \in Nat
    PROVE  Placeholder(q, n) \in InputType
BY DEF Placeholder, InputType

\* A token that becomes known leaves inputs.
LEMMA FilledTyped ==
    ASSUME NEW s \in Seq(InputType), NEW p, NEW t \in Nat
    PROVE  /\ Filled(s, p, t) \in Seq(InputType) /\ Len(Filled(s, p, t)) = Len(s)
           /\ \A j \in 1 .. Len(s) : Filled(s, p, t)[j] = IF s[j] = p THEN Input(t) ELSE s[j]
<1>1. DOMAIN s = 1 .. Len(s) /\ Len(s) \in Nat
  OBVIOUS
<1>2. \A j \in 1 .. Len(s) : (IF s[j] = p THEN Input(t) ELSE s[j]) \in InputType
  BY <1>1, InputTyped
<1>3. Filled(s, p, t) = [j \in 1 .. Len(s) |-> IF s[j] = p THEN Input(t) ELSE s[j]]
  BY <1>1 DEF Filled
<1> QED BY <1>1, <1>2, <1>3

-----------------------------------------------------------------------------
(* ShiftCacheSlot *)

\* The greater of two numbers.
LEMMA MaxOfTwo ==
    ASSUME NEW a \in Int, NEW b \in Int
    PROVE  Max({a, b}) = IF a >= b THEN a ELSE b
<1> DEFINE m == IF a >= b THEN a ELSE b
<1>1. m \in {a, b} /\ \A y \in {a, b} : m >= y
  OBVIOUS
<1>2. \A x \in {a, b} : (\A y \in {a, b} : x >= y) => x = m
  OBVIOUS
<1> HIDE DEF m
<1>3. Max({a, b}) = m
  BY <1>1, <1>2 DEF Max
<1> QED BY <1>3 DEF m

\* The lesser of two numbers.
LEMMA LessOfTwo ==
    ASSUME NEW a \in Int, NEW b \in Int
    PROVE  Min({a, b}) = IF a <= b THEN a ELSE b
<1> DEFINE m == IF a <= b THEN a ELSE b
<1>1. m \in {a, b} /\ \A y \in {a, b} : m <= y
  OBVIOUS
<1>2. \A x \in {a, b} : (\A y \in {a, b} : x <= y) => x = m
  OBVIOUS
<1> HIDE DEF m
<1>3. Min({a, b}) = m
  BY <1>1, <1>2 DEF Min
<1> QED BY <1>3 DEF m

\* ShiftDiscard, when the context is full: at least one input goes, and none of
\* those that are to be kept.
LEMMA DiscardSome ==
    ASSUME NEW x, Len(x) = NumCtx, NEW keep \in 0 .. NumCtx - 1,
           NEW d, d = ShiftDiscard(x, keep)
    PROVE  d \in 1 .. NumCtx - keep
<1> DEFINE target == Max({(NumCtx - keep) \div 2, 1})
           most   == Max({NumCtx - keep, 0})
           wanted == Max({target - (NumCtx - NumCtx), 0})
<1>1. NumCtx \in Nat /\ NumCtx > 0 /\ keep \in Nat /\ NumCtx - keep \in Nat /\ NumCtx - keep >= 1
  BY CacheConstants
<1>2. (NumCtx - keep) \div 2 \in Int
  BY <1>1
<1>3. target \in Int /\ target >= 1
  BY <1>2, MaxOfTwo
<1>4. most = NumCtx - keep
  BY <1>1, MaxOfTwo
<1>5. d = Min({most, wanted})
  BY DEF ShiftDiscard
<1> HIDE DEF target
<1>6. wanted \in Int /\ wanted >= 1
  <2>1. target - (NumCtx - NumCtx) \in Int /\ target - (NumCtx - NumCtx) >= 1
    BY <1>1, <1>3
  <2> QED BY <2>1, MaxOfTwo
<1> HIDE DEF most, wanted
<1>7. d = IF most <= wanted THEN most ELSE wanted
  <2>1. most \in Int
    BY <1>1, <1>4
  <2> QED BY <1>5, <1>6, <2>1, LessOfTwo
<1> QED BY <1>1, <1>4, <1>6, <1>7

\* What is left of the inputs of a slot.
Cut(x, keep, d) == SubSeq(x, 1, keep) \o SubSeq(x, keep + d + 1, Len(x))

LeftOf(c, got, s, keep, d) ==
    /\ got.ok \in BOOLEAN /\ d = ShiftDiscard(c.slots[s].inputs, keep)
    /\ KvOK(got.ic.kv) /\ OnlyFor(c.kv, got.ic.kv, s)
    /\ \A t \in Slots \ {s} : got.ic.slots[t] = c.slots[t]
    /\ got.ok => /\ ShiftedBy(c.kv, got.ic.kv, s, keep, keep + d)
                 /\ got.ic.slots[s].inputs = Cut(c.slots[s].inputs, keep, d)
                 /\ CanShift \/ CellsOf(got.ic.kv, s) = {}
    /\ ~got.ok => /\ CellsOf(got.ic.kv, s) = {} /\ got.ic.slots[s].inputs = <<>>
                  /\ got.reprocess = Cut(c.slots[s].inputs, keep, d)

\* ShiftCacheSlot on a slot that is full.
LEMMA ShiftLeaves ==
    ASSUME NEW c, CacheShape(c), KvOK(c.kv), NEW s \in Slots, NEW keep \in 0 .. NumCtx - 1,
           Len(c.slots[s].inputs) = NumCtx, NEW got, got = ShiftCacheSlot(c, s, keep)
    PROVE  \E d \in 1 .. NumCtx - keep : LeftOf(c, got, s, keep, d)
<1> DEFINE d       == ShiftDiscard(c.slots[s].inputs, keep)
           removed == Remove(c.kv, s, keep, keep + d)
           kept    == Cut(c.slots[s].inputs, keep, d)
<1>1. d \in 1 .. NumCtx - keep
  BY DiscardSome
<1>2. got = ShiftBy(c, s, keep, d)
  BY DEF ShiftCacheSlot
<1> HIDE DEF d
<1>3. NumCtx \in Nat /\ keep \in Nat /\ d # 0 /\ keep + d \in Nat /\ keep < keep + d /\ keep + d <= NumCtx
  BY <1>1, CacheConstants
<1>4. got = Shift(c, s, removed, kept)
  BY <1>2, <1>3 DEF ShiftBy, Cut
<1>5. KvShape(c.kv) /\ Ranges(c.kv) /\ Once(c.kv)
  BY DEF KvOK
<1> HIDE DEF kept
<1>6. /\ KvShape(removed.kv) /\ Ranges(removed.kv) /\ removed.ok \in BOOLEAN
      /\ removed.ok => /\ ShiftedBy(c.kv, removed.kv, s, keep, keep + d)
                       /\ CanShift \/ CellsOf(removed.kv, s) = {}
      /\ ~removed.ok => Loosened(c.kv, removed.kv, s)
  BY <1>3, <1>5, RemoveMiddle
<1> HIDE DEF removed
<1>7. DOMAIN c = {"kv", "slots", "used", "multi"} /\ DOMAIN c.slots = Slots
      /\ \A t \in Slots : DOMAIN c.slots[t] = {"inputs", "inUse"}
  BY DEF CacheShape, SlotShape
<1>8. CASE removed.ok
  <2>1. got = [ok |-> TRUE, reprocess |-> <<>>,
               ic |-> [c EXCEPT !.kv = removed.kv, !.slots[s].inputs = kept]]
    BY <1>4, <1>8 DEF Shift
  <2>2. /\ got.ok = TRUE /\ got.ic.kv = removed.kv /\ got.ic.slots[s].inputs = kept
        /\ \A t \in Slots \ {s} : got.ic.slots[t] = c.slots[t]
    <3>1. got.ok = TRUE /\ got.ic = [c EXCEPT !.kv = removed.kv, !.slots[s].inputs = kept]
      BY <2>1
    <3> QED BY <1>7, <3>1
  <2>3. OnlyFor(c.kv, removed.kv, s) /\ Once(removed.kv)
    BY <1>3, <1>5, <1>6, <1>8, ShiftedOnly
  <2>4. LeftOf(c, got, s, keep, d)
    BY <1>6, <1>8, <2>2, <2>3 DEF LeftOf, KvOK, kept, d
  <2> QED BY <1>1, <2>4
<1>9. CASE ~removed.ok
  <2> DEFINE k2 == Remove(removed.kv, s, 0, MaxInt).kv
  <2>1. got = [ok |-> FALSE, reprocess |-> kept,
               ic |-> [c EXCEPT !.kv = k2, !.slots[s].inputs = <<>>]]
    BY <1>4, <1>9 DEF Shift
  <2>2. KvShape(k2) /\ Dropped(removed.kv, k2, s, 0) /\ Ranges(k2)
    BY <1>6, RemoveTail
  <2> HIDE DEF k2
  <2>3. /\ got.ok = FALSE /\ got.reprocess = kept /\ got.ic.kv = k2 /\ got.ic.slots[s].inputs = <<>>
        /\ \A t \in Slots \ {s} : got.ic.slots[t] = c.slots[t]
    <3>1. got.ok = FALSE /\ got.reprocess = kept /\ got.ic = [c EXCEPT !.kv = k2, !.slots[s].inputs = <<>>]
      BY <2>1
    <3> QED BY <1>7, <3>1
  <2>4. OnlyFor(c.kv, k2, s) /\ Once(k2) /\ CellsOf(k2, s) = {}
    BY <1>5, <1>6, <1>9, <2>2, LoosenedOnly
  <2>5. LeftOf(c, got, s, keep, d)
    BY <2>2, <2>3, <2>4 DEF LeftOf, KvOK, kept, d
  <2> QED BY <1>1, <2>5
<1> QED BY <1>6, <1>8, <1>9

\* The inputs that are left, one by one.
LEMMA CutTyped ==
    ASSUME NEW x \in Seq(InputType), Len(x) = NumCtx, NEW keep \in 0 .. NumCtx - 1,
           NEW d \in 1 .. NumCtx - keep, NEW y, y = Cut(x, keep, d)
    PROVE  /\ y \in Seq(InputType) /\ Len(y) = NumCtx - d
           /\ \A j \in 1 .. keep : y[j] = x[j]
           /\ \A j \in keep + 1 .. NumCtx - d : y[j] = x[j + d]
<1> DEFINE a == SubSeq(x, 1, keep)
           b == SubSeq(x, keep + d + 1, Len(x))
<1>1. NumCtx \in Nat /\ keep \in Nat /\ d \in Nat /\ keep + d <= NumCtx /\ d >= 1
  BY CacheConstants
<1>2. a \in Seq(InputType) /\ Len(a) = keep /\ \A j \in 1 .. keep : a[j] = x[j]
  <2>1. keep <= Len(x) /\ 1 \in Nat /\ 1 >= 1 /\ keep \in Nat
    BY <1>1
  <2>2. /\ a \in Seq(InputType) /\ Len(a) = IF 1 <= keep THEN keep - 1 + 1 ELSE 0
        /\ \A j \in 1 .. Len(a) : a[j] = x[1 + j - 1]
    BY <2>1, PartTyped
  <2> HIDE DEF a
  <2>3. Len(a) = keep
    BY <2>1, <2>2
  <2>4. \A j \in 1 .. keep : 1 + j - 1 = j
    BY <2>1
  <2> QED BY <2>2, <2>3, <2>4
<1>3. b \in Seq(InputType) /\ Len(b) = NumCtx - keep - d /\ \A j \in 1 .. Len(b) : b[j] = x[keep + d + j]
  <2>1. keep + d + 1 \in Nat /\ keep + d + 1 >= 1 /\ NumCtx \in Nat /\ NumCtx <= Len(x)
    BY <1>1
  <2>2. /\ b \in Seq(InputType)
        /\ Len(b) = IF keep + d + 1 <= NumCtx THEN NumCtx - (keep + d + 1) + 1 ELSE 0
        /\ \A j \in 1 .. Len(b) : b[j] = x[keep + d + 1 + j - 1]
    BY <2>1, PartTyped
  <2> HIDE DEF b
  <2>3. Len(b) = NumCtx - keep - d
    BY <1>1, <2>2
  <2>4. \A j \in 1 .. Len(b) : keep + d + 1 + j - 1 = keep + d + j
    BY <1>1, <2>3
  <2> QED BY <2>2, <2>3, <2>4
<1>4. y = a \o b
  BY DEF Cut
<1> HIDE DEF a, b
<1>5. /\ y \in Seq(InputType) /\ Len(y) = Len(a) + Len(b)
      /\ \A j \in 1 .. Len(a) : y[j] = a[j]
      /\ \A j \in 1 .. Len(b) : y[Len(a) + j] = b[j]
  <2>1. /\ a \o b \in Seq(InputType) /\ Len(a \o b) = Len(a) + Len(b)
        /\ \A j \in 1 .. Len(a) : (a \o b)[j] = a[j]
        /\ \A j \in 1 .. Len(b) : (a \o b)[Len(a) + j] = b[j]
    <3>1. a \in Seq(InputType) /\ b \in Seq(InputType)
      BY <1>2, <1>3
    <3> QED BY <3>1, JoinTyped
  <2> QED BY <1>4, <2>1
<1>6. Len(y) = NumCtx - d
  BY <1>1, <1>2, <1>3, <1>5
<1>7. ASSUME NEW j \in keep + 1 .. NumCtx - d PROVE y[j] = x[j + d]
  <2>1. j - keep \in 1 .. Len(b) /\ Len(a) + (j - keep) = j /\ keep + d + (j - keep) = j + d
    BY <1>1, <1>2, <1>3
  <2>2. y[Len(a) + (j - keep)] = b[j - keep] /\ b[j - keep] = x[keep + d + (j - keep)]
    BY <1>3, <1>5, <2>1
  <2> QED BY <2>1, <2>2
<1> QED BY <1>2, <1>5, <1>6, <1>7

\* The cells of a sequence are at positions below n.
Below(kv, s, n) == \A c \in CellsOf(kv, s) : kv.cells[c].pos < n

\* What another sequence has is below what it was.
LEMMA SameBelow ==
    ASSUME NEW kv, NEW r, NEW t, SameFor(kv, r, t), NEW n, Below(kv, t, n)
    PROVE  Below(r, t, n)
BY DEF SameFor, Below

\* After ShiftCacheSlot the slot records as many inputs as there may be cells,
\* and fewer than the context has room for.
LEMMA ShiftFits ==
    ASSUME NEW c, KvOK(c.kv), NEW s \in Slots, NEW keep \in 0 .. NumCtx - 1,
           c.slots[s].inputs \in Seq(InputType), Len(c.slots[s].inputs) = NumCtx,
           NEW d \in 1 .. NumCtx - keep, NEW got, LeftOf(c, got, s, keep, d)
    PROVE  /\ got.ic.slots[s].inputs \in Seq(InputType) /\ Len(got.ic.slots[s].inputs) < NumCtx
           /\ Below(got.ic.kv, s, Len(got.ic.slots[s].inputs))
           /\ ~got.ok => got.reprocess \in Seq(InputType)
<1> DEFINE x == c.slots[s].inputs
           y == Cut(x, keep, d)
<1>1. NumCtx \in Nat /\ keep \in Nat /\ d \in Nat /\ keep + d <= NumCtx /\ d >= 1 /\ keep + d \in Nat
      /\ NumCtx > 0 /\ keep < keep + d
  BY CacheConstants
<1>2. y \in Seq(InputType) /\ Len(y) = NumCtx - d
  BY CutTyped
<1> HIDE DEF y
<1>3. CASE got.ok
  <2>1. got.ic.slots[s].inputs = y /\ ShiftedBy(c.kv, got.ic.kv, s, keep, keep + d)
    BY <1>3 DEF LeftOf, y
  <2>2. KvShape(c.kv)
    BY DEF KvOK
  <2>3. /\ CellsOf(got.ic.kv, s) = {e \in CellsOf(c.kv, s) : c.kv.cells[e].pos < keep \/ c.kv.cells[e].pos >= keep + d}
        /\ \A e \in CellsOf(got.ic.kv, s) : got.ic.kv.cells[e].pos = IF c.kv.cells[e].pos < keep THEN c.kv.cells[e].pos
                                                        ELSE c.kv.cells[e].pos + keep - (keep + d)
    BY <1>1, <2>1, <2>2, ShiftedOnly
  <2>4. ASSUME NEW e \in CellsOf(got.ic.kv, s) PROVE got.ic.kv.cells[e].pos < NumCtx - d
    <3>1. e \in CellsOf(c.kv, s) /\ e \in DOMAIN c.kv.cells
      BY <2>3 DEF CellsOf
    <3>2. c.kv.cells[e].pos \in Nat /\ c.kv.cells[e].pos < NumCtx
      BY <2>2, <3>1, CellsAreNumbers
    <3> QED BY <1>1, <2>3, <3>2
  <2>5. Len(y) < NumCtx
    BY <1>1, <1>2
  <2> QED BY <1>2, <1>3, <2>1, <2>4, <2>5 DEF Below
<1>4. CASE ~got.ok
  <2>1. got.ic.slots[s].inputs = <<>> /\ CellsOf(got.ic.kv, s) = {} /\ got.reprocess = y
    BY <1>4 DEF LeftOf, y
  <2> QED BY <1>1, <1>2, <2>1 DEF Below
<1> QED BY <1>3, <1>4

-----------------------------------------------------------------------------
(* The loop of forwardBatch and the cache *)

ReqTypes(rq) ==
    \A q \in Requests :
        /\ rq[q].pc \in {"new", "acquire", "load", "stream", "done"}
        /\ rq[q].inputs \in Seq(InputType) /\ rq[q].pending \in Seq(InputType)
        /\ rq[q].slot \in Slots \cup {None}
        /\ rq[q].keep \in 0 .. NumCtx - 1
        /\ rq[q].reason \in {None, "error", "gone", "length", "stop"}

SlotTypes(c) ==
    \A s \in Slots : c.slots[s].inputs \in Seq(InputType) /\ Len(c.slots[s].inputs) <= NumCtx

\* r is the request rq after other inputs were given to it.
SameBut(rq, r) ==
    /\ r.pc = rq.pc /\ r.slot = rq.slot /\ r.keep = rq.keep /\ r.reason = rq.reason
    /\ r.shift = rq.shift

\* v is w after the first n inputs of q were taken into the batch.
Took(w, v, q, n) ==
    /\ v.ic = w.ic /\ v.seqs = w.seqs /\ v.snapshot = w.snapshot
    /\ Len(v.entries) = Len(w.entries) + n
    /\ DOMAIN v.entries = 1 .. Len(v.entries)
    /\ \A e \in DOMAIN w.entries : e \in DOMAIN v.entries /\ v.entries[e] = w.entries[e]
    /\ \A j \in 1 .. n : v.entries[Len(w.entries) + j] =
           [slot |-> w.req[q].slot, pos |-> Cached(w, q) + j - 1, input |-> w.req[q].inputs[j], q |-> q]
    /\ \A e \in DOMAIN v.entries : e \in DOMAIN w.entries \/ \E j \in 1 .. n : e = Len(w.entries) + j
    /\ SameBut(w.req[q], v.req[q])
    /\ v.req[q].pending = SubSeq(w.req[q].inputs, 1, n)
    /\ v.req[q].inputs = SubSeq(w.req[q].inputs, n + 1, Len(w.req[q].inputs))
    /\ \A x \in Requests \ {q} : v.req[x] = w.req[x]

\* That is what Take does.
LEMMA TakeDoes ==
    ASSUME NEW w, VisitInv(w), NEW q \in Requests, NEW n \in Nat,
           NEW v, v = Take(w, q, Cached(w, q), n)
    PROVE  Took(w, v, q, n)
<1> DEFINE all  == w.req[q].inputs
           past == Cached(w, q)
           more == [j \in 1 .. n |-> [slot |-> w.req[q].slot, pos |-> past + j - 1,
                                      input |-> w.req[q].inputs[j], q |-> q]]
           out  == IF n = Len(all) THEN Append(w.outputs, Len(w.entries) + n) ELSE w.outputs
           iB   == Len(w.outputs) + 1
           took == SubSeq(all, 1, n)
           left == SubSeq(all, n + 1, Len(all))
<1>1. DOMAIN w = {"req", "seqs", "sem", "ic", "snapshot", "entries", "outputs", "resume"}
      /\ DOMAIN w.req = Requests
      /\ DOMAIN w.req[q] = {"pc", "inputs", "pending", "slot", "iBatch", "predicted", "held",
                            "quit", "limit", "keep", "shift", "reason"}
  BY DEF VisitInv, Acc, ReqShape
<1>2. /\ v.entries = w.entries \o more /\ v.ic = w.ic
      /\ v.snapshot = w.snapshot /\ v.seqs = w.seqs
      /\ v.req = [w.req EXCEPT ![q].iBatch = iB, ![q].pending = took, ![q].inputs = left]
  <2>1. v = [w EXCEPT !.entries = @ \o more, !.outputs = out,
                      !.req[q].iBatch = iB, !.req[q].pending = took, !.req[q].inputs = left]
    BY <1>1 DEF Take
  <2> HIDE DEF more, out, iB, took, left
  <2> QED BY <1>1, <2>1
<1>3. /\ v.req[q].pending = took /\ v.req[q].inputs = left /\ SameBut(w.req[q], v.req[q])
      /\ \A x \in Requests \ {q} : v.req[x] = w.req[x]
  <2> HIDE DEF iB, took, left
  <2> QED BY <1>1, <1>2 DEF SameBut
<1>4. IsSeq(w.entries) /\ Len(w.entries) \in Nat /\ DOMAIN w.entries = 1 .. Len(w.entries)
  BY DEF VisitInv, IsSeq
<1>5. /\ IsSeq(more) /\ Len(more) = n
      /\ \A j \in 1 .. n : more[j] = [slot |-> w.req[q].slot, pos |-> past + j - 1,
                                      input |-> w.req[q].inputs[j], q |-> q]
  <2>1. \A j \in 1 .. n : more[j] = [slot |-> w.req[q].slot, pos |-> past + j - 1,
                                      input |-> w.req[q].inputs[j], q |-> q]
    OBVIOUS
  <2>2. DOMAIN more = 1 .. n
    OBVIOUS
  <2> HIDE DEF more
  <2> QED BY <2>1, <2>2, FunIsSeq
<1> HIDE DEF more, out, iB, took, left
<1>6. /\ IsSeq(v.entries) /\ Len(v.entries) = Len(w.entries) + n
      /\ \A e \in 1 .. Len(w.entries) : v.entries[e] = w.entries[e]
      /\ \A j \in 1 .. n : v.entries[Len(w.entries) + j] = more[j]
  <2>1. IsSeq(w.entries \o more) /\ Len(w.entries \o more) = Len(w.entries) + Len(more)
    BY <1>4, <1>5, CatIsSeq
  <2>2. \A e \in 1 .. Len(w.entries) : (w.entries \o more)[e] = w.entries[e]
    BY <1>4, <1>5 DEF IsSeq
  <2>3. \A j \in 1 .. Len(more) : (w.entries \o more)[Len(w.entries) + j] = more[j]
    BY <1>4, <1>5 DEF IsSeq
  <2> QED BY <1>2, <1>5, <2>1, <2>2, <2>3
<1>7. DOMAIN v.entries = 1 .. Len(v.entries)
  BY <1>6 DEF IsSeq
<1>8. \A e \in DOMAIN w.entries : e \in DOMAIN v.entries /\ v.entries[e] = w.entries[e]
  BY <1>4, <1>6, <1>7
<1>9. ASSUME NEW e \in DOMAIN v.entries, e \notin DOMAIN w.entries
      PROVE  \E j \in 1 .. n : e = Len(w.entries) + j
  <2>1. e - Len(w.entries) \in 1 .. n /\ e = Len(w.entries) + (e - Len(w.entries))
    BY <1>4, <1>6, <1>7, <1>9
  <2> QED BY <2>1
<1> QED BY <1>2, <1>3, <1>5, <1>6, <1>7, <1>8, <1>9 DEF Took, took, left

\* Sequence i has no cells yet beyond what its slot records, room for what it has
\* in the batch, and an entry for every one of those.
HasRoom(w, i) ==
    LET q == w.seqs[i]
        x == w.ic.slots[w.req[q].slot].inputs
    IN  /\ Below(w.ic.kv, w.req[q].slot, Len(x))
        /\ Len(x) + Len(w.req[q].pending) <= NumCtx
        /\ Len(w.req[q].pending) > 0 => w.snapshot[i] = q
        /\ \A j \in 1 .. Len(w.req[q].pending) :
             \E e \in DOMAIN w.entries : w.entries[e].q = q /\ w.entries[e].pos = Len(x) + j - 1

\* x is an entry of sequence i.
EntryOf(w, i, x) ==
    LET q == w.seqs[i]
        s == w.req[q].slot
    IN  /\ x.q = q /\ x.slot = s
        /\ \E j \in 1 .. Len(w.req[q].pending) :
             x.pos = Len(w.ic.slots[s].inputs) + j - 1 /\ x.input = w.req[q].pending[j]

\* Nothing of sequence j is different in v.
SameSeq(w, v, j) ==
    LET q == w.seqs[j]
        s == w.req[q].slot
    IN  /\ v.seqs[j] = q /\ v.snapshot[j] = w.snapshot[j] /\ v.req[q] = w.req[q]
        /\ v.ic.slots[s].inputs = w.ic.slots[s].inputs
        /\ SameFor(w.ic.kv, v.ic.kv, s)

\* The batch only grows.
Grows(w, v) == \A e \in DOMAIN w.entries : e \in DOMAIN v.entries /\ v.entries[e] = w.entries[e]

\* What the loop needs of a sequence holds as long as nobody touches it.
LEMMA SameSeqKeeps ==
    ASSUME NEW w, NEW v, NEW j, SameSeq(w, v, j), Grows(w, v)
    PROVE  /\ HasRoom(w, j) => HasRoom(v, j)
           /\ \A x : EntryOf(w, j, x) => EntryOf(v, j, x)
<1> DEFINE q == w.seqs[j]
           s == w.req[q].slot
<1>1. /\ v.seqs[j] = q /\ v.snapshot[j] = w.snapshot[j] /\ v.req[q] = w.req[q]
      /\ v.ic.slots[s].inputs = w.ic.slots[s].inputs /\ SameFor(w.ic.kv, v.ic.kv, s)
  BY DEF SameSeq
<1>2. ASSUME HasRoom(w, j) PROVE HasRoom(v, j)
  <2>1. Below(v.ic.kv, s, Len(v.ic.slots[s].inputs))
    BY <1>1, <1>2, SameBelow DEF HasRoom
  <2>2. \A m \in 1 .. Len(w.req[q].pending) :
          \E e \in DOMAIN v.entries : v.entries[e].q = q /\ v.entries[e].pos = Len(w.ic.slots[s].inputs) + m - 1
    BY <1>2 DEF HasRoom, Grows
  <2> QED BY <1>1, <1>2, <2>1, <2>2 DEF HasRoom
<1>3. ASSUME NEW x, EntryOf(w, j, x) PROVE EntryOf(v, j, x)
  BY <1>1, <1>3 DEF EntryOf
<1> QED BY <1>2, <1>3

VisitCache(w, U) ==
    /\ KvOK(w.ic.kv) /\ ReqTypes(w.req) /\ SlotTypes(w.ic)
    /\ Len(w.entries) <= BatchSize
    /\ \A i \in Occupied(w.seqs) : HasRoom(w, i)
    /\ \A i \in U : w.snapshot[i] = w.seqs[i] /\ (w.seqs[i] # None => Len(w.req[w.seqs[i]].pending) = 0)
    /\ \A e \in DOMAIN w.entries : \E i \in Occupied(w.seqs) : EntryOf(w, i, w.entries[e])
    /\ \A e, f \in DOMAIN w.entries :
         w.entries[e].q = w.entries[f].q /\ w.entries[e].pos = w.entries[f].pos => e = f

\* Inputs of sequence i are taken into the batch.
LEMMA TakeCache ==
    ASSUME NEW w, VisitInv(w), NEW U \in SUBSET Idx, VisitCache(w, U), NEW i \in U, i \in Occupied(w.seqs),
           NEW n \in Nat, n >= 1, n <= Len(w.req[w.seqs[i]].inputs), n <= BatchSize - Len(w.entries),
           n <= NumCtx - Cached(w, w.seqs[i]), NEW v, Took(w, v, w.seqs[i], n)
    PROVE  VisitCache(v, U \ {i})
<1> DEFINE q   == w.seqs[i]
           s   == w.req[q].slot
           x   == w.ic.slots[s].inputs
           all == w.req[q].inputs
<1>1. /\ q \in Requests /\ s \in Slots /\ Cached(w, q) = Len(x) /\ i \in Idx
      /\ w.seqs \in [Idx -> Requests \cup {None}]
      /\ \A j, k \in Occupied(w.seqs) : j # k => w.seqs[j] # w.seqs[k] /\ w.req[w.seqs[j]].slot # w.req[w.seqs[k]].slot
  BY DEF VisitInv, Acc, Owners, Occupied, Cached
<1>2. /\ v.ic = w.ic /\ v.seqs = w.seqs /\ v.snapshot = w.snapshot /\ Grows(w, v)
      /\ Len(v.entries) = Len(w.entries) + n
      /\ \A e \in DOMAIN v.entries : e \in DOMAIN w.entries \/ \E j \in 1 .. n : e = Len(w.entries) + j
      /\ \A y \in Requests \ {q} : v.req[y] = w.req[y]
      /\ SameBut(w.req[q], v.req[q])
      /\ v.req[q].pending = SubSeq(all, 1, n)
      /\ v.req[q].inputs = SubSeq(all, n + 1, Len(all))
  BY DEF Took, Grows
<1>3. ASSUME NEW j \in 1 .. n
      PROVE  LET y == v.entries[Len(w.entries) + j]
             IN  y.slot = s /\ y.pos = Len(x) + j - 1 /\ y.input = all[j] /\ y.q = q
  <2>1. v.entries[Len(w.entries) + j] =
           [slot |-> s, pos |-> Cached(w, q) + j - 1, input |-> all[j], q |-> q]
    BY DEF Took
  <2> HIDE DEF s, all
  <2> QED BY <1>1, <2>1
<1>4. /\ all \in Seq(InputType) /\ x \in Seq(InputType) /\ Len(x) \in Nat /\ Len(all) \in Nat
      /\ Len(w.entries) \in Nat /\ DOMAIN w.entries = 1 .. Len(w.entries)
  <2>1. all \in Seq(InputType)
    BY <1>1 DEF VisitCache, ReqTypes
  <2>2. x \in Seq(InputType)
    BY <1>1 DEF VisitCache, SlotTypes
  <2>3. Len(w.entries) \in Nat /\ DOMAIN w.entries = 1 .. Len(w.entries)
    BY DEF VisitInv, IsSeq
  <2> HIDE DEF all, x
  <2> QED BY <2>1, <2>2, <2>3
<1>5. /\ v.req[q].pending \in Seq(InputType) /\ Len(v.req[q].pending) = n
      /\ \A j \in 1 .. n : v.req[q].pending[j] = all[j]
      /\ v.req[q].inputs \in Seq(InputType)
  <2>1. /\ SubSeq(all, 1, n) \in Seq(InputType)
        /\ Len(SubSeq(all, 1, n)) = IF 1 <= n THEN n - 1 + 1 ELSE 0
        /\ \A j \in 1 .. Len(SubSeq(all, 1, n)) : SubSeq(all, 1, n)[j] = all[1 + j - 1]
    <3>1. 1 \in Nat /\ 1 >= 1 /\ n <= Len(all)
      OBVIOUS
    <3> HIDE DEF all
    <3> QED BY <1>4, <3>1, PartTyped
  <2>2. Len(SubSeq(all, 1, n)) = n
    BY <2>1
  <2>3. \A j \in 1 .. n : 1 + j - 1 = j
    OBVIOUS
  <2>4. SubSeq(all, n + 1, Len(all)) \in Seq(InputType)
    <3>1. n + 1 \in Nat /\ n + 1 >= 1 /\ Len(all) \in Nat /\ Len(all) <= Len(all)
      BY <1>4
    <3> HIDE DEF all
    <3> QED BY <1>4, <3>1, PartTyped
  <2> HIDE DEF all
  <2> QED BY <1>2, <2>1, <2>2, <2>3, <2>4
<1> HIDE DEF q, s, x, all
<1>6. KvOK(v.ic.kv) /\ SlotTypes(v.ic) /\ Len(v.entries) <= BatchSize
  <2>1. BatchSize \in Nat
    BY CacheConstants
  <2> QED BY <1>2, <1>4, <2>1 DEF VisitCache, q
<1>7. ReqTypes(v.req)
  <2> SUFFICES ASSUME NEW y \in Requests
               PROVE  /\ v.req[y].pc \in {"new", "acquire", "load", "stream", "done"}
                      /\ v.req[y].inputs \in Seq(InputType) /\ v.req[y].pending \in Seq(InputType)
                      /\ v.req[y].slot \in Slots \cup {None}
                      /\ v.req[y].keep \in 0 .. NumCtx - 1
                      /\ v.req[y].reason \in {None, "error", "gone", "length", "stop"}
    BY DEF ReqTypes
  <2>1. CASE y = q
    BY <1>1, <1>2, <1>5, <2>1 DEF VisitCache, ReqTypes, SameBut
  <2>2. CASE y # q
    BY <1>2, <2>2 DEF VisitCache, ReqTypes
  <2> QED BY <2>1, <2>2
<1>8. ASSUME NEW j \in Occupied(w.seqs), j # i PROVE SameSeq(w, v, j)
  <2>1. w.seqs[j] # q /\ w.seqs[j] \in Requests
    BY <1>1, <1>8 DEF q, Occupied
  <2>2. SameFor(w.ic.kv, w.ic.kv, w.req[w.seqs[j]].slot)
    BY DEF SameFor
  <2> QED BY <1>2, <2>1, <2>2 DEF SameSeq
<1>9. HasRoom(w, i)
  BY DEF VisitCache
<1>10. v.seqs[i] = q /\ v.req[q].slot = s /\ v.ic.slots[s].inputs = x /\ w.snapshot[i] = q
  BY <1>2 DEF q, s, x, SameBut, VisitCache
<1>11. HasRoom(v, i)
  <2>1. Below(v.ic.kv, s, Len(x))
    BY <1>2, <1>9 DEF HasRoom, q, s, x
  <2>2. Len(x) + n <= NumCtx
    <3>1. NumCtx \in Nat /\ n <= NumCtx - Len(x)
      BY <1>1, CacheConstants DEF q
    <3> QED BY <1>4, <3>1
  <2>3. ASSUME NEW j \in 1 .. n
        PROVE  \E e \in DOMAIN v.entries : v.entries[e].q = q /\ v.entries[e].pos = Len(x) + j - 1
    <3>1. Len(w.entries) + j \in DOMAIN v.entries
      <4>1. DOMAIN v.entries = 1 .. Len(w.entries) + n
        BY <1>2 DEF Took
      <4> QED BY <1>4, <4>1
    <3> QED BY <1>3, <3>1
  <2>4. Len(v.req[q].pending) = n /\ v.snapshot[i] = q
    BY <1>2, <1>5, <1>10
  <2> QED BY <1>10, <2>1, <2>2, <2>3, <2>4 DEF HasRoom
<1>12. \A j \in Occupied(v.seqs) : HasRoom(v, j)
  <2> TAKE j \in Occupied(v.seqs)
  <2>1. j \in Occupied(w.seqs) /\ HasRoom(w, j)
    BY <1>2 DEF VisitCache
  <2>2. CASE j # i
    BY <1>2, <1>8, <2>1, <2>2, SameSeqKeeps
  <2> QED BY <1>11, <2>2
<1>13. ASSUME NEW j \in U \ {i}
       PROVE  v.snapshot[j] = v.seqs[j] /\ (v.seqs[j] # None => Len(v.req[v.seqs[j]].pending) = 0)
  <2>1. w.snapshot[j] = w.seqs[j] /\ (w.seqs[j] # None => Len(w.req[w.seqs[j]].pending) = 0)
    BY DEF VisitCache
  <2>2. CASE w.seqs[j] # None
    <3>1. j \in Occupied(w.seqs) /\ j # i
      BY <2>2 DEF Occupied
    <3>2. v.req[w.seqs[j]] = w.req[w.seqs[j]]
      BY <1>8, <3>1 DEF SameSeq
    <3> QED BY <1>2, <2>1, <3>2
  <2>3. CASE w.seqs[j] = None
    BY <1>2, <2>1, <2>3
  <2> QED BY <2>2, <2>3
<1>14. ASSUME NEW e \in DOMAIN v.entries
       PROVE  \E j \in Occupied(v.seqs) : EntryOf(v, j, v.entries[e])
  <2>1. CASE e \in DOMAIN w.entries
    <3>1. PICK j \in Occupied(w.seqs) : EntryOf(w, j, w.entries[e])
      BY <2>1 DEF VisitCache
    <3>2. v.entries[e] = w.entries[e] /\ j \in Occupied(v.seqs)
      BY <1>2, <2>1 DEF Grows
    <3>3. j # i
      <4>1. Len(w.req[q].pending) = 0
        BY <1>1 DEF VisitCache, q, Occupied
      <4> QED BY <3>1, <4>1 DEF EntryOf, q
    <3>4. EntryOf(v, j, w.entries[e])
      BY <1>2, <1>8, <3>1, <3>3, SameSeqKeeps
    <3> QED BY <3>2, <3>4
  <2>2. CASE e \notin DOMAIN w.entries
    <3>1. PICK j \in 1 .. n : e = Len(w.entries) + j
      BY <1>2, <2>2
    <3>2. EntryOf(v, i, v.entries[e])
      <4>1. v.entries[e].slot = s /\ v.entries[e].pos = Len(x) + j - 1 /\ v.entries[e].input = all[j]
            /\ v.entries[e].q = q
        BY <1>3, <3>1
      <4>2. Len(v.req[q].pending) = n /\ v.req[q].pending[j] = all[j]
        BY <1>5
      <4> QED BY <1>10, <4>1, <4>2 DEF EntryOf
    <3> QED BY <1>2, <3>2
  <2> QED BY <2>1, <2>2
<1>15. ASSUME NEW e \in DOMAIN v.entries, NEW f \in DOMAIN v.entries,
              v.entries[e].q = v.entries[f].q, v.entries[e].pos = v.entries[f].pos
       PROVE  e = f
  <2>1. ASSUME NEW d \in DOMAIN w.entries PROVE v.entries[d].q # q
    <3>1. PICK j \in Occupied(w.seqs) : EntryOf(w, j, w.entries[d])
      BY <2>1 DEF VisitCache
    <3>2. Len(w.req[q].pending) = 0
      BY <1>1 DEF VisitCache, q, Occupied
    <3>3. j # i /\ w.entries[d].q = w.seqs[j]
      BY <3>1, <3>2 DEF EntryOf, q
    <3>4. v.entries[d] = w.entries[d]
      BY <1>2 DEF Grows
    <3>5. w.seqs[j] # q
      BY <1>1, <3>3 DEF q
    <3> QED BY <3>3, <3>4, <3>5
  <2>2. CASE e \in DOMAIN w.entries /\ f \in DOMAIN w.entries
    BY <1>2, <1>15, <2>2 DEF Grows, VisitCache
  <2>3. CASE e \notin DOMAIN w.entries /\ f \notin DOMAIN w.entries
    <3>1. PICK j \in 1 .. n : e = Len(w.entries) + j
      BY <1>2, <2>3
    <3>2. PICK k \in 1 .. n : f = Len(w.entries) + k
      BY <1>2, <2>3
    <3>3. v.entries[e].pos = Len(x) + j - 1 /\ v.entries[f].pos = Len(x) + k - 1
      BY <1>3, <3>1, <3>2
    <3>4. Len(x) + j - 1 = Len(x) + k - 1
      BY <1>15, <3>3
    <3>5. j = k
      BY <1>4, <3>4
    <3> QED BY <3>1, <3>2, <3>5
  <2>4. ASSUME NEW d \in DOMAIN v.entries, d \notin DOMAIN w.entries PROVE v.entries[d].q = q
    <3>1. PICK j \in 1 .. n : d = Len(w.entries) + j
      BY <1>2, <2>4
    <3> QED BY <1>3, <3>1
  <2> QED BY <1>15, <2>1, <2>2, <2>3, <2>4
<1> QED BY <1>6, <1>7, <1>12, <1>13, <1>14, <1>15 DEF VisitCache

\* A round that leaves everything as it is, but where the next batch resumes.
Stays(w, v) ==
    /\ v.ic = w.ic /\ v.req = w.req /\ v.seqs = w.seqs /\ v.snapshot = w.snapshot
    /\ v.entries = w.entries

\* A round that ends sequence i.
Ends(w, v, i) ==
    /\ v.entries = w.entries /\ v.ic.kv = w.ic.kv
    /\ \A t \in Slots : v.ic.slots[t].inputs = w.ic.slots[t].inputs
    /\ v.seqs = [w.seqs EXCEPT ![i] = None] /\ v.snapshot = [w.snapshot EXCEPT ![i] = None]
    /\ \A x \in Requests \ {w.seqs[i]} : v.req[x] = w.req[x]
    /\ v.req[w.seqs[i]].pc = "done" /\ v.req[w.seqs[i]].reason = "length"
    /\ v.req[w.seqs[i]].inputs = <<>> /\ v.req[w.seqs[i]].pending = <<>>
    /\ v.req[w.seqs[i]].slot = None /\ v.req[w.seqs[i]].keep = 0

\* The cache slot of sequence i was shifted.
Slides(w, i, got, d) ==
    /\ w.req[w.seqs[i]].slot \in Slots
    /\ Len(w.ic.slots[w.req[w.seqs[i]].slot].inputs) = NumCtx
    /\ w.req[w.seqs[i]].shift /\ SameUse(w.ic, got.ic)
    /\ d \in 1 .. NumCtx - w.req[w.seqs[i]].keep
    /\ LeftOf(w.ic, got, w.req[w.seqs[i]].slot, w.req[w.seqs[i]].keep, d)

\* A round that leaves sequence i out, which has to be computed again.
Redoes(w, v, i, got) ==
    /\ v.ic = got.ic /\ v.entries = w.entries /\ v.seqs = w.seqs
    /\ v.snapshot = [w.snapshot EXCEPT ![i] = None]
    /\ \A x \in Requests \ {w.seqs[i]} : v.req[x] = w.req[x]
    /\ SameBut(w.req[w.seqs[i]], v.req[w.seqs[i]])
    /\ v.req[w.seqs[i]].pending = w.req[w.seqs[i]].pending
    /\ v.req[w.seqs[i]].inputs = got.reprocess \o w.req[w.seqs[i]].inputs

Takes(w, v, i) ==
    \E n \in Nat : /\ n >= 1 /\ n <= Len(w.req[w.seqs[i]].inputs) /\ n <= BatchSize - Len(w.entries)
                   /\ n <= NumCtx - Cached(w, w.seqs[i]) /\ Took(w, v, w.seqs[i], n)

Round(w, v, i) ==
    \/ Stays(w, v)
    \/ i \in Occupied(w.seqs) /\ Takes(w, v, i)
    \/ i \in Occupied(w.seqs) /\ Ends(w, v, i)
    \/ /\ i \in Occupied(w.seqs)
       /\ \E got, d : /\ Slides(w, i, got, d)
                      /\ \/ ~got.ok /\ Redoes(w, v, i, got)
                         \/ got.ok /\ Takes([w EXCEPT !.ic = got.ic], v, i)

\* TakeInputs takes at least one input and no more than there is room for.
LEMMA TakesSome ==
    ASSUME NEW w, VisitInv(w), NEW i \in Occupied(w.seqs),
           Len(w.req[w.seqs[i]].inputs) >= 1, Len(w.entries) < BatchSize,
           Cached(w, w.seqs[i]) < NumCtx, NEW v, v = TakeInputs(w, w.seqs[i])
    PROVE  Takes(w, v, i)
<1> DEFINE q == w.seqs[i]
           a == BatchSize - Len(w.entries)
           b == NumCtx - Cached(w, q)
           c == Len(w.req[q].inputs)
           n == Min({a, b, c})
<1>0. q \in Requests /\ w.req[q].slot \in Slots
  BY DEF VisitInv, Acc, Owners, Occupied
<1>1. Cached(w, q) \in Nat
  BY <1>0 DEF VisitInv, Acc, CacheShape, SlotShape, Cached, IsSeq
<1>2. Len(w.entries) \in Nat /\ Len(w.req[q].inputs) \in Nat
  BY <1>0 DEF VisitInv, Acc, ReqShape, IsSeq
<1>3. /\ a \in Nat /\ a >= 1 /\ b \in Nat /\ b >= 1 /\ c \in Nat /\ c >= 1
  <2>1. BatchSize \in Nat /\ NumCtx \in Nat
    BY CacheConstants
  <2>2. a \in Nat /\ a >= 1
    BY <1>2, <2>1
  <2>3. b \in Nat /\ b >= 1
    BY <1>1, <2>1
  <2>4. c \in Nat /\ c >= 1
    BY <1>2
  <2> QED BY <2>2, <2>3, <2>4
<1>4. v = Take(w, q, Cached(w, q), n)
  BY DEF TakeInputs
<1> HIDE DEF a, b, c
<1>5. n \in {a, b, c} /\ \A y \in {a, b, c} : n <= y
  <2>1. {a, b, c} \in SUBSET Nat /\ a \in {a, b, c}
    BY <1>3
  <2> QED BY <2>1, MinIn
<1> HIDE DEF n
<1>6. n \in Nat /\ n >= 1 /\ n <= a /\ n <= b /\ n <= c
  BY <1>3, <1>5
<1>7. Took(w, v, q, n)
  BY <1>0, <1>4, <1>6, TakeDoes
<1> QED BY <1>6, <1>7 DEF a, b, c, Takes

\* One round of the loop.
LEMMA RoundIs ==
    ASSUME NEW w, VisitInv(w), VisitLogits(w), NEW i \in Idx, KvOK(w.ic.kv), ReqTypes(w.req),
           SlotTypes(w.ic), Len(w.entries) <= BatchSize, NEW v, v = VisitIndex(w, i)
    PROVE  Round(w, v, i)
<1> DEFINE q == w.seqs[i]
           s == w.req[q].slot
<1>1. v = Visit(w, i, q)
  BY DEF VisitIndex
<1>2. CASE q = None \/ w.req[q].inputs = <<>>
  <2>1. v = w
    BY <1>1, <1>2 DEF Visit
  <2> QED BY <2>1 DEF Round, Stays
<1>3. CASE q # None /\ w.req[q].inputs # <<>>
  <2>1. /\ q \in Requests /\ s \in Slots /\ i \in Occupied(w.seqs)
    BY <1>3 DEF VisitInv, Acc, Owners, Occupied
  <2>2. IsSeq(w.req[q].inputs) /\ Len(w.req[q].inputs) >= 1
    BY <1>3, <2>1 DEF VisitLogits, InputsOK, InputsShape, IsSeq
  <2>3. /\ w.req[q].keep \in 0 .. NumCtx - 1 /\ NumCtx \in Nat /\ BatchSize \in Nat /\ Len(w.entries) \in Nat
        /\ Len(w.ic.slots[s].inputs) \in Nat /\ Len(w.ic.slots[s].inputs) <= NumCtx
        /\ Cached(w, q) = Len(w.ic.slots[s].inputs)
    <3>1. w.req[q].keep \in 0 .. NumCtx - 1 /\ NumCtx \in Nat /\ BatchSize \in Nat
      BY <2>1, CacheConstants DEF ReqTypes
    <3>2. Len(w.entries) \in Nat
      BY DEF VisitInv, IsSeq
    <3>3. Len(w.ic.slots[s].inputs) \in Nat /\ Len(w.ic.slots[s].inputs) <= NumCtx
      BY <2>1 DEF VisitInv, Acc, CacheShape, SlotShape, IsSeq, SlotTypes
    <3> QED BY <3>1, <3>2, <3>3 DEF Cached
  <2> HIDE DEF q, s
  <2>4. CASE Len(w.entries) = BatchSize
    <3>1. v = [w EXCEPT !.resume = IF @ = None THEN i ELSE @]
      BY <1>1, <1>3, <2>4 DEF Visit
    <3>2. Stays(w, v)
      BY <3>1 DEF VisitInv, Stays
    <3> QED BY <3>2 DEF Round
  <2>5. CASE Len(w.entries) # BatchSize /\ Cached(w, q) + 1 <= NumCtx
    <3>1. v = TakeInputs(w, q)
      BY <1>1, <1>3, <2>5 DEF Visit
    <3>2. Cached(w, q) < NumCtx /\ Len(w.entries) < BatchSize
      BY <2>3, <2>5
    <3>3. Takes(w, v, i)
      BY <2>1, <2>2, <3>1, <3>2, TakesSome DEF q
    <3> QED BY <2>1, <3>3 DEF Round
  <2>6. CASE Len(w.entries) # BatchSize /\ ~(Cached(w, q) + 1 <= NumCtx) /\ ~w.req[q].shift
    <3> DEFINE u   == removeSequence(w, i, "length")
               new == [Blank EXCEPT !.pc = "done", !.reason = "length", !.predicted = w.req[q].predicted]
    <3>1. v = [u EXCEPT !.snapshot[i] = None]
      BY <1>1, <1>3, <2>6 DEF Visit
    <3>2. u = [w EXCEPT !.req[q] = new, !.seqs[i] = None, !.sem = @ - 1, !.ic.slots[s].inUse = FALSE]
      BY DEF removeSequence, q, s
    <3>3. /\ new.pc = "done" /\ new.reason = "length" /\ new.inputs = <<>> /\ new.pending = <<>>
          /\ new.slot = None /\ new.keep = 0
      BY DEF Blank
    <3> HIDE DEF u, new
    <3>4. /\ v.entries = w.entries /\ v.seqs = [w.seqs EXCEPT ![i] = None]
          /\ v.snapshot = [w.snapshot EXCEPT ![i] = None] /\ v.req = [w.req EXCEPT ![q] = new]
          /\ v.ic = [w.ic EXCEPT !.slots[s].inUse = FALSE]
      BY <3>1, <3>2 DEF VisitInv
    <3>5. /\ v.req[q] = new /\ \A x \in Requests \ {q} : v.req[x] = w.req[x]
      BY <2>1, <3>4 DEF VisitInv, Acc, ReqShape
    <3>6. v.ic.kv = w.ic.kv /\ v.ic.slots = [w.ic.slots EXCEPT ![s].inUse = FALSE]
      BY <3>4 DEF VisitInv, Acc, CacheShape
    <3>7. \A t \in Slots : v.ic.slots[t].inputs = w.ic.slots[t].inputs
      BY <3>6 DEF VisitInv, Acc, CacheShape, SlotShape
    <3>8. Ends(w, v, i)
      BY <3>3, <3>4, <3>5, <3>6, <3>7 DEF Ends, q
    <3> QED BY <2>1, <3>8 DEF Round
  <2>7. CASE Len(w.entries) # BatchSize /\ ~(Cached(w, q) + 1 <= NumCtx) /\ w.req[q].shift
    <3> DEFINE got == ShiftCacheSlot(w.ic, s, w.req[q].keep)
    <3>1. v = AfterShift(w, i, q, got)
      BY <1>1, <1>3, <2>7 DEF Visit, s
    <3>2. SameUse(w.ic, got.ic)
      BY <2>1, <2>3, ShiftKeeps DEF VisitInv, Acc
    <3>3. Len(w.ic.slots[s].inputs) = NumCtx /\ Len(w.entries) < BatchSize
      BY <2>3, <2>7
    <3>4. CacheShape(w.ic)
      BY DEF VisitInv, Acc
    <3>5. \E d \in 1 .. NumCtx - w.req[q].keep : LeftOf(w.ic, got, s, w.req[q].keep, d)
      BY <2>1, <2>3, <3>3, <3>4, ShiftLeaves
    <3> HIDE DEF got
    <3>6. PICK d \in 1 .. NumCtx - w.req[q].keep : LeftOf(w.ic, got, s, w.req[q].keep, d)
      BY <3>5
    <3>7. Slides(w, i, got, d)
      BY <2>1, <2>7, <3>2, <3>3, <3>6 DEF Slides, q, s
    <3>8. CASE got.ok
      <4> DEFINE u == [w EXCEPT !.ic = got.ic]
      <4>1. SameReq(w.req, w.req)
        BY DEF VisitInv, Acc, SameReq
      <4>2. Acc(w.req, w.seqs, w.sem, got.ic)
        BY <3>2, <4>1, SameKeeps DEF VisitInv
      <4>3. VisitInv(u)
        BY <4>2 DEF VisitInv
      <4>4. v = TakeInputs(u, q)
        BY <3>1, <3>8 DEF AfterShift
      <4>5. u.entries = w.entries /\ u.req = w.req /\ u.seqs = w.seqs /\ u.ic = got.ic
        BY DEF VisitInv
      <4>6. Len(got.ic.slots[s].inputs) < NumCtx
        BY <2>1, <2>3, <3>3, <3>6, ShiftFits DEF SlotTypes
      <4>7. Takes(u, v, i)
        <5> HIDE DEF u
        <5>1. Cached(u, q) < NumCtx
          BY <4>5, <4>6 DEF Cached, s
        <5> QED BY <2>1, <2>2, <3>3, <4>3, <4>4, <4>5, <5>1, TakesSome DEF q
      <4> QED BY <2>1, <3>7, <3>8, <4>7 DEF Round
    <3>9. CASE ~got.ok
      <4> DEFINE all == got.reprocess \o w.req[q].inputs
      <4>1. v = [w EXCEPT !.ic = got.ic, !.req[q].inputs = all, !.snapshot[i] = None]
        BY <2>1, <3>1, <3>9 DEF AfterShift, VisitInv, Acc, ReqShape
      <4> HIDE DEF all
      <4>2. /\ v.entries = w.entries /\ v.ic = got.ic /\ v.seqs = w.seqs
            /\ v.req = [w.req EXCEPT ![q].inputs = all]
            /\ v.snapshot = [w.snapshot EXCEPT ![i] = None]
        BY <4>1 DEF VisitInv
      <4>3. /\ DOMAIN w.req = Requests
            /\ DOMAIN w.req[q] = {"pc", "inputs", "pending", "slot", "iBatch", "predicted", "held",
                                  "quit", "limit", "keep", "shift", "reason"}
        BY <2>1 DEF VisitInv, Acc, ReqShape
      <4>4. /\ SameBut(w.req[q], v.req[q]) /\ v.req[q].pending = w.req[q].pending /\ v.req[q].inputs = all
            /\ \A x \in Requests \ {q} : v.req[x] = w.req[x]
        BY <2>1, <4>2, <4>3 DEF SameBut
      <4>5. Redoes(w, v, i, got)
        BY <4>2, <4>4 DEF Redoes, q, all
      <4> QED BY <2>1, <3>7, <3>9, <4>5 DEF Round
    <3> QED BY <3>6, <3>8, <3>9 DEF LeftOf
  <2> QED BY <2>4, <2>5, <2>6, <2>7
<1> QED BY <1>2, <1>3

\* A round that changes sequence i only, which has no entries, and adds none.
LEMMA OneChanges ==
    ASSUME NEW w, NEW U \in SUBSET Idx, VisitCache(w, U), NEW i \in U,
           NEW v, KvOK(v.ic.kv), ReqTypes(v.req), SlotTypes(v.ic), v.entries = w.entries,
           \A j \in Occupied(w.seqs) \ {i} : SameSeq(w, v, j),
           \A j \in Idx \ {i} : v.seqs[j] = w.seqs[j] /\ v.snapshot[j] = w.snapshot[j],
           i \in Occupied(v.seqs) => HasRoom(v, i),
           NEW T \in SUBSET U,
           i \in T => /\ v.snapshot[i] = v.seqs[i]
                      /\ v.seqs[i] # None => Len(v.req[v.seqs[i]].pending) = 0
    PROVE  VisitCache(v, T)
<1>1. Grows(w, v)
  BY DEF Grows
<1>2. ASSUME NEW j \in Occupied(w.seqs), j # i PROVE j \in Occupied(v.seqs) /\ SameSeq(w, v, j)
  BY <1>2 DEF Occupied
<1>3. ASSUME NEW j \in Occupied(v.seqs) PROVE HasRoom(v, j)
  <2>1. CASE j # i
    <3>1. j \in Occupied(w.seqs)
      BY <2>1 DEF Occupied
    <3>2. HasRoom(w, j)
      BY <3>1 DEF VisitCache
    <3> QED BY <1>1, <1>2, <2>1, <3>1, <3>2, SameSeqKeeps
  <2> QED BY <2>1
<1>4. ASSUME NEW e \in DOMAIN v.entries PROVE \E j \in Occupied(v.seqs) : EntryOf(v, j, v.entries[e])
  <2>1. PICK j \in Occupied(w.seqs) : EntryOf(w, j, w.entries[e])
    BY DEF VisitCache
  <2>2. j # i
    <3>1. ASSUME j = i PROVE FALSE
      <4>1. Len(w.req[w.seqs[i]].pending) = 0
        BY <3>1 DEF VisitCache, Occupied
      <4> QED BY <2>1, <3>1, <4>1 DEF EntryOf
    <3> QED BY <3>1
  <2>3. EntryOf(v, j, w.entries[e])
    BY <1>1, <1>2, <2>1, <2>2, SameSeqKeeps
  <2> QED BY <1>2, <2>2, <2>3
<1>5. ASSUME NEW j \in T
      PROVE  v.snapshot[j] = v.seqs[j] /\ (v.seqs[j] # None => Len(v.req[v.seqs[j]].pending) = 0)
  <2>1. CASE j # i
    <3>1. w.snapshot[j] = w.seqs[j] /\ (w.seqs[j] # None => Len(w.req[w.seqs[j]].pending) = 0)
      BY DEF VisitCache
    <3>2. v.seqs[j] = w.seqs[j] /\ v.snapshot[j] = w.snapshot[j] /\ j \in Idx
      BY <2>1
    <3>3. CASE w.seqs[j] # None
      <4>1. v.req[w.seqs[j]] = w.req[w.seqs[j]]
        BY <2>1, <3>2, <3>3 DEF SameSeq, Occupied
      <4> QED BY <3>1, <3>2, <4>1
    <3> QED BY <3>1, <3>2, <3>3
  <2> QED BY <2>1
<1>6. \A e, f \in DOMAIN v.entries :
         v.entries[e].q = v.entries[f].q /\ v.entries[e].pos = v.entries[f].pos => e = f
  BY DEF VisitCache
<1>7. Len(v.entries) <= BatchSize
  BY DEF VisitCache
<1> QED BY <1>3, <1>4, <1>5, <1>6, <1>7 DEF VisitCache

\* The slot of sequence i was shifted.
LEMMA SlideCache ==
    ASSUME NEW w, VisitInv(w), NEW U \in SUBSET Idx, VisitCache(w, U), NEW i \in U,
           i \in Occupied(w.seqs), NEW got, NEW d, Slides(w, i, got, d),
           NEW v, v.ic = got.ic, v.entries = w.entries, v.seqs = w.seqs,
           \A j \in Idx \ {i} : v.snapshot[j] = w.snapshot[j],
           \A x \in Requests \ {w.seqs[i]} : v.req[x] = w.req[x],
           SameBut(w.req[w.seqs[i]], v.req[w.seqs[i]]),
           v.req[w.seqs[i]].pending = w.req[w.seqs[i]].pending,
           v.req[w.seqs[i]].inputs \in Seq(InputType),
           NEW T \in SUBSET U, i \in T => v.snapshot[i] = w.snapshot[i]
    PROVE  VisitCache(v, T)
<1> DEFINE q == w.seqs[i]
           s == w.req[q].slot
           k == w.req[q].keep
<1>1. /\ q \in Requests /\ i \in Idx
      /\ w.seqs \in [Idx -> Requests \cup {None}]
      /\ \A j \in Occupied(w.seqs) \ {i} : w.seqs[j] # q /\ w.req[w.seqs[j]].slot # s
                                           /\ w.req[w.seqs[j]].slot \in Slots /\ w.seqs[j] \in Requests
  BY DEF VisitInv, Acc, Owners, Occupied
<1>2. s \in Slots /\ Len(w.ic.slots[s].inputs) = NumCtx /\ d \in 1 .. NumCtx - k /\ LeftOf(w.ic, got, s, k, d)
  BY DEF Slides
<1>3. /\ KvOK(w.ic.kv) /\ k \in 0 .. NumCtx - 1 /\ w.ic.slots[s].inputs \in Seq(InputType)
      /\ Len(w.req[q].pending) = 0 /\ w.snapshot[i] = q /\ q # None
  BY <1>1, <1>2 DEF VisitCache, ReqTypes, SlotTypes, Occupied
<1> HIDE DEF q, s, k
<1>4. /\ KvOK(v.ic.kv) /\ OnlyFor(w.ic.kv, v.ic.kv, s)
      /\ \A t \in Slots \ {s} : v.ic.slots[t] = w.ic.slots[t]
  BY <1>2 DEF LeftOf
<1>5. /\ v.ic.slots[s].inputs \in Seq(InputType) /\ Len(v.ic.slots[s].inputs) < NumCtx
      /\ Below(v.ic.kv, s, Len(v.ic.slots[s].inputs))
  BY <1>2, <1>3, ShiftFits
<1>6. SlotTypes(v.ic)
  <2> SUFFICES ASSUME NEW t \in Slots
               PROVE  v.ic.slots[t].inputs \in Seq(InputType) /\ Len(v.ic.slots[t].inputs) <= NumCtx
    BY DEF SlotTypes
  <2>1. CASE t = s
    BY <1>5, <2>1, CacheConstants
  <2>2. CASE t # s
    BY <1>4, <2>2 DEF VisitCache, SlotTypes
  <2> QED BY <2>1, <2>2
<1>7. ReqTypes(v.req)
  <2> SUFFICES ASSUME NEW y \in Requests
               PROVE  /\ v.req[y].pc \in {"new", "acquire", "load", "stream", "done"}
                      /\ v.req[y].inputs \in Seq(InputType) /\ v.req[y].pending \in Seq(InputType)
                      /\ v.req[y].slot \in Slots \cup {None}
                      /\ v.req[y].keep \in 0 .. NumCtx - 1
                      /\ v.req[y].reason \in {None, "error", "gone", "length", "stop"}
    BY DEF ReqTypes
  <2>1. CASE y = q
    BY <1>1, <2>1 DEF VisitCache, ReqTypes, SameBut, q
  <2>2. CASE y # q
    BY <2>2 DEF VisitCache, ReqTypes, q
  <2> QED BY <2>1, <2>2
<1>8. ASSUME NEW j \in Occupied(w.seqs) \ {i} PROVE SameSeq(w, v, j)
  <2> DEFINE t == w.req[w.seqs[j]].slot
  <2>1. w.seqs[j] # q /\ t # s /\ t \in Slots /\ w.seqs[j] \in Requests /\ j \in Idx
    BY <1>1 DEF Occupied
  <2>2. SameFor(w.ic.kv, v.ic.kv, t) /\ v.ic.slots[t] = w.ic.slots[t]
    BY <1>4, <2>1 DEF OnlyFor
  <2> QED BY <2>1, <2>2 DEF SameSeq, q
<1>9. v.seqs[i] = q /\ v.req[q].slot = s /\ Len(v.req[q].pending) = 0
  BY <1>3 DEF q, s, SameBut
<1>10. HasRoom(v, i)
  <2> DEFINE L == Len(v.ic.slots[s].inputs)
  <2>1. L + 0 <= NumCtx
    BY <1>5, CacheConstants
  <2>2. ~(0 > 0) /\ 1 .. 0 = {}
    OBVIOUS
  <2> QED BY <1>5, <1>9, <2>1, <2>2 DEF HasRoom
<1>11. i \in T => v.snapshot[i] = v.seqs[i] /\ (v.seqs[i] # None => Len(v.req[v.seqs[i]].pending) = 0)
  BY <1>3, <1>9
<1>12. \A j \in Idx \ {i} : v.seqs[j] = w.seqs[j] /\ v.snapshot[j] = w.snapshot[j]
  OBVIOUS
<1> QED BY <1>4, <1>6, <1>7, <1>8, <1>10, <1>11, <1>12, OneChanges

\* A round keeps what the loop knows of the cache.
LEMMA RoundCache ==
    ASSUME NEW w, VisitInv(w), VisitLogits(w), NEW U \in SUBSET Idx, VisitCache(w, U), NEW i \in U,
           NEW v, Round(w, v, i)
    PROVE  VisitCache(v, U \ {i})
<1> DEFINE q == w.seqs[i]
<1>0. /\ KvOK(w.ic.kv) /\ ReqTypes(w.req) /\ SlotTypes(w.ic) /\ DOMAIN w.snapshot = Idx
      /\ i \in Idx /\ w.seqs \in [Idx -> Requests \cup {None}]
  BY DEF VisitCache, VisitLogits, VisitInv, Acc, Owners
<1>1. CASE Stays(w, v)
  <2>1. VisitCache(v, U)
    <3>1. ASSUME NEW j PROVE SameSeq(w, v, j)
      <4>1. SameFor(w.ic.kv, w.ic.kv, w.req[w.seqs[j]].slot)
        BY DEF SameFor
      <4> QED BY <1>1, <4>1 DEF Stays, SameSeq
    <3>2. Grows(w, v)
      BY <1>1 DEF Stays, Grows
    <3>3. \A j : (HasRoom(w, j) => HasRoom(v, j)) /\ \A x : EntryOf(w, j, x) => EntryOf(v, j, x)
      BY <3>1, <3>2, SameSeqKeeps
    <3> QED BY <1>1, <3>3 DEF Stays, VisitCache
  <2> QED BY <2>1 DEF VisitCache
<1>2. CASE i \in Occupied(w.seqs) /\ Takes(w, v, i)
  BY <1>2, TakeCache DEF Takes
<1>3. CASE i \in Occupied(w.seqs) /\ Ends(w, v, i)
  <2>1. /\ q \in Requests
        /\ \A j \in Occupied(w.seqs) \ {i} : w.seqs[j] # q /\ w.seqs[j] \in Requests
                                             /\ w.req[w.seqs[j]].slot \in Slots
    BY <1>3 DEF VisitInv, Acc, Owners, Occupied
  <2>2. /\ v.entries = w.entries /\ v.ic.kv = w.ic.kv
        /\ \A t \in Slots : v.ic.slots[t].inputs = w.ic.slots[t].inputs
        /\ v.seqs = [w.seqs EXCEPT ![i] = None] /\ v.snapshot = [w.snapshot EXCEPT ![i] = None]
        /\ \A x \in Requests \ {q} : v.req[x] = w.req[x]
        /\ v.req[q].pc = "done" /\ v.req[q].reason = "length"
        /\ v.req[q].inputs = <<>> /\ v.req[q].pending = <<>>
        /\ v.req[q].slot = None /\ v.req[q].keep = 0
    BY <1>3 DEF Ends
  <2> HIDE DEF q
  <2>3. v.seqs[i] = None /\ \A j \in Idx \ {i} : v.seqs[j] = w.seqs[j] /\ v.snapshot[j] = w.snapshot[j]
    BY <1>0, <2>2
  <2>4. KvOK(v.ic.kv) /\ SlotTypes(v.ic)
    BY <1>0, <2>2 DEF SlotTypes
  <2>5. ReqTypes(v.req)
    <3> SUFFICES ASSUME NEW y \in Requests
                 PROVE  /\ v.req[y].pc \in {"new", "acquire", "load", "stream", "done"}
                        /\ v.req[y].inputs \in Seq(InputType) /\ v.req[y].pending \in Seq(InputType)
                        /\ v.req[y].slot \in Slots \cup {None}
                        /\ v.req[y].keep \in 0 .. NumCtx - 1
                        /\ v.req[y].reason \in {None, "error", "gone", "length", "stop"}
      BY DEF ReqTypes
    <3>1. CASE y = q
      <4>1. <<>> \in Seq(InputType) /\ 0 \in 0 .. NumCtx - 1
        BY CacheConstants
      <4> QED BY <2>2, <3>1, <4>1
    <3>2. CASE y # q
      BY <1>0, <2>2, <3>2 DEF ReqTypes
    <3> QED BY <3>1, <3>2
  <2>6. ASSUME NEW j \in Occupied(w.seqs) \ {i} PROVE SameSeq(w, v, j)
    <3>1. w.seqs[j] # q /\ w.seqs[j] \in Requests /\ w.req[w.seqs[j]].slot \in Slots /\ j \in Idx
      BY <2>1 DEF Occupied
    <3>2. SameFor(w.ic.kv, v.ic.kv, w.req[w.seqs[j]].slot)
      BY <2>2 DEF SameFor
    <3> QED BY <2>2, <2>3, <3>1, <3>2 DEF SameSeq
  <2>7. i \notin Occupied(v.seqs)
    BY <2>3 DEF Occupied
  <2> DEFINE T == U \ {i}
  <2>8. T \in SUBSET U /\ i \notin T
    OBVIOUS
  <2> HIDE DEF T
  <2>9. VisitCache(v, T)
    <3>1. v.entries = w.entries
      BY <2>2
    <3>2. \A j \in Idx \ {i} : v.seqs[j] = w.seqs[j] /\ v.snapshot[j] = w.snapshot[j]
      BY <2>3
    <3> QED BY <2>4, <2>5, <2>6, <2>7, <2>8, <3>1, <3>2, OneChanges
  <2> QED BY <2>9 DEF T
<1>4. ASSUME i \in Occupied(w.seqs), NEW got, NEW d, Slides(w, i, got, d), Redoes(w, v, i, got), ~got.ok
      PROVE  VisitCache(v, U \ {i})
  <2>1. /\ v.ic = got.ic /\ v.entries = w.entries /\ v.seqs = w.seqs
        /\ v.snapshot = [w.snapshot EXCEPT ![i] = None]
        /\ \A x \in Requests \ {q} : v.req[x] = w.req[x]
        /\ SameBut(w.req[q], v.req[q])
        /\ v.req[q].pending = w.req[q].pending
        /\ v.req[q].inputs = got.reprocess \o w.req[q].inputs
    BY <1>4 DEF Redoes
  <2>2. q \in Requests
    BY <1>0, <1>4 DEF Occupied
  <2>3. v.req[q].inputs \in Seq(InputType)
    <3>1. w.req[q].inputs \in Seq(InputType)
      BY <1>0, <2>2 DEF ReqTypes
    <3>2. got.reprocess \in Seq(InputType)
      <4> DEFINE s == w.req[q].slot
                 k == w.req[q].keep
      <4>1. s \in Slots /\ Len(w.ic.slots[s].inputs) = NumCtx /\ d \in 1 .. NumCtx - k /\ LeftOf(w.ic, got, s, k, d)
        BY <1>4 DEF Slides
      <4>2. k \in 0 .. NumCtx - 1 /\ w.ic.slots[s].inputs \in Seq(InputType)
        BY <1>0, <2>2, <4>1 DEF ReqTypes, SlotTypes
      <4> HIDE DEF s, k
      <4> QED BY <1>0, <1>4, <4>1, <4>2, ShiftFits
    <3> DEFINE a == got.reprocess
               b == w.req[q].inputs
    <3>3. a \o b \in Seq(InputType)
      <4> HIDE DEF a, b
      <4>1. a \in Seq(InputType) /\ b \in Seq(InputType)
        BY <3>1, <3>2 DEF a, b
      <4> QED BY <4>1, JoinTyped
    <3> QED BY <2>1, <3>3
  <2>4. \A j \in Idx \ {i} : v.snapshot[j] = w.snapshot[j]
    BY <1>0, <2>1
  <2> DEFINE T == U \ {i}
  <2>5. T \in SUBSET U /\ i \notin T
    OBVIOUS
  <2> HIDE DEF T
  <2>6. VisitCache(v, T)
    <3>1. v.ic = got.ic /\ v.entries = w.entries /\ v.seqs = w.seqs
      BY <2>1
    <3>2. /\ \A x \in Requests \ {w.seqs[i]} : v.req[x] = w.req[x]
          /\ SameBut(w.req[w.seqs[i]], v.req[w.seqs[i]])
          /\ v.req[w.seqs[i]].pending = w.req[w.seqs[i]].pending
          /\ v.req[w.seqs[i]].inputs \in Seq(InputType)
      BY <2>1, <2>3
    <3>3. i \in T => v.snapshot[i] = w.snapshot[i]
      BY <2>5
    <3>4. i \in Occupied(w.seqs) /\ Slides(w, i, got, d)
      BY <1>4
    <3> QED BY <2>4, <2>5, <3>1, <3>2, <3>3, <3>4, SlideCache
  <2> QED BY <2>6 DEF T
<1>5. ASSUME i \in Occupied(w.seqs), NEW got, NEW d, Slides(w, i, got, d), got.ok,
             Takes([w EXCEPT !.ic = got.ic], v, i)
      PROVE  VisitCache(v, U \ {i})
  <2> DEFINE u == [w EXCEPT !.ic = got.ic]
  <2>1. u.entries = w.entries /\ u.req = w.req /\ u.seqs = w.seqs /\ u.ic = got.ic /\ u.snapshot = w.snapshot
    BY DEF VisitInv
  <2>2. VisitInv(u)
    <3>1. SameReq(w.req, w.req)
      BY DEF VisitInv, Acc, SameReq
    <3>2. Acc(w.req, w.seqs, w.sem, got.ic)
      BY <1>5, <3>1, SameKeeps DEF VisitInv, Slides
    <3> QED BY <3>2 DEF VisitInv
  <2>3. Takes(u, v, i)
    BY <1>5
  <2> HIDE DEF u
  <2>4. q \in Requests
    BY <1>0, <1>5 DEF Occupied
  <2>5. SameBut(w.req[q], u.req[q]) /\ u.req[q].inputs \in Seq(InputType)
    BY <1>0, <2>1, <2>4 DEF SameBut, ReqTypes
  <2>6. VisitCache(u, U)
    BY <1>5, <2>1, <2>5, SlideCache
  <2>7. i \in Occupied(u.seqs)
    BY <1>5, <2>1
  <2> QED BY <2>2, <2>3, <2>6, <2>7, TakeCache DEF Takes
<1> QED BY <1>1, <1>2, <1>3, <1>4, <1>5 DEF Round

\* The indexes that are left after n rounds.
Rest(n) == {At(m) : m \in n .. NumSlots - 1}

\* A round visits one sequence, which is not among those still to be visited.
LEMMA RestShrinks ==
    ASSUME nextSeq \in 0 .. NumSlots, NEW n \in Nat, n < NumSlots
    PROVE  At(n) \in Rest(n) /\ Rest(n) \in SUBSET Idx /\ Rest(n) \ {At(n)} = Rest(n + 1)
<1>1. NumSlots \in Nat /\ n \in 0 .. NumSlots - 1 /\ n \in n .. NumSlots - 1
  BY SlotCount
<1>2. ASSUME NEW m \in n .. NumSlots - 1
      PROVE  At(m) \in Idx /\ (m # n => At(m) # At(n) /\ m \in n + 1 .. NumSlots - 1)
  <2>1. m \in 0 .. NumSlots - 1 /\ (m # n => m \in n + 1 .. NumSlots - 1)
    BY <1>1
  <2>2. At(m) \in Idx
    BY <1>1, <2>1, SlotCount DEF At, Idx, Slots
  <2> QED BY <1>1, <2>1, <2>2, IndexOnce
<1>3. \A m \in n + 1 .. NumSlots - 1 : m \in n .. NumSlots - 1 /\ m # n
  BY <1>1
<1> QED BY <1>1, <1>2, <1>3 DEF Rest

\* What every round of the loop of forwardBatch starts from, and what it does.
Rounds(w0) ==
    /\ Visited(w0)[0] = w0
    /\ \A n \in 0 .. NumSlots :
         VisitInv(Visited(w0)[n]) /\ VisitLogits(Visited(w0)[n]) /\ VisitCache(Visited(w0)[n], Rest(n))
    /\ \A n \in 0 .. NumSlots - 1 : Round(Visited(w0)[n], Visited(w0)[n + 1], At(n))

\* The loop.
LEMMA VisitAllCache ==
    ASSUME NEW w0, VisitInv(w0), VisitLogits(w0), w0.snapshot = w0.seqs, nextSeq \in 0 .. NumSlots,
           VisitCache(w0, Idx)
    PROVE  Rounds(w0)
<1> DEFINE V    == Visited(w0)
           P(n) == /\ VisitInv(V[n]) /\ VisitLogits(V[n]) /\ VisitCache(V[n], Rest(n))
                   /\ n > 0 => Round(V[n - 1], V[n], At(n - 1))
           S    == {n \in Nat : n <= NumSlots => P(n)}
<1>1. V = [n \in 0 .. NumSlots |->
            IF n = 0 THEN w0 ELSE VisitIndex(V[n - 1], (nextSeq + n - 1) % NumSlots)]
  BY VisitedRounds
<1> HIDE DEF V
<1>2. V[0] = w0
  BY <1>1, SlotCount
<1>3. 0 \in S
  <2>1. Rest(0) \in SUBSET Idx
    BY SlotCount, RestShrinks
  <2>2. VisitCache(w0, Rest(0))
    BY <2>1 DEF VisitCache
  <2> QED BY <1>2, <2>2
<1>4. ASSUME NEW n \in Nat, n \in S PROVE n + 1 \in S
  <2> SUFFICES ASSUME n + 1 <= NumSlots PROVE P(n + 1)
    OBVIOUS
  <2> DEFINE w == V[n]
             v == V[n + 1]
             i == At(n)
  <2>0. P(n) /\ n < NumSlots
    BY <1>4, SlotCount
  <2>1. VisitInv(w) /\ VisitLogits(w) /\ VisitCache(w, Rest(n))
    BY <2>0
  <2>4. n + 1 \in 0 .. NumSlots /\ n + 1 # 0 /\ (n + 1) - 1 = n
    BY SlotCount
  <2>5. v = VisitIndex(w, (nextSeq + (n + 1) - 1) % NumSlots)
    BY <1>1, <2>4
  <2>6. nextSeq + (n + 1) - 1 = nextSeq + n
    BY SlotCount
  <2>7. v = VisitIndex(w, i)
    BY <2>5, <2>6 DEF At
  <2>8. i \in Rest(n) /\ Rest(n) \in SUBSET Idx /\ Rest(n) \ {i} = Rest(n + 1) /\ i \in Idx
    BY <2>0, RestShrinks
  <2> HIDE DEF v, w, i
  <2>9. VisitInv(v)
    BY <2>1, <2>7, <2>8, VisitKeeps
  <2>10. w.snapshot[i] = w.seqs[i]
    BY <2>1, <2>8 DEF VisitCache
  <2>11. VisitLogits(v)
    BY <2>1, <2>7, <2>8, <2>10, VisitRound
  <2>12. Round(w, v, i)
    BY <2>1, <2>7, <2>8, RoundIs DEF VisitCache
  <2>13. VisitCache(v, Rest(n + 1))
    BY <2>1, <2>8, <2>12, RoundCache
  <2> QED BY <2>4, <2>9, <2>11, <2>12, <2>13 DEF v, w, i
<1> HIDE DEF S
<1>5. \A n \in Nat : n \in S
  BY <1>3, <1>4, Induct
<1>6. ASSUME NEW n \in 0 .. NumSlots PROVE P(n)
  <2>1. n \in Nat /\ n <= NumSlots
    BY SlotCount
  <2> QED BY <1>5, <2>1 DEF S
<1>7. ASSUME NEW n \in 0 .. NumSlots - 1 PROVE Round(V[n], V[n + 1], At(n))
  <2>1. n + 1 \in 0 .. NumSlots /\ n + 1 > 0 /\ (n + 1) - 1 = n
    BY SlotCount
  <2>2. Round(V[(n + 1) - 1], V[n + 1], At((n + 1) - 1))
    BY <1>6, <2>1
  <2> QED BY <2>1, <2>2
<1> QED BY <1>2, <1>6, <1>7 DEF Rounds, V
-----------------------------------------------------------------------------
(* LoadCacheSlot and the KV cache *)

\* The first n inputs have the same tokens.
Agree(a, b, n) == \A j \in 1 .. n : a[j].token = b[j].token

\* c1 is c after slot s got the first n inputs of another slot.
Forks(c, c1, src, s, n) ==
    /\ src \in Slots /\ src # s /\ n <= Len(c.slots[src].inputs)
    /\ c1.kv = CopyPrefix(c.kv, src, s, n)
    /\ c1.slots[s].inputs = SubSeq(c.slots[src].inputs, 1, n)
    /\ \A t \in Slots \ {s} : c1.slots[t].inputs = c.slots[t].inputs

\* A slot was found that has the first n inputs of the prompt.
Found(c, c1, s, prompt, n) ==
    /\ s \in Slots /\ ~c.slots[s].inUse /\ CacheShape(c1)
    /\ n \in 0 .. Len(prompt) /\ n <= Len(c1.slots[s].inputs)
    /\ Agree(c1.slots[s].inputs, prompt, n)
    /\ c1 = c \/ \E src \in Slots : Forks(c, c1, src, s, n)

\* Slot s has the first inputs of the prompt, and nothing else.
LoadsAt(c1, got, s, past, prompt) ==
    /\ got.slot = s /\ got.inputs = SubSeq(prompt, past + 1, Len(prompt))
    /\ got.ic.kv = Remove(c1.kv, s, past, MaxInt).kv
    /\ got.ic.slots[s].inputs = SubSeq(prompt, 1, past)
    /\ \A t \in Slots \ {s} : got.ic.slots[t].inputs = c1.slots[t].inputs

\* What LoadCacheSlot does: n inputs match, of which it goes on from past.
Loads(c, got, prompt, c1, n, past) ==
    /\ Found(c, c1, got.slot, prompt, n)
    /\ past \in 0 .. n /\ past < Len(prompt)
    /\ past = 0 \/ CanResume(c1.kv, got.slot, past)
    /\ LoadsAt(c1, got, got.slot, past, prompt)

\* countCommonPrefix.
LEMMA CommonPrefix ==
    ASSUME NEW a, NEW b, IsSeq(a), IsSeq(b), NEW n, n = countCommonPrefix(a, b)
    PROVE  n \in 0 .. Len(a) /\ n \in 0 .. Len(b) /\ Agree(a, b, n)
<1> DEFINE K == IF Len(a) < Len(b) THEN Len(a) ELSE Len(b)
           S == {m \in 0 .. K : \A i \in 1 .. m : a[i].token = b[i].token}
<1>1. K \in Nat /\ K <= Len(b) /\ K <= Len(a) /\ Len(b) \in Nat /\ Len(a) \in Nat
  BY DEF IsSeq
<1>2. S \in SUBSET (0 .. K) /\ 0 \in S
  BY <1>1
<1>3. n = Max(S)
  BY DEF countCommonPrefix
<1> HIDE DEF S
<1>4. Max(S) \in S
  BY <1>1, <1>2, MaxIn
<1>5. n \in 0 .. K /\ \A i \in 1 .. n : a[i].token = b[i].token
  BY <1>3, <1>4 DEF S
<1> QED BY <1>1, <1>5 DEF Agree

\* What a slot matches.
LEMMA MatchIs ==
    ASSUME NEW c, CacheShape(c), NEW s \in Slots, NEW prompt, IsSeq(prompt),
           NEW n, n = Matching(c, s, prompt)
    PROVE  /\ n \in 0 .. Len(c.slots[s].inputs) /\ n \in 0 .. Len(prompt)
           /\ Agree(c.slots[s].inputs, prompt, n)
<1>1. IsSeq(c.slots[s].inputs) /\ n = countCommonPrefix(c.slots[s].inputs, prompt)
  BY DEF CacheShape, SlotShape, Matching
<1> QED BY <1>1, CommonPrefix

\* A slot that shares a prefix with another.
LEMMA ForkedFound ==
    ASSUME NEW c, CacheShape(c), NEW src \in Slots, NEW s \in Slots, ~c.slots[s].inUse,
           NEW prompt, IsSeq(prompt), NEW n, n = Matching(c, src, prompt)
    PROVE  Found(c, Forked(c, src, s, n), s, prompt, n)
<1> DEFINE x  == c.slots[src].inputs
           c1 == Forked(c, src, s, n)
           y  == SubSeq(x, 1, n)
<1>1. n \in 0 .. Len(x) /\ n \in 0 .. Len(prompt) /\ Agree(x, prompt, n)
  BY MatchIs
<1>2. IsSeq(x) /\ IsSeq(prompt) /\ IsSeq(c.slots[s].inputs)
  BY DEF CacheShape, SlotShape
<1>3. Len(x) \in Nat /\ Len(prompt) \in Nat /\ n \in Nat /\ n \in Int /\ n <= Len(x)
      /\ Len(c.slots[s].inputs) \in Nat
  BY <1>1, <1>2 DEF IsSeq
<1>4. CacheShape(c1)
  BY <1>3, ForkedKeeps
<1>5. CASE n = 0
  <2>1. c1 = c
    BY <1>5 DEF Forked
  <2>2. n <= Len(c1.slots[s].inputs) /\ Agree(c1.slots[s].inputs, prompt, n)
    BY <1>3, <1>5, <2>1 DEF Agree
  <2> HIDE DEF c1
  <2> QED BY <1>1, <1>4, <2>1, <2>2 DEF Found, c1
<1>6. CASE src = s
  <2>1. c1 = c
    BY <1>6 DEF Forked
  <2> HIDE DEF c1
  <2> QED BY <1>1, <1>3, <1>4, <1>6, <2>1 DEF Found, c1
<1>7. CASE n # 0 /\ src # s
  <2>1. c1 = [c EXCEPT !.slots[s].inputs = y, !.kv = CopyPrefix(@, src, s, n)]
    BY <1>7 DEF Forked
  <2>2. /\ Len(y) = n /\ \A j \in 1 .. n : y[j] = x[j]
    <3> HIDE DEF x
    <3>1. /\ Len(y) = IF 1 <= n THEN n - 1 + 1 ELSE 0
          /\ \A j \in 1 .. n - 1 + 1 : y[j] = x[1 + j - 1]
      BY <1>2, <1>3 DEF IsSeq
    <3>2. \A j \in 1 .. n : j \in 1 .. n - 1 + 1 /\ 1 + j - 1 = j
      BY <1>3
    <3>3. \A j \in 1 .. n : y[j] = x[j]
      BY <3>1, <3>2
    <3> QED BY <1>3, <1>7, <3>1, <3>3
  <2> HIDE DEF c1, y
  <2>3. /\ c1.kv = CopyPrefix(c.kv, src, s, n) /\ c1.slots = [c.slots EXCEPT ![s].inputs = y]
    BY <2>1 DEF CacheShape
  <2>4. c1.slots[s].inputs = y /\ \A t \in Slots \ {s} : c1.slots[t].inputs = c.slots[t].inputs
    BY <2>3 DEF CacheShape, SlotShape
  <2>5. Agree(y, prompt, n)
    BY <1>1, <2>2 DEF Agree
  <2>6. Forks(c, c1, src, s, n)
    BY <1>3, <1>7, <2>3, <2>4 DEF Forks, y
  <2>7. n <= Len(y)
    BY <1>3, <2>2
  <2> QED BY <1>1, <1>4, <2>4, <2>5, <2>6, <2>7 DEF Found, c1
<1> QED BY <1>5, <1>6, <1>7

\* The slot that matches is one that was searched.
LEMMA SlotFound ==
    ASSUME NEW c, CacheShape(c), FreeSlots(c) # {}, NEW prompt, IsSeq(prompt),
           NEW found, found = IF c.multi THEN findBestCacheSlot(c, prompt)
                              ELSE findLongestCacheSlot(c, prompt)
    PROVE  Found(c, found.ic, found.slot, prompt, found.past)
<1>1. FreeSlots(c) \in SUBSET Slots /\ Slots # {} /\ Slots \in SUBSET Slots
  BY SlotCount DEF FreeSlots
<1>2. \A s \in FreeSlots(c) : s \in Slots /\ ~c.slots[s].inUse
  BY DEF FreeSlots
<1>3. ASSUME NEW s \in FreeSlots(c), found = [slot |-> s, past |-> Matching(c, s, prompt), ic |-> c]
      PROVE  Found(c, found.ic, found.slot, prompt, found.past)
  <2> DEFINE n == Matching(c, s, prompt)
  <2>1. found.slot = s /\ found.past = n /\ found.ic = c
    BY <1>3
  <2>2. s \in Slots /\ ~c.slots[s].inUse
    BY <1>2
  <2>3. n \in 0 .. Len(c.slots[s].inputs) /\ n \in 0 .. Len(prompt) /\ Agree(c.slots[s].inputs, prompt, n)
    BY <2>2, MatchIs
  <2> HIDE DEF n
  <2>4. n <= Len(c.slots[s].inputs)
    BY <2>2, <2>3 DEF CacheShape, SlotShape, IsSeq
  <2> QED BY <2>1, <2>2, <2>3, <2>4 DEF Found
<1>4. CASE c.multi
  <2> DEFINE best == LongestMatch(c, Slots, prompt)
             n    == Matching(c, best, prompt)
             old  == Oldest(c)
  <2>1. best \in Slots
    BY <1>1, LongestIn
  <2>2. old \in FreeSlots(c)
    BY OldestIsFree
  <2>3. found = BestOrFork(c, best, old, n)
    BY <1>4 DEF findBestCacheSlot
  <2> HIDE DEF best, old
  <2>4. CASE n = Len(c.slots[best].inputs) /\ best \in FreeSlots(c)
    <3>1. found = [slot |-> best, past |-> n, ic |-> c]
      BY <2>3, <2>4 DEF BestOrFork
    <3> QED BY <1>3, <2>4, <3>1
  <2>5. CASE ~(n = Len(c.slots[best].inputs) /\ best \in FreeSlots(c))
    <3>1. found = [slot |-> old, past |-> n, ic |-> Forked(c, best, old, n)]
      BY <2>3, <2>5 DEF BestOrFork
    <3>2. found.slot = old /\ found.past = n /\ found.ic = Forked(c, best, old, n)
      BY <3>1
    <3>3. Found(c, Forked(c, best, old, n), old, prompt, n)
      BY <1>2, <2>1, <2>2, ForkedFound
    <3> QED BY <3>2, <3>3
  <2> QED BY <2>4, <2>5
<1>5. CASE ~c.multi
  <2> DEFINE s == LongestMatch(c, FreeSlots(c), prompt)
  <2>1. s \in FreeSlots(c)
    BY <1>1, LongestIn
  <2>2. found = [slot |-> s, past |-> Matching(c, s, prompt), ic |-> c]
    BY <1>5 DEF findLongestCacheSlot
  <2> HIDE DEF s
  <2> QED BY <1>3, <2>1, <2>2
<1> QED BY <1>4, <1>5

\* LoadCacheSlot: something is left to compute, and what is not comes from a slot
\* that has the same tokens.
LEMMA LoadDoes ==
    ASSUME NEW c, CacheShape(c), FreeSlots(c) # {}, NEW prompt, IsSeq(prompt), Len(prompt) >= 1,
           NEW got, got = LoadCacheSlot(c, prompt)
    PROVE  \E c1, n, past : Loads(c, got, prompt, c1, n, past)
<1> DEFINE found == IF c.multi THEN findBestCacheSlot(c, prompt)
                    ELSE findLongestCacheSlot(c, prompt)
           s     == found.slot
           n     == found.past
           c1    == found.ic
           m     == IF n = Len(prompt) THEN n - 1 ELSE n
           past  == Resumable(c1, s, m)
           new   == [inputs |-> SubSeq(prompt, 1, past), inUse |-> TRUE]
<1>1. Found(c, c1, s, prompt, n)
  BY SlotFound
<1>2. got = LoadFrom(c1, s, prompt, past)
  BY DEF LoadCacheSlot, LoadFound
<1> HIDE DEF found
<1>3. Len(prompt) \in Nat /\ n \in Nat /\ n <= Len(prompt) /\ s \in Slots /\ CacheShape(c1)
  BY <1>1 DEF Found, IsSeq
<1>4. m \in 0 .. n /\ m < Len(prompt)
  BY <1>3
<1> HIDE DEF c1, s, n, m
<1>5. /\ past \in 0 .. n /\ past < Len(prompt)
      /\ past = 0 \/ CanResume(c1.kv, s, past)
  BY <1>3, <1>4 DEF Resumable
<1> HIDE DEF past
<1>6. /\ got.slot = s /\ got.inputs = SubSeq(prompt, past + 1, Len(prompt))
      /\ got.ic = [c1 EXCEPT !.slots[s] = new, !.used = MostRecent(@, s),
                             !.kv = Remove(@, s, past, MaxInt).kv]
  <2> DEFINE ic1 == [c1 EXCEPT !.slots[s] = new, !.used = MostRecent(@, s),
                               !.kv = Remove(@, s, past, MaxInt).kv]
             rest == SubSeq(prompt, past + 1, Len(prompt))
  <2>1. got = [slot |-> s, inputs |-> rest, ic |-> ic1]
    BY <1>2 DEF LoadFrom
  <2> HIDE DEF ic1, rest
  <2>2. got.slot = s /\ got.inputs = rest /\ got.ic = ic1
    BY <2>1
  <2> QED BY <2>2 DEF ic1, rest
<1> DEFINE y == SubSeq(prompt, 1, past)
<1>7. new.inputs = y
  OBVIOUS
<1> HIDE DEF new
<1>8. /\ got.ic.slots = [c1.slots EXCEPT ![s] = new] /\ got.ic.kv = Remove(c1.kv, s, past, MaxInt).kv
  BY <1>3, <1>6 DEF CacheShape
<1>9. got.ic.slots[s].inputs = y /\ \A t \in Slots \ {s} : got.ic.slots[t].inputs = c1.slots[t].inputs
  BY <1>3, <1>7, <1>8 DEF CacheShape
<1>10. LoadsAt(c1, got, s, past, prompt)
  BY <1>6, <1>8, <1>9 DEF LoadsAt
<1> HIDE DEF y
<1>11. Loads(c, got, prompt, c1, n, past)
  BY <1>1, <1>5, <1>6, <1>10 DEF Loads
<1> QED BY <1>11
\* Two steps that concern the same sequence.
LEMMA OnlyForTwice ==
    ASSUME NEW k1, NEW k2, NEW k3, NEW s, OnlyFor(k1, k2, s), OnlyFor(k2, k3, s)
    PROVE  OnlyFor(k1, k3, s)
<1>1. ASSUME NEW t \in Slots \ {s} PROVE SameFor(k1, k3, t)
  <2>1. SameFor(k1, k2, t) /\ SameFor(k2, k3, t)
    BY DEF OnlyFor
  <2> QED BY <2>1 DEF SameFor
<1> QED BY <1>1 DEF OnlyFor

\* Loading concerns the cells of the slot, which ends with what it shares with the
\* prompt.
LEMMA LoadCache ==
    ASSUME NEW c, CacheShape(c), KvOK(c.kv), SlotTypes(c), NEW prompt \in Seq(InputType),
           NEW got, NEW c1, NEW n, NEW past, Loads(c, got, prompt, c1, n, past)
    PROVE  /\ got.slot \in Slots /\ past \in Nat /\ past <= NumCtx /\ n \in Nat
           /\ KvOK(c1.kv) /\ OnlyFor(c.kv, c1.kv, got.slot) /\ SlotTypes(c1)
           /\ KvOK(got.ic.kv) /\ OnlyFor(c.kv, got.ic.kv, got.slot)
           /\ Dropped(c1.kv, got.ic.kv, got.slot, past)
           /\ SlotTypes(got.ic) /\ got.inputs \in Seq(InputType)
           /\ \A t \in Slots \ {got.slot} : got.ic.slots[t].inputs = c.slots[t].inputs
           /\ Len(got.ic.slots[got.slot].inputs) = past
           /\ Below(got.ic.kv, got.slot, past)
<1> DEFINE s  == got.slot
           x1 == c1.slots[s].inputs
<1>1. /\ s \in Slots /\ n \in 0 .. Len(prompt) /\ n <= Len(x1) /\ past \in 0 .. n /\ past < Len(prompt)
  BY DEF Loads, Found
<1>2. Len(prompt) \in Nat /\ n \in Nat /\ past \in Nat /\ past <= n /\ n <= Len(prompt) /\ NumCtx \in Nat
      /\ past <= Len(prompt) /\ past + 1 \in Nat /\ past + 1 >= 1 /\ 1 <= Len(prompt)
  BY <1>1, CacheConstants
<1>3. /\ KvOK(c1.kv) /\ OnlyFor(c.kv, c1.kv, s)
      /\ \A t \in Slots : c1.slots[t].inputs \in Seq(InputType) /\ Len(c1.slots[t].inputs) <= NumCtx
      /\ \A t \in Slots \ {s} : c1.slots[t].inputs = c.slots[t].inputs
  <2>1. CASE c1 = c
    <3>1. OnlyFor(c.kv, c.kv, s)
      BY DEF OnlyFor, SameFor
    <3> QED BY <2>1, <3>1 DEF SlotTypes
  <2>2. CASE \E src \in Slots : Forks(c, c1, src, s, n)
    <3>1. PICK src \in Slots : Forks(c, c1, src, s, n)
      BY <2>2
    <3>2. /\ src # s /\ n <= Len(c.slots[src].inputs) /\ c1.kv = CopyPrefix(c.kv, src, s, n)
          /\ c1.slots[s].inputs = SubSeq(c.slots[src].inputs, 1, n)
          /\ \A t \in Slots \ {s} : c1.slots[t].inputs = c.slots[t].inputs
      BY <3>1 DEF Forks
    <3>3. n \in Int
      BY <1>2
    <3>4. KvOK(c1.kv) /\ OnlyFor(c.kv, c1.kv, s)
      BY <1>1, <3>2, <3>3, CopyPrefixKeeps
    <3>5. c.slots[src].inputs \in Seq(InputType) /\ Len(c.slots[src].inputs) <= NumCtx
      BY DEF SlotTypes
    <3>6. c1.slots[s].inputs \in Seq(InputType) /\ Len(c1.slots[s].inputs) <= NumCtx
      <4> DEFINE y == c.slots[src].inputs
      <4>1. y \in Seq(InputType) /\ n <= Len(y) /\ Len(y) <= NumCtx
        BY <3>2, <3>5
      <4> HIDE DEF y
      <4>2. SubSeq(y, 1, n) \in Seq(InputType) /\ Len(SubSeq(y, 1, n)) <= NumCtx
        BY <1>2, <4>1
      <4> QED BY <3>2, <4>2 DEF y
    <3> QED BY <3>2, <3>4, <3>6 DEF SlotTypes
  <2> QED BY <2>1, <2>2 DEF Loads, Found
<1>4. past <= NumCtx
  <2>1. Len(x1) \in Nat /\ Len(x1) <= NumCtx
    BY <1>1, <1>3
  <2> HIDE DEF x1
  <2> QED BY <1>1, <1>2, <2>1
<1>5. /\ got.inputs = SubSeq(prompt, past + 1, Len(prompt))
      /\ got.ic.kv = Remove(c1.kv, s, past, MaxInt).kv
      /\ got.ic.slots[s].inputs = SubSeq(prompt, 1, past)
      /\ \A t \in Slots \ {s} : got.ic.slots[t].inputs = c1.slots[t].inputs
  BY DEF Loads, LoadsAt
<1>6. KvShape(c1.kv) /\ Ranges(c1.kv) /\ Once(c1.kv)
  BY <1>3 DEF KvOK
<1>7. KvShape(got.ic.kv) /\ Dropped(c1.kv, got.ic.kv, s, past) /\ Ranges(got.ic.kv)
  BY <1>1, <1>2, <1>5, <1>6, RemoveTail
<1>8. OnlyFor(c1.kv, got.ic.kv, s) /\ Once(got.ic.kv)
  BY <1>1, <1>2, <1>6, <1>7, DroppedOnly
<1>9. OnlyFor(c.kv, got.ic.kv, s)
  BY <1>3, <1>8, OnlyForTwice
<1>10. Below(got.ic.kv, s, past)
  <2>1. /\ CellsOf(got.ic.kv, s) = {e \in CellsOf(c1.kv, s) : c1.kv.cells[e].pos < past}
        /\ \A e \in DOMAIN c1.kv.cells : got.ic.kv.cells[e].pos = c1.kv.cells[e].pos
    BY <1>2, <1>6, <1>7, DroppedCells
  <2> QED BY <2>1 DEF Below, CellsOf
<1>11. got.inputs \in Seq(InputType)
  <2>1. SubSeq(prompt, past + 1, Len(prompt)) \in Seq(InputType)
    BY <1>2, PartTyped
  <2> QED BY <1>5, <2>1
<1>12. got.ic.slots[s].inputs \in Seq(InputType) /\ Len(got.ic.slots[s].inputs) = past
  <2>1. /\ SubSeq(prompt, 1, past) \in Seq(InputType)
        /\ Len(SubSeq(prompt, 1, past)) = IF 1 <= past THEN past - 1 + 1 ELSE 0
    BY <1>2, PartTyped
  <2> QED BY <1>2, <1>5, <2>1
<1>13. SlotTypes(got.ic) /\ SlotTypes(c1)
  BY <1>3, <1>4, <1>5, <1>12 DEF SlotTypes
<1>14. \A t \in Slots \ {s} : got.ic.slots[t].inputs = c.slots[t].inputs
  BY <1>3, <1>5
<1> QED BY <1>1, <1>2, <1>3, <1>4, <1>7, <1>8, <1>9, <1>10, <1>11, <1>12, <1>13, <1>14 DEF KvOK

-----------------------------------------------------------------------------
(* The invariant *)

CacheTypes(rq, c) == KvOK(c.kv) /\ ReqTypes(rq) /\ SlotTypes(c)

\* The cells of sequence i end where the inputs end that its slot records and
\* that a batch has taken, which is within the context.
SeqFits(rq, sq, c, i) ==
    LET s == rq[sq[i]].slot
        n == Len(c.slots[s].inputs) + Len(rq[sq[i]].pending)
    IN  n <= NumCtx /\ Below(c.kv, s, n)

NothingTaken(rq) ==
    \A q \in Requests : rq[q].pc \in {"acquire", "load"} => Len(rq[q].pending) = 0

\* What is taken of a sequence is in a batch that is ready.
PendingReady(rq, sq, fl) ==
    \A i \in Occupied(sq) : Len(rq[sq[i]].pending) > 0 =>
        \E k \in DOMAIN fl : fl[k].stage = "ready" /\ fl[k].seqs[i] = sq[i]

\* A batch yields one token for a sequence.
NextOnce(b) ==
    \A i, j \in Idx : b.next[i] # None /\ b.next[j] # None /\ b.next[i].of = b.next[j].of => i = j

\* It is the sequence that the batch was built for.
NextOwn(b) ==
    \A i \in Idx : b.next[i] # None => b.next[i] = Placeholder(b.seqs[i], b.next[i].nth)

Batches(fl) ==
    \A k \in DOMAIN fl : Len(fl[k].entries) \in 1 .. BatchSize /\ NextOnce(fl[k]) /\ NextOwn(fl[k])

CacheInv ==
    /\ CacheTypes(req, ic)
    /\ \A i \in Occupied(seqs) : SeqFits(req, seqs, ic, i)
    /\ NothingTaken(req)
    /\ PendingReady(req, seqs, inflight)
    /\ Batches(inflight)
    /\ panic # "kv full"

\* A step that touches neither the cache nor a sequence.
LEMMA QuietCache ==
    ASSUME CacheInv, UNCHANGED <<ic, inflight, seqs, panic>>, ReqTypes(req'), NothingTaken(req'),
           \A i \in Occupied(seqs) : /\ req'[seqs[i]].slot = req[seqs[i]].slot
                                     /\ req'[seqs[i]].pending = req[seqs[i]].pending
    PROVE  CacheInv'
<1>1. \A i \in Occupied(seqs') : SeqFits(req', seqs', ic', i)
  BY DEF CacheInv, SeqFits
<1>2. PendingReady(req', seqs', inflight')
  BY DEF CacheInv, PendingReady
<1> QED BY <1>1, <1>2 DEF CacheInv, CacheTypes

\* A new cache is empty.
LEMMA NewCacheOK ==
    ASSUME NEW window \in Windows, NEW kv, kv = NewCache(window)
    PROVE  KvOK(kv) /\ \A s \in Slots : CellsOf(kv, s) = {}
<1> DEFINE D == 0 .. CacheSize(window) - 1
<1>1. /\ kv.window = window /\ kv.memory = SwaMemory(window)
      /\ kv.cells = [c \in D |-> [pos |-> 0, sequences |-> {}]]
      /\ kv.cellRanges = [s \in Slots |-> None]
      /\ kv.data = [c \in D |-> [token |-> 0, pos |-> 0]]
      /\ DOMAIN kv = {"window", "memory", "cells", "cellRanges", "data"}
  BY DEF NewCache
<1> HIDE DEF D
<1>2. 0 \in 0 .. NumCtx - 1
  BY CacheConstants
<1>3. /\ DOMAIN kv.cells = D /\ DOMAIN kv.data = D /\ DOMAIN kv.cellRanges = Slots
      /\ \A c \in D : kv.cells[c] = [pos |-> 0, sequences |-> {}] /\ kv.data[c] = [token |-> 0, pos |-> 0]
      /\ \A s \in Slots : kv.cellRanges[s] = None
  BY <1>1
<1>4. \A c \in D : /\ DOMAIN kv.cells[c] = {"pos", "sequences"} /\ kv.cells[c].pos = 0
                   /\ kv.cells[c].sequences = {} /\ DOMAIN kv.data[c] = {"token", "pos"}
  BY <1>3
<1>5. KvShape(kv)
  BY <1>1, <1>2, <1>3, <1>4 DEF KvShape, D
<1>6. \A s \in Slots : CellsOf(kv, s) = {}
  BY <1>3, <1>4 DEF CellsOf
<1>7. Ranges(kv)
  BY <1>3, <1>6, RangeOfNone DEF Ranges
<1> QED BY <1>5, <1>6, <1>7 DEF KvOK, Once

\* In the beginning nothing is cached.
LEMMA CacheInit == Init => CacheInv
<1> SUFFICES ASSUME Init PROVE CacheInv
  OBVIOUS
<1>1. PICK window \in Windows, multi \in MultiUser : ic = NewInputCache(window, multi)
  BY DEF Init
<1>2. ic.kv = NewCache(window) /\ ic.slots = [s \in Slots |-> [inputs |-> <<>>, inUse |-> FALSE]]
  BY <1>1 DEF NewInputCache
<1>3. KvOK(ic.kv)
  BY <1>2, NewCacheOK
<1>4. NumCtx \in Nat /\ 0 <= NumCtx /\ 0 \in 0 .. NumCtx - 1
  BY CacheConstants
<1>5. SlotTypes(ic)
  <2>1. \A s \in Slots : ic.slots[s].inputs = <<>>
    BY <1>2
  <2>2. <<>> \in Seq(InputType) /\ Len(<<>>) <= NumCtx
    BY <1>4
  <2> QED BY <2>1, <2>2 DEF SlotTypes
<1>6. \A q \in Requests : /\ req[q].pc = "new" /\ req[q].inputs = <<>> /\ req[q].pending = <<>>
                          /\ req[q].slot = None /\ req[q].keep = 0 /\ req[q].reason = None
  BY DEF Init, Blank
<1>7. ReqTypes(req) /\ NothingTaken(req)
  <2>1. <<>> \in Seq(InputType)
    OBVIOUS
  <2> QED BY <1>4, <1>6, <2>1 DEF ReqTypes, NothingTaken
<1>8. Occupied(seqs) = {} /\ DOMAIN inflight = {} /\ panic # "kv full"
  BY DEF Init, Occupied
<1> QED BY <1>3, <1>5, <1>7, <1>8 DEF CacheInv, CacheTypes, PendingReady, Batches
-----------------------------------------------------------------------------
(* Handlers *)

\* NewSequence: what is kept of a prompt is less than the context.
LEMMA KeepTyped ==
    ASSUME NEW shape \in Shapes
    PROVE  Keep(shape) \in 0 .. NumCtx - 1 /\ Keep(shape) <= NumCtx - 1
<1> DEFINE a == NumCtx - 1
           b == IF shape.keep < 0 THEN Len(shape.prompt) ELSE shape.keep
<1>1. shape.prompt \in Seq(Nat \ {0}) /\ shape.keep \in Int
  BY RunnerConstants
<1>2. a \in Nat
  BY CacheConstants
<1>3. b \in Nat
  <2>1. Len(shape.prompt) \in Nat
    BY <1>1
  <2> QED BY <1>1, <2>1
<1> HIDE DEF a, b
<1>4. Keep(shape) = IF a <= b THEN a ELSE b
  BY <1>2, <1>3, LessOfTwo DEF Keep, a, b
<1>5. Keep(shape) \in 0 .. a /\ Keep(shape) <= a
  BY <1>2, <1>3, <1>4
<1> QED BY <1>5 DEF a

\* What is left of a prompt is tokens.
LEMMA TruncatedTyped ==
    ASSUME NEW shape \in Shapes
    PROVE  Truncated(shape) \in Seq(Nat \ {0})
<1> DEFINE n == Len(shape.prompt)
           K == Keep(shape)
           p == shape.prompt
<1>1. p \in Seq(Nat \ {0}) /\ n \in Nat /\ NumCtx \in Nat /\ K \in 0 .. NumCtx - 1
  BY RunnerConstants, CacheConstants, KeepTyped
<1> HIDE DEF K, p
<1>2. K \in Nat /\ K < NumCtx
  BY <1>1
<1>3. CASE n <= NumCtx
  BY <1>1, <1>3 DEF Truncated, p
<1>4. CASE n > NumCtx
  <2>0. Len(p) = n /\ K <= Len(p) /\ K + n - NumCtx + 1 \in Nat /\ K + n - NumCtx + 1 >= 1 /\ 1 \in Nat /\ 1 >= 1
    BY <1>1, <1>2, <1>4 DEF p
  <2>1. SubSeq(p, 1, K) \in Seq(Nat \ {0})
    BY <1>1, <1>2, <2>0, PartTyped
  <2>2. SubSeq(p, K + n - NumCtx + 1, Len(p)) \in Seq(Nat \ {0})
    BY <1>1, <1>2, <2>0, PartTyped
  <2>3. Truncated(shape) = SubSeq(p, 1, K) \o SubSeq(p, K + n - NumCtx + 1, n)
    <3>1. ~(n <= NumCtx)
      BY <1>1, <1>4
    <3> QED BY <3>1 DEF Truncated, K, p
  <2> QED BY <2>0, <2>1, <2>2, <2>3, JoinTyped
<1> QED BY <1>1, <1>3, <1>4

\* They become inputs.
LEMMA PromptTyped ==
    ASSUME NEW s \in Seq(Nat \ {0}), NEW f, f = [i \in DOMAIN s |-> Input(s[i])]
    PROVE  f \in Seq(InputType) /\ \A j \in DOMAIN f : f[j].token # 0
<1>1. DOMAIN s = 1 .. Len(s) /\ Len(s) \in Nat /\ \A i \in 1 .. Len(s) : s[i] \in Nat \ {0}
  OBVIOUS
<1>2. \A i \in 1 .. Len(s) : Input(s[i]) \in InputType
  BY <1>1, InputTyped
<1>3. f \in Seq(InputType) /\ DOMAIN f = 1 .. Len(s)
  BY <1>1, <1>2
<1>4. ASSUME NEW j \in DOMAIN f PROVE f[j].token # 0
  <2>1. f[j] = Input(s[j]) /\ s[j] \in Nat \ {0}
    BY <1>1, <1>3
  <2> QED BY <2>1 DEF Input
<1> QED BY <1>3, <1>4

\* What Submit makes of a request.
Submitted(r, q, v, shape) ==
    \/ v.pc = "done" /\ v.reason = "error" /\ v.inputs = r[q].inputs /\ v.pending = r[q].pending
       /\ v.slot = r[q].slot /\ v.keep = r[q].keep /\ v.shift = r[q].shift
    \/ /\ v.pc = "acquire" /\ v.reason = None /\ v.pending = <<>> /\ v.slot = None
       /\ v.keep = Keep(shape) /\ v.shift = shape.shift
       /\ v.inputs = [i \in DOMAIN Truncated(shape) |-> Input(Truncated(shape)[i])]

\* The step of Submit.
LEMMA SubmitStep ==
    ASSUME SlotInv, NEW q \in Requests, Submit(q)
    PROVE  /\ req[q].pc = "new" /\ UNCHANGED <<seqs, ic, inflight, prevNil, nextSeq, panic, unresolved>>
           /\ \A x \in Requests \ {q} : req'[x] = req[x]
           /\ \E shape \in Shapes : Submitted(req, q, req'[q], shape)
<1>1. req[q].pc = "new" /\ UNCHANGED <<seqs, ic, inflight, prevNil, nextSeq, panic, unresolved>>
  BY DEF Submit
<1>2. PICK shape \in Shapes :
        \/ req' = [req EXCEPT ![q].pc = "done", ![q].reason = "error"]
        \/ req' = [req EXCEPT ![q] =
              [Blank EXCEPT !.pc = "acquire",
                            !.inputs = [i \in DOMAIN Truncated(shape) |-> Input(Truncated(shape)[i])],
                            !.limit = shape.limit, !.keep = Keep(shape), !.shift = shape.shift]]
  BY DEF Submit
<1>3. /\ DOMAIN req = Requests
      /\ DOMAIN req[q] = {"pc", "inputs", "pending", "slot", "iBatch", "predicted", "held",
                          "quit", "limit", "keep", "shift", "reason"}
  BY DEF SlotInv, Acc, ReqShape
<1> DEFINE f == [i \in DOMAIN Truncated(shape) |-> Input(Truncated(shape)[i])]
<1> HIDE DEF f
<1>4. CASE req' = [req EXCEPT ![q].pc = "done", ![q].reason = "error"]
  <2>1. /\ \A x \in Requests \ {q} : req'[x] = req[x]
        /\ req'[q].pc = "done" /\ req'[q].reason = "error" /\ req'[q].inputs = req[q].inputs
        /\ req'[q].pending = req[q].pending /\ req'[q].slot = req[q].slot
        /\ req'[q].keep = req[q].keep /\ req'[q].shift = req[q].shift
    BY <1>3, <1>4
  <2>2. Submitted(req, q, req'[q], shape)
    BY <2>1 DEF Submitted
  <2> QED BY <1>1, <2>1, <2>2
<1>5. CASE req' = [req EXCEPT ![q] = [Blank EXCEPT !.pc = "acquire", !.inputs = f,
                      !.limit = shape.limit, !.keep = Keep(shape), !.shift = shape.shift]]
  <2>1. /\ \A x \in Requests \ {q} : req'[x] = req[x]
        /\ req'[q] = [Blank EXCEPT !.pc = "acquire", !.inputs = f,
                      !.limit = shape.limit, !.keep = Keep(shape), !.shift = shape.shift]
    BY <1>3, <1>5
  <2>2. /\ req'[q].pc = "acquire" /\ req'[q].reason = None /\ req'[q].pending = <<>>
        /\ req'[q].slot = None /\ req'[q].keep = Keep(shape) /\ req'[q].shift = shape.shift
        /\ req'[q].inputs = f
    BY <2>1 DEF Blank
  <2>3. Submitted(req, q, req'[q], shape)
    BY <2>2 DEF Submitted, f
  <2> QED BY <1>1, <2>1, <2>3
<1> QED BY <1>2, <1>4, <1>5 DEF f

\* A request that is accepted has inputs and nothing in a batch.
LEMMA SubmitCache == ASSUME SlotInv, CacheInv, NEW q \in Requests, Submit(q) PROVE CacheInv'
<1>1. /\ req[q].pc = "new" /\ UNCHANGED <<seqs, ic, inflight, panic>>
      /\ \A x \in Requests \ {q} : req'[x] = req[x]
  BY SubmitStep
<1>2. PICK shape \in Shapes : Submitted(req, q, req'[q], shape)
  BY SubmitStep
<1> DEFINE T == Truncated(shape)
           f == [i \in DOMAIN T |-> Input(T[i])]
<1>3. f \in Seq(InputType)
  <2>1. T \in Seq(Nat \ {0})
    BY TruncatedTyped
  <2> HIDE DEF T
  <2> QED BY <2>1, PromptTyped
<1>4. Keep(shape) \in 0 .. NumCtx - 1 /\ <<>> \in Seq(InputType) /\ Len(<<>>) = 0
  BY KeepTyped
<1>5. ReqTypes(req) /\ NothingTaken(req)
  BY DEF CacheInv, CacheTypes
<1> HIDE DEF f
<1>6. /\ req'[q].pc \in {"new", "acquire", "load", "stream", "done"}
      /\ req'[q].inputs \in Seq(InputType) /\ req'[q].pending \in Seq(InputType)
      /\ req'[q].slot \in Slots \cup {None} /\ req'[q].keep \in 0 .. NumCtx - 1
      /\ req'[q].reason \in {None, "error", "gone", "length", "stop"}
      /\ req'[q].pc \in {"acquire", "load"} => Len(req'[q].pending) = 0
  BY <1>2, <1>3, <1>4, <1>5 DEF Submitted, ReqTypes, f
<1>7. ReqTypes(req') /\ NothingTaken(req')
  BY <1>1, <1>5, <1>6 DEF ReqTypes, NothingTaken
<1>8. \A i \in Occupied(seqs) : req'[seqs[i]] = req[seqs[i]]
  BY <1>1 DEF SlotInv, Acc, Owners, Occupied
<1> QED BY <1>1, <1>7, <1>8, QuietCache

\* Acquire.
LEMMA AcquireCache == ASSUME SlotInv, CacheInv, NEW q \in Requests, Acquire(q) PROVE CacheInv'
<1>1. /\ req[q].pc = "acquire" /\ req' = [req EXCEPT ![q].pc = "load"]
      /\ UNCHANGED <<seqs, ic, inflight, panic>>
  BY DEF Acquire
<1>2. \A x \in Requests : /\ SameBut(req[x], [req'[x] EXCEPT !.pc = req[x].pc])
                          /\ req'[x].pc = IF x = q THEN "load" ELSE req[x].pc
                          /\ req'[x].inputs = req[x].inputs /\ req'[x].pending = req[x].pending
                          /\ req'[x].slot = req[x].slot /\ req'[x].keep = req[x].keep
                          /\ req'[x].reason = req[x].reason
  BY <1>1 DEF SlotInv, Acc, ReqShape, SameBut
<1>3. ReqTypes(req) /\ NothingTaken(req)
  BY DEF CacheInv, CacheTypes
<1>4. ReqTypes(req') /\ NothingTaken(req')
  BY <1>1, <1>2, <1>3 DEF ReqTypes, NothingTaken
<1>5. \A i \in Occupied(seqs) : seqs[i] \in Requests
  BY DEF SlotInv, Acc, Owners, Occupied
<1> QED BY <1>1, <1>2, <1>4, <1>5, QuietCache

\* A client that goes away.
LEMMA GoneCache == ASSUME SlotInv, CacheInv, NEW q \in Requests, ClientGone(q) PROVE CacheInv'
<1>1. UNCHANGED <<seqs, ic, inflight, panic>>
  BY DEF ClientGone
<1>2. \A i \in Occupied(seqs) : seqs[i] \in Requests /\ req[seqs[i]].pc = "stream"
  BY DEF SlotInv, Acc, Owners, Occupied
<1>3. ReqTypes(req) /\ NothingTaken(req)
  BY DEF CacheInv, CacheTypes
<1>4. CASE req[q].pc = "acquire"
  <2> DEFINE new == [Blank EXCEPT !.pc = "done", !.reason = "gone"]
  <2>1. req' = [req EXCEPT ![q] = new]
    BY <1>4 DEF ClientGone
  <2>2. /\ new.pc = "done" /\ new.inputs = <<>> /\ new.pending = <<>> /\ new.slot = None
        /\ new.keep = 0 /\ new.reason = "gone"
    BY DEF Blank
  <2> HIDE DEF new
  <2>3. \A x \in Requests : req'[x] = IF x = q THEN new ELSE req[x]
    BY <2>1 DEF SlotInv, Acc, ReqShape
  <2>4. 0 \in 0 .. NumCtx - 1 /\ <<>> \in Seq(InputType)
    BY CacheConstants
  <2>5. ReqTypes(req') /\ NothingTaken(req')
    BY <1>3, <2>2, <2>3, <2>4 DEF ReqTypes, NothingTaken
  <2>6. \A i \in Occupied(seqs) : req'[seqs[i]] = req[seqs[i]]
    BY <1>2, <1>4, <2>3
  <2> QED BY <1>1, <2>5, <2>6, QuietCache
<1>5. CASE req[q].pc # "acquire"
  <2>1. req' = [req EXCEPT ![q].quit = TRUE]
    BY <1>5 DEF ClientGone
  <2>2. \A x \in Requests : /\ req'[x].pc = req[x].pc
                            /\ req'[x].inputs = req[x].inputs /\ req'[x].pending = req[x].pending
                            /\ req'[x].slot = req[x].slot /\ req'[x].keep = req[x].keep
                            /\ req'[x].reason = req[x].reason
    BY <2>1 DEF SlotInv, Acc, ReqShape
  <2>3. ReqTypes(req') /\ NothingTaken(req')
    BY <1>3, <2>2 DEF ReqTypes, NothingTaken
  <2> QED BY <1>1, <1>2, <2>2, <2>3, QuietCache
<1> QED BY <1>4, <1>5

\* What the critical section of completion does.
LoadStepOf(q, at, got, c1, n, past) ==
    /\ at \in Idx /\ seqs[at] = None /\ req[q].pc = "load" /\ Len(req[q].inputs) >= 1
    /\ Loads(ic, got, req[q].inputs, c1, n, past)
    /\ ic' = got.ic /\ panic' = panic /\ UNCHANGED <<inflight, prevNil, nextSeq, unresolved>>
    /\ seqs' = [seqs EXCEPT ![at] = q]
    /\ \A x \in Requests \ {q} : req'[x] = req[x]
    /\ req'[q].pc = "stream" /\ req'[q].slot = got.slot /\ req'[q].inputs = got.inputs
    /\ req'[q].pending = req[q].pending /\ req'[q].keep = req[q].keep
    /\ req'[q].reason = req[q].reason /\ req'[q].shift = req[q].shift

\* It does so whenever it is entered.
LEMMA LoadStepIs ==
    ASSUME SlotInv, LogitsInv, NEW q \in Requests, Load(q)
    PROVE  \E at, got, c1, n, past : LoadStepOf(q, at, got, c1, n, past)
<1> DEFINE free == {i \in Idx : seqs[i] = None}
           got  == LoadCacheSlot(ic, req[q].inputs)
           at   == Min(free)
<1>1. req[q].pc = "load" /\ UNCHANGED <<inflight, prevNil, nextSeq, unresolved>>
  BY DEF Load
<1>2. free # {} /\ FreeSlots(ic) # {}
  BY <1>1, RoomForLoad DEF SlotInv
<1>3. /\ req' = [req EXCEPT ![q].pc = "stream", ![q].slot = got.slot, ![q].inputs = got.inputs]
      /\ seqs' = [seqs EXCEPT ![at] = q]
      /\ ic' = got.ic /\ panic' = panic
  BY <1>2 DEF Load
<1>4. at \in Idx /\ seqs[at] = None
  <2>1. free \in SUBSET Nat
    BY SlotCount DEF Idx
  <2> HIDE DEF free
  <2>2. at \in free
    BY <1>2, <2>1, MinIn
  <2> QED BY <2>2 DEF free
<1>5. IsSeq(req[q].inputs) /\ Len(req[q].inputs) >= 1 /\ CacheShape(ic)
  BY <1>1 DEF SlotInv, Acc, ReqShape, LogitsInv, InputsOK
<1>6. PICK c1, n, past : Loads(ic, got, req[q].inputs, c1, n, past)
  BY <1>2, <1>5, LoadDoes
<1> HIDE DEF free, got, at
<1>7. /\ \A x \in Requests \ {q} : req'[x] = req[x]
      /\ req'[q].pc = "stream" /\ req'[q].slot = got.slot /\ req'[q].inputs = got.inputs
      /\ req'[q].pending = req[q].pending /\ req'[q].keep = req[q].keep
      /\ req'[q].reason = req[q].reason /\ req'[q].shift = req[q].shift
  BY <1>3 DEF SlotInv, Acc, ReqShape
<1>8. LoadStepOf(q, at, got, c1, n, past)
  BY <1>1, <1>3, <1>4, <1>5, <1>6, <1>7 DEF LoadStepOf
<1> QED BY <1>8

\* The slot of the new sequence has what the prompt shares with it.
LEMMA LoadedCache ==
    ASSUME SlotInv, LogitsInv, CacheInv, NEW q \in Requests, Load(q) PROVE CacheInv'
<1>1. PICK at, got, c1, n, past : LoadStepOf(q, at, got, c1, n, past)
  BY LoadStepIs
<1>2. /\ at \in Idx /\ seqs[at] = None /\ req[q].pc = "load"
      /\ Loads(ic, got, req[q].inputs, c1, n, past)
      /\ ic' = got.ic /\ panic' = panic /\ inflight' = inflight
      /\ seqs' = [seqs EXCEPT ![at] = q]
      /\ \A x \in Requests \ {q} : req'[x] = req[x]
      /\ req'[q].pc = "stream" /\ req'[q].slot = got.slot /\ req'[q].inputs = got.inputs
      /\ req'[q].pending = req[q].pending /\ req'[q].keep = req[q].keep
      /\ req'[q].reason = req[q].reason
  BY <1>1 DEF LoadStepOf
<1>3. /\ KvOK(ic.kv) /\ SlotTypes(ic) /\ CacheShape(ic) /\ ReqTypes(req) /\ NothingTaken(req)
      /\ req[q].inputs \in Seq(InputType) /\ req[q].pending \in Seq(InputType)
  BY DEF CacheInv, CacheTypes, SlotInv, Acc, ReqTypes
<1>4. /\ got.slot \in Slots /\ past \in Nat /\ past <= NumCtx
      /\ KvOK(got.ic.kv) /\ OnlyFor(ic.kv, got.ic.kv, got.slot)
      /\ SlotTypes(got.ic) /\ got.inputs \in Seq(InputType)
      /\ \A t \in Slots \ {got.slot} : got.ic.slots[t].inputs = ic.slots[t].inputs
      /\ Len(got.ic.slots[got.slot].inputs) = past
      /\ Below(got.ic.kv, got.slot, past)
  BY <1>2, <1>3, LoadCache
<1>5. ReqTypes(req') /\ NothingTaken(req')
  BY <1>2, <1>3, <1>4 DEF ReqTypes, NothingTaken
<1>6. ~ic.slots[got.slot].inUse
  BY <1>2 DEF Loads, Found
<1>7. /\ seqs'[at] = q /\ \A i \in Occupied(seqs') : i = at \/ (i \in Occupied(seqs) /\ seqs'[i] = seqs[i])
  BY <1>2 DEF SlotInv, Acc, Owners, Occupied
<1>8. \A i \in Occupied(seqs) : /\ seqs[i] \in Requests \ {q} /\ req'[seqs[i]] = req[seqs[i]]
                                /\ req[seqs[i]].slot \in Slots \ {got.slot}
  <2> TAKE i \in Occupied(seqs)
  <2>1. seqs[i] \in Requests /\ req[seqs[i]].pc = "stream" /\ req[seqs[i]].slot \in Slots
    BY DEF SlotInv, Acc, Owners, Occupied
  <2>2. ic.slots[req[seqs[i]].slot].inUse
    BY <2>1 DEF SlotInv, Acc, InUse
  <2> QED BY <1>2, <1>6, <2>1, <2>2
<1>9. Len(req[q].pending) = 0
  BY <1>2, <1>3 DEF NothingTaken
<1>10. ASSUME NEW i \in Occupied(seqs') PROVE SeqFits(req', seqs', ic', i)
  <2>1. CASE i = at
    <3>1. past + 0 = past
      BY <1>4
    <3>2. seqs'[i] = q /\ req'[seqs'[i]].slot = got.slot /\ Len(req'[seqs'[i]].pending) = 0
      BY <1>2, <1>7, <1>9, <2>1
    <3>3. Len(ic'.slots[got.slot].inputs) = past /\ Below(ic'.kv, got.slot, past)
      BY <1>2, <1>4
    <3> QED BY <1>4, <3>1, <3>2, <3>3 DEF SeqFits
  <2>2. CASE i \in Occupied(seqs) /\ seqs'[i] = seqs[i]
    <3> DEFINE s == req[seqs[i]].slot
    <3>1. s \in Slots \ {got.slot} /\ req'[seqs'[i]] = req[seqs[i]]
      BY <1>8, <2>2
    <3>2. SameFor(ic.kv, ic'.kv, s) /\ ic'.slots[s].inputs = ic.slots[s].inputs
      BY <1>2, <1>4, <3>1 DEF OnlyFor
    <3>3. SeqFits(req, seqs, ic, i)
      BY <2>2 DEF CacheInv
    <3> QED BY <3>1, <3>2, <3>3, SameBelow DEF SeqFits
  <2> QED BY <1>7, <2>1, <2>2
<1>11. PendingReady(req', seqs', inflight')
  <2> SUFFICES ASSUME NEW i \in Occupied(seqs'), Len(req'[seqs'[i]].pending) > 0
               PROVE  \E k \in DOMAIN inflight' : inflight'[k].stage = "ready" /\ inflight'[k].seqs[i] = seqs'[i]
    BY DEF PendingReady
  <2>1. i # at
    BY <1>2, <1>7, <1>9
  <2>2. i \in Occupied(seqs) /\ seqs'[i] = seqs[i] /\ req'[seqs[i]] = req[seqs[i]]
    BY <1>7, <1>8, <2>1
  <2> QED BY <1>2, <2>2 DEF CacheInv, PendingReady
<1> QED BY <1>2, <1>4, <1>5, <1>10, <1>11 DEF CacheInv, CacheTypes
-----------------------------------------------------------------------------
(* forwardBatch *)

\* The length of inputs is a number.
LEMMA LengthNat ==
    ASSUME NEW S, NEW s \in Seq(S)
    PROVE  Len(s) \in Nat /\ DOMAIN s = 1 .. Len(s)
OBVIOUS

\* The entries of the batch go on where the cells of their sequences end.
LEMMA EntriesFit ==
    ASSUME NEW w, VisitInv(w), NEW U, VisitCache(w, U), Len(w.entries) >= 1
    PROVE  BatchFits(w.ic.kv, w.entries)
<1> DEFINE en == w.entries
           kv == w.ic.kv
<1>1. IsSeq(en) /\ Owners(w.req, w.seqs) /\ SlotTypes(w.ic) /\ ReqTypes(w.req)
  BY DEF VisitInv, Acc, VisitCache
<1>2. Len(en) \in 1 .. BatchSize
  <2>1. Len(en) \in Nat /\ Len(en) <= BatchSize /\ BatchSize \in Nat /\ DOMAIN en = 1 .. Len(en)
    BY <1>1, CacheConstants DEF IsSeq, VisitCache
  <2> QED BY <2>1
<1>3. \A e \in DOMAIN en : \E i \in Occupied(w.seqs) : EntryOf(w, i, en[e])
  BY DEF VisitCache
<1>4. ASSUME NEW e \in DOMAIN en, NEW i \in Occupied(w.seqs), EntryOf(w, i, en[e])
      PROVE  /\ en[e].slot = w.req[w.seqs[i]].slot /\ en[e].q = w.seqs[i] /\ en[e].slot \in Slots
             /\ en[e].pos \in 0 .. NumCtx - 1
             /\ \A c \in CellsOf(kv, en[e].slot) : kv.cells[c].pos < en[e].pos
  <2> DEFINE q == w.seqs[i]
             s == w.req[q].slot
             x == w.ic.slots[s].inputs
             m == Len(w.req[q].pending)
  <2>1. s \in Slots /\ q \in Requests
    BY <1>1 DEF Owners, Occupied
  <2>2. PICK j \in 1 .. m : en[e].pos = Len(x) + j - 1
    BY <1>4 DEF EntryOf
  <2>3. en[e].slot = s /\ en[e].q = q
    BY <1>4 DEF EntryOf
  <2>4. HasRoom(w, i)
    BY DEF VisitCache
  <2>5. Below(kv, s, Len(x)) /\ Len(x) + m <= NumCtx
    BY <2>4 DEF HasRoom
  <2>6. Len(x) \in Nat /\ m \in Nat
    <3>1. x \in Seq(InputType) /\ w.req[q].pending \in Seq(InputType)
      BY <1>1, <2>1 DEF SlotTypes, ReqTypes
    <3> QED BY <3>1, LengthNat
  <2>7. KvShape(kv)
    BY DEF VisitCache, KvOK
  <2> HIDE DEF x, m
  <2>8. en[e].pos \in 0 .. NumCtx - 1 /\ en[e].pos >= Len(x) /\ en[e].pos \in Nat
    BY <2>2, <2>5, <2>6, CacheConstants
  <2>9. ASSUME NEW c \in CellsOf(kv, s) PROVE kv.cells[c].pos < en[e].pos
    <3>1. kv.cells[c].pos < Len(x)
      BY <2>5 DEF Below
    <3>2. kv.cells[c].pos \in Nat
      BY <2>7, CellsAreNumbers DEF CellsOf
    <3> QED BY <2>6, <2>8, <3>1, <3>2
  <2> QED BY <2>1, <2>3, <2>8, <2>9
<1>5. ASSUME NEW e \in DOMAIN en, NEW f \in DOMAIN en, en[e].slot = en[f].slot, en[e].pos = en[f].pos
      PROVE  e = f
  <2>1. PICK i \in Occupied(w.seqs) : EntryOf(w, i, en[e])
    BY <1>3
  <2>2. PICK j \in Occupied(w.seqs) : EntryOf(w, j, en[f])
    BY <1>3
  <2>3. w.req[w.seqs[i]].slot = w.req[w.seqs[j]].slot
    BY <1>4, <1>5, <2>1, <2>2
  <2>4. i = j
    BY <1>1, <2>3 DEF Owners
  <2>5. en[e].q = en[f].q
    BY <1>4, <2>1, <2>2, <2>4
  <2> QED BY <1>5, <2>5 DEF VisitCache
<1>6. \A e \in DOMAIN en : /\ en[e].slot \in Slots /\ en[e].pos \in 0 .. NumCtx - 1
                           /\ \A c \in CellsOf(kv, en[e].slot) : kv.cells[c].pos < en[e].pos
  BY <1>3, <1>4
<1> HIDE DEF en, kv
<1>7. BatchFits(kv, en)
  BY <1>1, <1>2, <1>5, <1>6 DEF BatchFits
<1> QED BY <1>7 DEF en, kv

\* Requests without a sequence have nothing in the batch, which is empty or not.
Untouched(w) == NothingTaken(w.req) /\ (w.entries = <<>> \/ Len(w.entries) >= 1)

\* A round keeps it so.
LEMMA RoundTaken ==
    ASSUME NEW w, VisitInv(w), NEW v, NEW i \in Idx, Round(w, v, i), Untouched(w)
    PROVE  Untouched(v)
<1> DEFINE q == w.seqs[i]
<1>1. i \in Occupied(w.seqs) => q \in Requests /\ w.req[q].pc = "stream"
  BY DEF VisitInv, Acc, Owners, Occupied
<1>2. CASE Stays(w, v)
  BY <1>2 DEF Stays, Untouched
<1>3. ASSUME i \in Occupied(w.seqs), v.req[q].pc \in {"stream", "done"},
             \A x \in Requests \ {q} : v.req[x] = w.req[x],
             v.entries = w.entries \/ Len(v.entries) >= 1
      PROVE  Untouched(v)
  BY <1>3 DEF NothingTaken, Untouched
<1>4. ASSUME NEW u, u.req = w.req, u.seqs = w.seqs, u.entries = w.entries,
             i \in Occupied(w.seqs), Takes(u, v, i)
      PROVE  Untouched(v)
  <2>1. PICK n \in Nat : n >= 1 /\ Took(u, v, q, n)
    BY <1>4 DEF Takes
  <2>2. /\ SameBut(w.req[q], v.req[q]) /\ \A x \in Requests \ {q} : v.req[x] = w.req[x]
        /\ Len(v.entries) = Len(w.entries) + n
    BY <1>4, <2>1 DEF Took
  <2>3. Len(w.entries) \in Nat
    BY DEF VisitInv, IsSeq
  <2>4. Len(v.entries) >= 1
    BY <2>1, <2>2, <2>3
  <2> QED BY <1>1, <1>3, <1>4, <2>2, <2>4 DEF SameBut
<1>5. ASSUME i \in Occupied(w.seqs), Ends(w, v, i) PROVE Untouched(v)
  BY <1>3, <1>5 DEF Ends
<1>6. ASSUME NEW got, i \in Occupied(w.seqs), Redoes(w, v, i, got) PROVE Untouched(v)
  <2>1. /\ SameBut(w.req[q], v.req[q]) /\ \A x \in Requests \ {q} : v.req[x] = w.req[x]
        /\ v.entries = w.entries
    BY <1>6 DEF Redoes
  <2> QED BY <1>1, <1>3, <1>6, <2>1 DEF SameBut
<1>7. ASSUME NEW got, i \in Occupied(w.seqs), Takes([w EXCEPT !.ic = got.ic], v, i)
      PROVE  Untouched(v)
  <2> DEFINE u == [w EXCEPT !.ic = got.ic]
  <2>1. u.req = w.req /\ u.seqs = w.seqs /\ u.entries = w.entries
    BY DEF VisitInv
  <2> HIDE DEF u
  <2>2. Takes(u, v, i)
    BY <1>7 DEF u
  <2> QED BY <1>4, <1>7, <2>1, <2>2
<1>8. ASSUME i \in Occupied(w.seqs), Takes(w, v, i) PROVE Untouched(v)
  BY <1>4, <1>8
<1> QED BY <1>2, <1>5, <1>6, <1>7, <1>8 DEF Round

\* The rounds do.
LEMMA RoundsTaken ==
    ASSUME NEW w0, Rounds(w0), nextSeq \in 0 .. NumSlots, Untouched(w0)
    PROVE  Untouched(Visited(w0)[NumSlots])
<1> DEFINE V == Visited(w0)
           S == {n \in Nat : n <= NumSlots => Untouched(V[n])}
<1>1. V[0] = w0 /\ \A n \in 0 .. NumSlots : VisitInv(V[n])
  BY DEF Rounds
<1>2. \A n \in 0 .. NumSlots - 1 : Round(V[n], V[n + 1], At(n))
  BY DEF Rounds
<1> HIDE DEF V
<1>3. 0 \in S
  BY <1>1
<1>4. ASSUME NEW n \in Nat, n \in S PROVE n + 1 \in S
  <2> SUFFICES ASSUME n + 1 <= NumSlots PROVE Untouched(V[n + 1])
    OBVIOUS
  <2>1. n \in 0 .. NumSlots - 1 /\ n \in 0 .. NumSlots /\ n <= NumSlots /\ n < NumSlots
    BY SlotCount
  <2>2. At(n) \in Idx
    BY <2>1, RestShrinks
  <2> QED BY <1>1, <1>2, <1>4, <2>1, <2>2, RoundTaken
<1> HIDE DEF S
<1>5. NumSlots \in S
  BY <1>3, <1>4, Induct, SlotCount
<1> QED BY <1>5, SlotCount DEF S, V

\* The step of forwardBatch: its loop went from w0 to w, and what it gathered is
\* placed in the cache as f.
Begins(w0) ==
    /\ w0.req = req /\ w0.seqs = seqs /\ w0.ic = ic /\ w0.snapshot = seqs /\ w0.entries = <<>>
    /\ \A k \in DOMAIN inflight : inflight[k].stage = "started"
    /\ \A i \in Occupied(seqs) : Len(req[seqs[i]].pending) = 0
    /\ Rounds(w0)

Forwards(w) ==
    /\ VisitInv(w) /\ VisitLogits(w) /\ VisitCache(w, {}) /\ Untouched(w)
    /\ req' = w.req /\ seqs' = w.seqs /\ UNCHANGED unresolved

NoBatch(w) == w.entries = <<>> /\ ic' = w.ic /\ UNCHANGED <<inflight, panic>>

Batched(w, f, k1) ==
    /\ Len(w.entries) \in 1 .. BatchSize
    /\ Prepared(w.ic.kv, k1, f, w.entries)
    /\ ic'.kv = f.kv /\ ic'.slots = w.ic.slots /\ UNCHANGED panic
    /\ inflight' = Append(inflight, NewBatch(w, f))

\* That is what it does.
LEMMA ForwardStepIs ==
    ASSUME SlotInv, LogitsInv, CacheInv, ForwardBatch
    PROVE  \E w0 : /\ Begins(w0) /\ Forwards(Visited(w0)[NumSlots])
                   /\ \/ NoBatch(Visited(w0)[NumSlots])
                      \/ \E f, k1 : Batched(Visited(w0)[NumSlots], f, k1)
<1> DEFINE w0 == [req |-> req, seqs |-> seqs, sem |-> sem, ic |-> ic, snapshot |-> seqs,
                  entries |-> <<>>, outputs |-> <<>>, resume |-> None]
           w  == Visited(w0)[NumSlots]
<1>1. \A k \in DOMAIN inflight : inflight[k].stage = "started"
  <2> TAKE k \in DOMAIN inflight
  <2>1. Len(inflight) \in Nat /\ k \in 1 .. Len(inflight) /\ prevNil \in BOOLEAN
    BY DEF LogitsInv, IsSeq
  <2>2. CASE k < Len(inflight) \/ prevNil
    BY <2>2 DEF LogitsInv, OnlyLastWaits
  <2>3. CASE ~(k < Len(inflight) \/ prevNil)
    <3>1. k = Len(inflight) /\ ~prevNil /\ inflight # <<>>
      BY <2>1, <2>3
    <3> QED BY <3>1 DEF ForwardBatch, CanForward
  <2> QED BY <2>2, <2>3
<1>2. \A i \in Occupied(seqs) : Len(req[seqs[i]].inputs) # 0
  BY <1>1 DEF ForwardBatch, CanForward, LogitsInv, UsedUp
<1>3. \A i \in Occupied(seqs) : seqs[i] \in Requests /\ req[seqs[i]].slot \in Slots
  BY DEF SlotInv, Acc, Owners, Occupied
<1>4. \A i \in Occupied(seqs) : Len(req[seqs[i]].pending) = 0
  <2> TAKE i \in Occupied(seqs)
  <2>1. req[seqs[i]].pending \in Seq(InputType)
    BY <1>3 DEF CacheInv, CacheTypes, ReqTypes
  <2>2. Len(req[seqs[i]].pending) \in Nat
    BY <2>1
  <2>3. ~(Len(req[seqs[i]].pending) > 0)
    BY <1>1 DEF CacheInv, PendingReady
  <2> QED BY <2>2, <2>3
<1>5. /\ DOMAIN w0 = {"req", "seqs", "sem", "ic", "snapshot", "entries", "outputs", "resume"}
      /\ w0.req = req /\ w0.seqs = seqs /\ w0.sem = sem /\ w0.ic = ic /\ w0.snapshot = seqs
      /\ w0.entries = <<>> /\ w0.outputs = <<>> /\ w0.resume = None
  OBVIOUS
<1>6. IsSeq(<<>>) /\ DOMAIN <<>> = {} /\ Len(<<>>) = 0
  BY DEF IsSeq
<1>7. /\ req' = w.req /\ seqs' = w.seqs /\ UNCHANGED unresolved
      /\ IF w.entries = <<>> THEN ic' = w.ic /\ UNCHANGED <<inflight, panic>>
         ELSE \E f \in {StartForward(w.ic.kv, w.entries)} :
                /\ ic' = [w.ic EXCEPT !.kv = f.kv]
                /\ IF f.full THEN panic' = "kv full" /\ UNCHANGED inflight
                   ELSE inflight' = Append(inflight, NewBatch(w, f)) /\ UNCHANGED panic
  BY DEF ForwardBatch, VisitAll
<1> HIDE DEF w0
<1>8. VisitInv(w0) /\ VisitLogits(w0) /\ w0.snapshot = w0.seqs /\ nextSeq \in 0 .. NumSlots
  <2>1. VisitInv(w0)
    BY <1>5, <1>6 DEF SlotInv, VisitInv
  <2>2. EntriesShape(w0)
    BY <1>5, <1>6 DEF EntriesShape
  <2>3. InputsOK(w0.req) /\ DOMAIN w0.snapshot = Idx
    BY <1>5 DEF LogitsInv, SlotInv, Acc, Owners
  <2> QED BY <1>2, <1>5, <2>1, <2>2, <2>3 DEF VisitLogits, LogitsInv
<1>9. VisitCache(w0, Idx)
  <2>1. KvOK(ic.kv) /\ ReqTypes(req) /\ SlotTypes(ic)
    BY DEF CacheInv, CacheTypes
  <2>2. ASSUME NEW i \in Occupied(seqs) PROVE HasRoom(w0, i)
    <3> DEFINE s == req[seqs[i]].slot
               x == ic.slots[s].inputs
    <3>1. Len(req[seqs[i]].pending) = 0
      BY <1>4
    <3>2. x \in Seq(InputType)
      BY <1>3, <2>1 DEF SlotTypes
    <3>3. Len(x) \in Nat
      BY <3>2, LengthNat
    <3>4. Len(x) + Len(req[seqs[i]].pending) <= NumCtx /\ Below(ic.kv, s, Len(x) + Len(req[seqs[i]].pending))
      BY DEF CacheInv, SeqFits
    <3>5. Len(x) + 0 = Len(x)
      BY <3>3
    <3>6. Below(ic.kv, s, Len(x))
      BY <3>1, <3>4, <3>5
    <3>7. ~(Len(req[seqs[i]].pending) > 0) /\ 1 .. Len(req[seqs[i]].pending) = {}
      BY <3>1
    <3> QED BY <1>5, <3>4, <3>6, <3>7 DEF HasRoom
  <2>3. Len(w0.entries) <= BatchSize
    BY <1>5, <1>6, CacheConstants
  <2>4. \A i \in Idx : w0.snapshot[i] = w0.seqs[i] /\ (w0.seqs[i] # None => Len(w0.req[w0.seqs[i]].pending) = 0)
    BY <1>4, <1>5 DEF Occupied
  <2>5. DOMAIN w0.entries = {}
    BY <1>5, <1>6
  <2> QED BY <1>5, <2>1, <2>2, <2>3, <2>4, <2>5 DEF VisitCache
<1>10. Rounds(w0)
  BY <1>8, <1>9, VisitAllCache
<1>11. Begins(w0)
  BY <1>1, <1>4, <1>5, <1>10 DEF Begins
<1>12. Untouched(w)
  <2>1. Untouched(w0)
    BY <1>5 DEF Untouched, CacheInv
  <2> QED BY <1>8, <1>10, <2>1, RoundsTaken
<1>13. VisitInv(w) /\ VisitLogits(w) /\ VisitCache(w, {})
  <2>1. NumSlots \in 0 .. NumSlots /\ NumSlots .. NumSlots - 1 = {}
    BY SlotCount
  <2>2. Rest(NumSlots) = {}
    BY <2>1 DEF Rest
  <2>3. VisitInv(w) /\ VisitLogits(w) /\ VisitCache(w, Rest(NumSlots))
    BY <1>10, <2>1 DEF Rounds
  <2> QED BY <2>2, <2>3
<1> HIDE DEF w
<1>14. Forwards(w)
  BY <1>7, <1>12, <1>13 DEF Forwards
<1>15. CASE w.entries = <<>>
  <2>1. NoBatch(w)
    BY <1>7, <1>15 DEF NoBatch
  <2> QED BY <1>11, <1>14, <2>1 DEF w
<1>16. CASE w.entries # <<>>
  <2> DEFINE f == StartForward(w.ic.kv, w.entries)
  <2>1. /\ ic' = [w.ic EXCEPT !.kv = f.kv]
        /\ IF f.full THEN panic' = "kv full" /\ UNCHANGED inflight
           ELSE inflight' = Append(inflight, NewBatch(w, f)) /\ UNCHANGED panic
    BY <1>7, <1>16
  <2>2. Len(w.entries) >= 1
    BY <1>12, <1>16 DEF Untouched
  <2>3. BatchFits(w.ic.kv, w.entries)
    BY <1>13, <2>2, EntriesFit
  <2>4. KvOK(w.ic.kv)
    BY <1>13 DEF VisitCache
  <2>5. PICK k1 : Prepared(w.ic.kv, k1, f, w.entries)
    BY <2>3, <2>4, StartForwardKeeps
  <2> HIDE DEF f
  <2>6. f.full = FALSE
    BY <2>5 DEF Prepared
  <2>7. inflight' = Append(inflight, NewBatch(w, f)) /\ UNCHANGED panic
    BY <2>1, <2>6
  <2>8. DOMAIN w.ic = {"kv", "slots", "used", "multi"}
    BY <1>13 DEF VisitInv, Acc, CacheShape
  <2>9. ic'.kv = f.kv /\ ic'.slots = w.ic.slots
    BY <2>1, <2>8
  <2>10. Len(w.entries) \in 1 .. BatchSize
    BY <2>3 DEF BatchFits
  <2>11. Batched(w, f, k1)
    BY <2>5, <2>7, <2>9, <2>10 DEF Batched
  <2> QED BY <1>11, <1>14, <2>11 DEF w
<1> QED BY <1>15, <1>16
\* The cells that the sequence gets are at the positions of what is taken of it.
LEMMA PlacedBelow ==
    ASSUME NEW w, VisitInv(w), NEW U, VisitCache(w, U), NEW k1, NEW f,
           Prepared(w.ic.kv, k1, f, w.entries), NEW i \in Occupied(w.seqs),
           NEW q, q = w.seqs[i], NEW s, s = w.req[q].slot
    PROVE  Below(f.kv, s, Len(w.ic.slots[s].inputs) + Len(w.req[q].pending))
<1> DEFINE a == Len(w.ic.slots[s].inputs)
           m == Len(w.req[q].pending)
<1>1. /\ s \in Slots /\ q \in Requests /\ SlotTypes(w.ic) /\ ReqTypes(w.req) /\ KvShape(w.ic.kv)
      /\ HasRoom(w, i) /\ Owners(w.req, w.seqs)
  BY DEF VisitInv, Acc, Owners, Occupied, VisitCache, KvOK
<1>2. a \in Nat /\ m \in Nat
  BY <1>1, LengthNat DEF SlotTypes, ReqTypes
<1>3. Below(w.ic.kv, s, a)
  BY <1>1 DEF HasRoom
<1>4. /\ CellsOf(f.kv, s) = CellsOf(k1, s) \cup {f.loc[e] : e \in {j \in DOMAIN w.entries : w.entries[j].slot = s}}
      /\ \A c \in CellsOf(k1, s) : f.kv.cells[c].pos = k1.cells[c].pos
      /\ \A e \in DOMAIN w.entries : f.kv.cells[f.loc[e]].pos = w.entries[e].pos
  BY <1>1 DEF Prepared, PutAt
<1>5. /\ CellsOf(k1, s) \subseteq CellsOf(w.ic.kv, s)
      /\ \A c \in DOMAIN w.ic.kv.cells : k1.cells[c].pos = w.ic.kv.cells[c].pos
  BY <1>1 DEF Prepared, Trimmed
<1>6. ASSUME NEW c \in CellsOf(k1, s) PROVE f.kv.cells[c].pos < a + m
  <2>1. c \in CellsOf(w.ic.kv, s) /\ c \in DOMAIN w.ic.kv.cells
    BY <1>5 DEF CellsOf
  <2>2. f.kv.cells[c].pos = w.ic.kv.cells[c].pos /\ w.ic.kv.cells[c].pos < a /\ w.ic.kv.cells[c].pos \in Nat
    BY <1>1, <1>3, <1>4, <1>5, <2>1, CellsAreNumbers DEF Below
  <2> HIDE DEF a, m
  <2> QED BY <1>2, <2>2
<1>7. ASSUME NEW e \in DOMAIN w.entries, w.entries[e].slot = s PROVE w.entries[e].pos < a + m
  <2>1. PICK j \in Occupied(w.seqs) : EntryOf(w, j, w.entries[e])
    BY DEF VisitCache
  <2>2. w.entries[e].slot = w.req[w.seqs[j]].slot
    BY <2>1 DEF EntryOf
  <2>3. j = i
    BY <1>1, <1>7, <2>2 DEF Owners
  <2>4. PICK n \in 1 .. m : w.entries[e].pos = a + n - 1
    BY <2>1, <2>3 DEF EntryOf
  <2> HIDE DEF a, m
  <2> QED BY <1>2, <2>4
<1> HIDE DEF a, m
<1>8. \A c \in CellsOf(f.kv, s) : f.kv.cells[c].pos < a + m
  BY <1>4, <1>6, <1>7
<1> QED BY <1>8 DEF Below, a, m

\* A batch is added after the others.
LEMMA Appended ==
    ASSUME IsSeq(inflight), NEW b, inflight' = Append(inflight, b), NEW L, L = Len(inflight) + 1
    PROVE  /\ L \in Nat /\ Len(inflight') = L /\ DOMAIN inflight' = 1 .. L /\ L \in DOMAIN inflight'
           /\ inflight'[L] = b
           /\ \A k \in DOMAIN inflight : k \in DOMAIN inflight' /\ inflight'[k] = inflight[k] /\ k # L
           /\ \A k \in DOMAIN inflight' : k = L \/ (k \in DOMAIN inflight /\ inflight'[k] = inflight[k])
<1>1. Len(inflight) \in Nat /\ DOMAIN inflight = 1 .. Len(inflight)
  BY DEF IsSeq
<1>2. /\ L \in Nat /\ Len(inflight') = L /\ DOMAIN inflight' = 1 .. L /\ inflight'[L] = b
      /\ \A k \in DOMAIN inflight : k \in DOMAIN inflight' /\ inflight'[k] = inflight[k] /\ k # L
  BY <1>1
<1>3. \A k \in DOMAIN inflight' : k = L \/ k \in DOMAIN inflight
  BY <1>1, <1>2
<1>4. L \in DOMAIN inflight'
  BY <1>1, <1>2
<1> QED BY <1>2, <1>3, <1>4

\* The fields of a batch that was built.
LEMMA NewBatchIs ==
    ASSUME NEW w, NEW f, NEW b, b = NewBatch(w, f)
    PROVE  /\ b.stage = "ready" /\ b.entries = w.entries /\ b.outputs = w.outputs /\ b.seqs = w.snapshot
           /\ b.loc = f.loc /\ b.mask = f.mask /\ \A i \in Idx : b.next[i] = None
BY DEF NewBatch

\* forwardBatch finds room for the batch, and every sequence has cells for what
\* is taken of it.
LEMMA ForwardCache == ASSUME SlotInv, LogitsInv, CacheInv, ForwardBatch PROVE CacheInv'
<1>1. PICK w0 : /\ Begins(w0) /\ Forwards(Visited(w0)[NumSlots])
                /\ \/ NoBatch(Visited(w0)[NumSlots])
                   \/ \E f, k1 : Batched(Visited(w0)[NumSlots], f, k1)
  BY ForwardStepIs
<1> DEFINE w == Visited(w0)[NumSlots]
<1>2. /\ VisitInv(w) /\ VisitCache(w, {}) /\ Untouched(w) /\ req' = w.req /\ seqs' = w.seqs
  BY <1>1 DEF Forwards
<1>3. NoBatch(w) \/ \E f, k1 : Batched(w, f, k1)
  BY <1>1
<1> HIDE DEF w
<1>4. /\ KvOK(w.ic.kv) /\ ReqTypes(w.req) /\ SlotTypes(w.ic) /\ NothingTaken(w.req)
      /\ \A i \in Occupied(w.seqs) : HasRoom(w, i)
  BY <1>2 DEF VisitCache, Untouched
<1>5. \A i \in Occupied(w.seqs) :
        /\ w.seqs[i] \in Requests /\ w.req[w.seqs[i]].slot \in Slots
        /\ Len(w.ic.slots[w.req[w.seqs[i]].slot].inputs) \in Nat /\ Len(w.req[w.seqs[i]].pending) \in Nat
  <2> TAKE i \in Occupied(w.seqs)
  <2>1. w.seqs[i] \in Requests /\ w.req[w.seqs[i]].slot \in Slots
    BY <1>2 DEF VisitInv, Acc, Owners, Occupied
  <2>2. /\ w.ic.slots[w.req[w.seqs[i]].slot].inputs \in Seq(InputType)
        /\ w.req[w.seqs[i]].pending \in Seq(InputType)
    BY <1>4, <2>1 DEF SlotTypes, ReqTypes
  <2> QED BY <2>1, <2>2, LengthNat
<1>6. CASE NoBatch(w)
  <2>1. w.entries = <<>> /\ ic' = w.ic /\ inflight' = inflight /\ panic' = panic
    BY <1>6 DEF NoBatch
  <2>2. ASSUME NEW i \in Occupied(w.seqs) PROVE Len(w.req[w.seqs[i]].pending) = 0
    <3> SUFFICES ASSUME Len(w.req[w.seqs[i]].pending) # 0 PROVE FALSE
      OBVIOUS
    <3>1. 1 \in 1 .. Len(w.req[w.seqs[i]].pending)
      BY <1>5
    <3>2. \E e \in DOMAIN w.entries : w.entries[e].q = w.seqs[i]
      BY <1>4, <3>1 DEF HasRoom
    <3>3. DOMAIN w.entries = {}
      BY <2>1
    <3> QED BY <3>2, <3>3
  <2>3. ASSUME NEW i \in Occupied(seqs') PROVE SeqFits(req', seqs', ic', i)
    <3> DEFINE s == w.req[w.seqs[i]].slot
               a == Len(w.ic.slots[s].inputs)
    <3>1. i \in Occupied(w.seqs)
      BY <1>2
    <3>2. Below(w.ic.kv, s, a) /\ a + Len(w.req[w.seqs[i]].pending) <= NumCtx
      BY <1>4, <3>1 DEF HasRoom
    <3>3. a \in Nat /\ Len(w.req[w.seqs[i]].pending) = 0
      BY <1>5, <2>2, <3>1
    <3>4. a + Len(w.req[w.seqs[i]].pending) = a
      BY <3>3
    <3> QED BY <1>2, <2>1, <3>2, <3>4 DEF SeqFits
  <2>4. PendingReady(req', seqs', inflight')
    BY <1>2, <2>2 DEF PendingReady
  <2> QED BY <1>2, <1>4, <2>1, <2>3, <2>4 DEF CacheInv, CacheTypes
<1>7. ASSUME NEW f, NEW k1, Batched(w, f, k1) PROVE CacheInv'
  <2> DEFINE b == NewBatch(w, f)
             L == Len(inflight) + 1
  <2>1. /\ Len(w.entries) \in 1 .. BatchSize /\ Prepared(w.ic.kv, k1, f, w.entries)
        /\ ic'.kv = f.kv /\ ic'.slots = w.ic.slots /\ UNCHANGED panic /\ inflight' = Append(inflight, b)
    BY <1>7 DEF Batched
  <2>2. b.stage = "ready" /\ b.entries = w.entries /\ b.seqs = w.snapshot /\ \A i \in Idx : b.next[i] = None
    BY NewBatchIs
  <2> HIDE DEF b
  <2>3. IsSeq(inflight)
    BY DEF LogitsInv
  <2>4. /\ L \in DOMAIN inflight' /\ inflight'[L] = b
        /\ \A k \in DOMAIN inflight' : k = L \/ (k \in DOMAIN inflight /\ inflight'[k] = inflight[k])
    BY <2>1, <2>3, Appended
  <2> HIDE DEF L
  <2>5. KvOK(ic'.kv) /\ SlotTypes(ic')
    BY <1>4, <2>1 DEF Prepared, SlotTypes
  <2>6. ASSUME NEW i \in Occupied(seqs') PROVE SeqFits(req', seqs', ic', i)
    <3> DEFINE q == w.seqs[i]
               s == w.req[q].slot
    <3>1. i \in Occupied(w.seqs)
      BY <1>2
    <3>2. Len(w.ic.slots[s].inputs) + Len(w.req[q].pending) <= NumCtx
      BY <1>4, <3>1 DEF HasRoom
    <3>3. Below(f.kv, s, Len(w.ic.slots[s].inputs) + Len(w.req[q].pending))
      BY <1>2, <2>1, <3>1, PlacedBelow
    <3> QED BY <1>2, <2>1, <3>2, <3>3 DEF SeqFits
  <2>7. PendingReady(req', seqs', inflight')
    <3> SUFFICES ASSUME NEW i \in Occupied(seqs'), Len(req'[seqs'[i]].pending) > 0
                 PROVE  \E k \in DOMAIN inflight' : inflight'[k].stage = "ready" /\ inflight'[k].seqs[i] = seqs'[i]
      BY DEF PendingReady
    <3>1. w.snapshot[i] = w.seqs[i]
      BY <1>2, <1>4 DEF HasRoom
    <3> QED BY <1>2, <2>2, <2>4, <3>1
  <2>8. Batches(inflight')
    <3> SUFFICES ASSUME NEW k \in DOMAIN inflight'
                 PROVE  Len(inflight'[k].entries) \in 1 .. BatchSize /\ NextOnce(inflight'[k]) /\ NextOwn(inflight'[k])
      BY DEF Batches
    <3>1. CASE k = L
      BY <2>1, <2>2, <2>4, <3>1 DEF NextOnce, NextOwn
    <3>2. CASE k \in DOMAIN inflight /\ inflight'[k] = inflight[k]
      BY <3>2 DEF CacheInv, Batches
    <3> QED BY <2>4, <3>1, <3>2
  <2>9. panic' # "kv full"
    BY <2>1 DEF CacheInv
  <2> QED BY <1>2, <1>4, <2>5, <2>6, <2>7, <2>8, <2>9 DEF CacheInv, CacheTypes
<1> QED BY <1>3, <1>6, <1>7

-----------------------------------------------------------------------------
(* computeBatch *)

\* Put writes the keys of the entries to their cells.
LEMMA PutData ==
    ASSUME NEW kv, KvShape(kv), NEW batch, NEW loc, NEW tokens, NEW r, r = Put(kv, batch, loc, tokens)
    PROVE  /\ KvShape(r) /\ (KvOK(kv) => KvOK(r))
           /\ r.window = kv.window /\ r.memory = kv.memory /\ r.cells = kv.cells
           /\ \A c \in DOMAIN kv.data : (\A e \in DOMAIN batch : loc[e] # c) => r.data[c] = kv.data[c]
           /\ \A e \in DOMAIN batch : (loc[e] \in DOMAIN kv.data /\ \A d \in DOMAIN batch : loc[d] = loc[e] => d = e) =>
                r.data[loc[e]].token = tokens[e] /\ r.data[loc[e]].pos = batch[e].pos
<1> DEFINE new == [c \in DOMAIN kv.data |->
                     IF \E i \in DOMAIN batch : loc[i] = c
                     THEN [token |-> tokens[CHOOSE j \in DOMAIN batch : loc[j] = c],
                           pos   |-> batch[CHOOSE j \in DOMAIN batch : loc[j] = c].pos]
                     ELSE kv.data[c]]
<1>1. DOMAIN kv = {"window", "memory", "cells", "cellRanges", "data"}
  BY DEF KvShape
<1>2. r = [kv EXCEPT !.data = new]
  BY <1>1 DEF Put
<1>3. /\ DOMAIN new = DOMAIN kv.data
      /\ \A c \in DOMAIN kv.data : (\A e \in DOMAIN batch : loc[e] # c) => new[c] = kv.data[c]
  OBVIOUS
<1>4. ASSUME NEW c \in DOMAIN kv.data, \E i \in DOMAIN batch : loc[i] = c
      PROVE  \E i \in DOMAIN batch : loc[i] = c /\ new[c] = [token |-> tokens[i], pos |-> batch[i].pos]
  <2> DEFINE i == CHOOSE j \in DOMAIN batch : loc[j] = c
  <2>1. i \in DOMAIN batch /\ loc[i] = c
    BY <1>4
  <2>2. new[c] = [token |-> tokens[i], pos |-> batch[i].pos]
    BY <1>4
  <2> HIDE DEF i, new
  <2> QED BY <2>1, <2>2
<1> HIDE DEF new
<1>5. /\ DOMAIN r = DOMAIN kv /\ r.window = kv.window /\ r.memory = kv.memory /\ r.cells = kv.cells
      /\ r.cellRanges = kv.cellRanges /\ r.data = new
  BY <1>1, <1>2
<1>6. \A c \in DOMAIN kv.data : DOMAIN new[c] = {"token", "pos"}
  <2> TAKE c \in DOMAIN kv.data
  <2>1. CASE \E i \in DOMAIN batch : loc[i] = c
    <3>1. PICK i \in DOMAIN batch : new[c] = [token |-> tokens[i], pos |-> batch[i].pos]
      BY <1>4, <2>1
    <3> QED BY <3>1
  <2>2. CASE ~\E i \in DOMAIN batch : loc[i] = c
    <3>1. new[c] = kv.data[c]
      BY <1>3, <2>2
    <3> QED BY <3>1 DEF KvShape
  <2> QED BY <2>1, <2>2
<1>7. KvShape(r)
  BY <1>3, <1>5, <1>6 DEF KvShape
<1>8. \A s \in Slots : CellsOf(r, s) = CellsOf(kv, s) /\ InRange(r, s) = InRange(kv, s)
  BY <1>5 DEF CellsOf, InRange
<1>9. KvOK(kv) => KvOK(r)
  BY <1>5, <1>7, <1>8 DEF KvOK, Ranges, RangeFits, Once
<1>10. ASSUME NEW e \in DOMAIN batch, loc[e] \in DOMAIN kv.data, \A d \in DOMAIN batch : loc[d] = loc[e] => d = e
       PROVE  r.data[loc[e]].token = tokens[e] /\ r.data[loc[e]].pos = batch[e].pos
  <2>1. PICK i \in DOMAIN batch : loc[i] = loc[e] /\ new[loc[e]] = [token |-> tokens[i], pos |-> batch[i].pos]
    BY <1>4, <1>10
  <2>2. i = e
    BY <1>10, <2>1
  <2> QED BY <1>5, <2>1, <2>2
<1> QED BY <1>3, <1>5, <1>7, <1>9, <1>10

\* Batch k goes from gathered to started.
Computes(k) ==
    /\ k \in DOMAIN inflight /\ inflight[k].stage = "gathered"
    /\ DOMAIN inflight' = DOMAIN inflight
    /\ \A j \in DOMAIN inflight : j # k => inflight'[j] = inflight[j]
    /\ inflight'[k].stage = "started" /\ inflight'[k].entries = inflight[k].entries
    /\ inflight'[k].seqs = inflight[k].seqs /\ inflight'[k].next = inflight[k].next
    /\ ic'.kv = Put(ic.kv, inflight[k].entries, inflight[k].loc, inflight[k].tokens)
    /\ ic'.slots = ic.slots
    /\ UNCHANGED <<req, seqs, sem, prevNil, nextSeq, panic, unresolved>>

\* That is what Compute does.
LEMMA ComputeStepIs == ASSUME SlotInv, LogitsInv, NEW k, Compute(k) PROVE Computes(k)
<1>1. /\ k \in DOMAIN inflight /\ inflight[k].stage = "gathered"
      /\ inflight' = [inflight EXCEPT ![k].stage = "started"]
      /\ ic' = [ic EXCEPT !.kv = Put(@, inflight[k].entries, inflight[k].loc, inflight[k].tokens)]
      /\ UNCHANGED <<req, seqs, sem, prevNil, nextSeq, panic, unresolved>>
  BY DEF Compute
<1>2. BatchShape(inflight[k]) /\ CacheShape(ic)
  BY <1>1 DEF LogitsInv, SlotInv, Acc
<1>3. /\ DOMAIN inflight' = DOMAIN inflight
      /\ \A j \in DOMAIN inflight : j # k => inflight'[j] = inflight[j]
      /\ inflight'[k] = [inflight[k] EXCEPT !.stage = "started"]
  BY <1>1
<1>4. /\ inflight'[k].stage = "started" /\ inflight'[k].entries = inflight[k].entries
      /\ inflight'[k].seqs = inflight[k].seqs /\ inflight'[k].next = inflight[k].next
  BY <1>2, <1>3 DEF BatchShape
<1> DEFINE put == Put(ic.kv, inflight[k].entries, inflight[k].loc, inflight[k].tokens)
<1>5. ic' = [ic EXCEPT !.kv = put]
  BY <1>1
<1> HIDE DEF put
<1>6. ic'.kv = put /\ ic'.slots = ic.slots
  BY <1>2, <1>5 DEF CacheShape
<1> QED BY <1>1, <1>3, <1>4, <1>6 DEF Computes, put

\* Computing a batch moves no cell.
LEMMA ComputeCache == ASSUME SlotInv, LogitsInv, CacheInv, NEW k, Compute(k) PROVE CacheInv'
<1>1. Computes(k)
  BY ComputeStepIs
<1>2. KvOK(ic.kv) /\ KvShape(ic.kv) /\ SlotTypes(ic) /\ ReqTypes(req)
  BY DEF CacheInv, CacheTypes, KvOK
<1>3. KvOK(ic'.kv) /\ ic'.kv.cells = ic.kv.cells /\ ic'.slots = ic.slots
  BY <1>1, <1>2, PutData DEF Computes
<1>4. CacheTypes(req', ic')
  BY <1>1, <1>2, <1>3 DEF Computes, CacheTypes, SlotTypes
<1>5. \A i \in Occupied(seqs') : SeqFits(req', seqs', ic', i)
  <2>1. req' = req /\ seqs' = seqs
    BY <1>1 DEF Computes
  <2>2. \A s, n : Below(ic.kv, s, n) => Below(ic'.kv, s, n)
    BY <1>3 DEF Below, CellsOf
  <2> QED BY <1>3, <2>1, <2>2 DEF CacheInv, SeqFits
<1>6. NothingTaken(req') /\ panic' # "kv full"
  BY <1>1 DEF Computes, CacheInv
<1>7. PendingReady(req', seqs', inflight')
  <2> SUFFICES ASSUME NEW i \in Occupied(seqs'), Len(req'[seqs'[i]].pending) > 0
               PROVE  \E j \in DOMAIN inflight' : inflight'[j].stage = "ready" /\ inflight'[j].seqs[i] = seqs'[i]
    BY DEF PendingReady
  <2>1. req' = req /\ seqs' = seqs
    BY <1>1 DEF Computes
  <2>2. PICK j \in DOMAIN inflight : inflight[j].stage = "ready" /\ inflight[j].seqs[i] = seqs[i]
    BY <2>1 DEF CacheInv, PendingReady
  <2>3. j # k
    BY <1>1, <2>2 DEF Computes
  <2> QED BY <1>1, <2>1, <2>2, <2>3 DEF Computes
<1>8. Batches(inflight')
  <2> SUFFICES ASSUME NEW j \in DOMAIN inflight'
               PROVE  Len(inflight'[j].entries) \in 1 .. BatchSize /\ NextOnce(inflight'[j]) /\ NextOwn(inflight'[j])
    BY DEF Batches
  <2>1. /\ j \in DOMAIN inflight /\ inflight'[j].entries = inflight[j].entries
        /\ inflight'[j].next = inflight[j].next /\ inflight'[j].seqs = inflight[j].seqs
    BY <1>1 DEF Computes
  <2>2. Len(inflight[j].entries) \in 1 .. BatchSize /\ NextOnce(inflight[j]) /\ NextOwn(inflight[j])
    BY <2>1 DEF CacheInv, Batches
  <2>3. NextOnce(inflight'[j])
    BY <2>1, <2>2 DEF NextOnce
  <2>4. NextOwn(inflight'[j])
    BY <2>1, <2>2 DEF NextOwn
  <2> QED BY <2>1, <2>2, <2>3, <2>4
<1> QED BY <1>4, <1>5, <1>6, <1>7, <1>8 DEF CacheInv

\* What gathering the inputs of batch k does; own are its sequences that still
\* stream.
Gathers(k, own) ==
    /\ k \in DOMAIN inflight /\ inflight[k].stage = "ready"
    /\ \A j \in DOMAIN inflight : j # k => inflight[j].stage = "started"
    /\ own = {i \in Occupied(seqs) : inflight[k].seqs[i] = seqs[i]}
    /\ seqs' = seqs /\ panic' = panic /\ ic'.kv = ic.kv
    /\ \A i \in own : ic'.slots[req[seqs[i]].slot].inputs =
                          ic.slots[req[seqs[i]].slot].inputs \o req[seqs[i]].pending
    /\ \A s \in Slots : (\A i \in own : req[seqs[i]].slot # s) =>
                          ic'.slots[s].inputs = ic.slots[s].inputs
    /\ \A i \in own : LET q == seqs[i]
                      IN  /\ SameBut(req[q], req'[q]) /\ req'[q].pending = <<>>
                          /\ req'[q].inputs = IF req[q].inputs = <<>>
                                              THEN <<Placeholder(q, FreshNth(q))>> ELSE req[q].inputs
    /\ \A q \in Requests : (\A i \in own : seqs[i] # q) => req'[q] = req[q]
    /\ DOMAIN inflight' = DOMAIN inflight
    /\ \A j \in DOMAIN inflight : j # k => inflight'[j] = inflight[j]
    /\ inflight'[k].stage = "gathered" /\ inflight'[k].entries = inflight[k].entries
    /\ inflight'[k].seqs = inflight[k].seqs /\ inflight'[k].loc = inflight[k].loc
    /\ inflight'[k].mask = inflight[k].mask
    /\ inflight'[k].tokens =
           [e \in DOMAIN inflight[k].entries |-> inflight[k].entries[e].input.token]
    /\ \A i \in Idx : inflight'[k].next[i] = IF i \in own /\ req[seqs[i]].inputs = <<>>
                                             THEN Placeholder(seqs[i], FreshNth(seqs[i])) ELSE None
    /\ unresolved' = (unresolved \/ \E e \in DOMAIN inflight'[k].tokens : inflight'[k].tokens[e] = 0)

\* The first critical section of computeBatch, piece by piece.
LEMMA GatherStepIs ==
    ASSUME SlotInv, LogitsInv, NEW k, GatherInputs(k)
    PROVE  Gathers(k, {i \in Occupied(seqs) : inflight[k].seqs[i] = seqs[i]})
<1>0. PICK own \in {{i \in Idx : seqs[i] # None /\ inflight[k].seqs[i] = seqs[i]}},
           tokens \in {[e \in DOMAIN inflight[k].entries |-> inflight[k].entries[e].input.token]} :
        /\ ic' = [ic EXCEPT !.slots = [s \in Slots |->
                    IF \E i \in own : req[seqs[i]].slot = s
                    THEN Extended(ic.slots[s],
                            req[seqs[CHOOSE i \in own : req[seqs[i]].slot = s]].pending)
                    ELSE ic.slots[s]]]
        /\ req' = [q \in Requests |->
                    IF \E i \in own : seqs[i] = q
                    THEN [req[q] EXCEPT !.pending = <<>>,
                                        !.inputs = IF @ = <<>>
                                                   THEN <<Placeholder(q, FreshNth(q))>> ELSE @]
                    ELSE req[q]]
        /\ inflight' = [inflight EXCEPT
                    ![k].stage = "gathered",
                    ![k].tokens = tokens,
                    ![k].next = [i \in Idx |->
                        IF i \in own /\ req[seqs[i]].inputs = <<>>
                        THEN Placeholder(seqs[i], FreshNth(seqs[i])) ELSE None],
                    ![k].iBatches = [i \in Idx |->
                        IF i \in own /\ req[seqs[i]].inputs = <<>>
                        THEN req[seqs[i]].iBatch ELSE 0]]
        /\ unresolved' = (unresolved \/ \E e \in DOMAIN tokens : tokens[e] = 0)
  BY DEF GatherInputs
<1> DEFINE next == [i \in Idx |-> IF i \in own /\ req[seqs[i]].inputs = <<>>
                                  THEN Placeholder(seqs[i], FreshNth(seqs[i])) ELSE None]
           kept == [i \in Idx |-> IF i \in own /\ req[seqs[i]].inputs = <<>>
                                  THEN req[seqs[i]].iBatch ELSE 0]
           of(s) == req[seqs[CHOOSE i \in own : req[seqs[i]].slot = s]].pending
           sl == [s \in Slots |-> IF \E i \in own : req[seqs[i]].slot = s
                                  THEN Extended(ic.slots[s], of(s)) ELSE ic.slots[s]]
<1>1. /\ k \in DOMAIN inflight /\ inflight[k].stage = "ready" /\ seqs' = seqs /\ panic' = panic
  BY DEF GatherInputs
<1>2. own = {i \in Occupied(seqs) : inflight[k].seqs[i] = seqs[i]}
  BY <1>0 DEF Occupied
<1>3. Len(inflight) \in Nat /\ DOMAIN inflight = 1 .. Len(inflight) /\ BatchShape(inflight[k])
  BY <1>1 DEF LogitsInv, IsSeq
<1>4. \A j \in DOMAIN inflight : j # k => inflight[j].stage = "started"
  <2>1. \A j \in DOMAIN inflight : j < Len(inflight) => inflight[j].stage = "started"
    BY DEF LogitsInv, OnlyLastWaits
  <2>2. k = Len(inflight)
    BY <1>1, <1>3, <2>1
  <2> QED BY <1>3, <2>1, <2>2
<1>5. /\ inflight'[k].stage = "gathered" /\ inflight'[k].next = next /\ inflight'[k].tokens = tokens
      /\ inflight'[k].entries = inflight[k].entries /\ inflight'[k].seqs = inflight[k].seqs
      /\ inflight'[k].loc = inflight[k].loc /\ inflight'[k].mask = inflight[k].mask
  <2> HIDE DEF next, kept
  <2>1. inflight' = [inflight EXCEPT ![k].stage = "gathered", ![k].tokens = tokens,
                                     ![k].next = next, ![k].iBatches = kept]
    BY <1>0 DEF next, kept
  <2> QED BY <1>1, <1>3, <2>1 DEF BatchShape
<1>6. /\ DOMAIN inflight' = DOMAIN inflight
      /\ \A j \in DOMAIN inflight : j # k => inflight'[j] = inflight[j]
  BY <1>0
<1>7. \A i \in Idx : inflight'[k].next[i] = IF i \in own /\ req[seqs[i]].inputs = <<>>
                                             THEN Placeholder(seqs[i], FreshNth(seqs[i])) ELSE None
  BY <1>5
<1>8. ic' = [ic EXCEPT !.slots = sl]
  BY <1>0
<1>9. ic'.kv = ic.kv /\ ic'.slots = sl
  <2> HIDE DEF sl
  <2> QED BY <1>8 DEF SlotInv, Acc, CacheShape
<1>10. \A i \in own : seqs[i] \in Requests /\ i \in Occupied(seqs) /\ req[seqs[i]].slot \in Slots
  BY <1>2 DEF SlotInv, Acc, Owners, Occupied
<1>11. \A i \in own : ic'.slots[req[seqs[i]].slot].inputs =
                          ic.slots[req[seqs[i]].slot].inputs \o req[seqs[i]].pending
  <2> TAKE i \in own
  <2> DEFINE s == req[seqs[i]].slot
             j == CHOOSE x \in own : req[seqs[x]].slot = s
  <2>1. s \in Slots /\ i \in Occupied(seqs)
    BY <1>10
  <2>2. j \in own /\ req[seqs[j]].slot = s
    OBVIOUS
  <2>3. j = i
    <3>1. j \in Occupied(seqs)
      BY <1>10, <2>2
    <3> HIDE DEF j
    <3> QED BY <2>1, <2>2, <3>1 DEF SlotInv, Acc, Owners
  <2>4. of(s) = req[seqs[i]].pending
    BY <2>3
  <2>5. sl[s] = Extended(ic.slots[s], of(s))
    BY <2>1
  <2>6. "inputs" \in DOMAIN ic.slots[s]
    BY <2>1 DEF SlotInv, Acc, CacheShape, SlotShape
  <2> HIDE DEF of, sl, s
  <2>7. sl[s].inputs = ic.slots[s].inputs \o of(s)
    BY <2>5, <2>6 DEF Extended
  <2> QED BY <1>9, <2>4, <2>7 DEF s
<1>12. \A s \in Slots : (\A i \in own : req[seqs[i]].slot # s) => ic'.slots[s].inputs = ic.slots[s].inputs
  BY <1>9
<1>13. ASSUME NEW i \in own
       PROVE  LET q == seqs[i]
              IN  /\ SameBut(req[q], req'[q]) /\ req'[q].pending = <<>>
                  /\ req'[q].inputs = IF req[q].inputs = <<>>
                                      THEN <<Placeholder(q, FreshNth(q))>> ELSE req[q].inputs
  <2> DEFINE q == seqs[i]
             h == <<Placeholder(q, FreshNth(q))>>
  <2>1. q \in Requests
    BY <1>10
  <2>2. req'[q] = [req[q] EXCEPT !.pending = <<>>, !.inputs = IF @ = <<>> THEN h ELSE @]
    BY <1>0, <2>1
  <2>3. DOMAIN req[q] = {"pc", "inputs", "pending", "slot", "iBatch", "predicted", "held",
                         "quit", "limit", "keep", "shift", "reason"}
    BY <2>1 DEF SlotInv, Acc, ReqShape
  <2> HIDE DEF q, h
  <2>4. /\ SameBut(req[q], req'[q]) /\ req'[q].pending = <<>>
        /\ req'[q].inputs = IF req[q].inputs = <<>> THEN h ELSE req[q].inputs
    BY <2>2, <2>3 DEF SameBut
  <2> QED BY <2>4 DEF q, h
<1>14. \A q \in Requests : (\A i \in own : seqs[i] # q) => req'[q] = req[q]
  BY <1>0
<1>15. unresolved' = (unresolved \/ \E e \in DOMAIN inflight'[k].tokens : inflight'[k].tokens[e] = 0)
  BY <1>0, <1>5
<1>16. inflight'[k].tokens = [e \in DOMAIN inflight[k].entries |-> inflight[k].entries[e].input.token]
  BY <1>0, <1>5
<1> HIDE DEF next, kept, of, sl
<1>17. Gathers(k, own)
  BY <1>1, <1>2, <1>4, <1>5, <1>6, <1>7, <1>9, <1>11, <1>12, <1>13, <1>14, <1>15, <1>16 DEF Gathers
<1> QED BY <1>2, <1>17

\* A placeholder is not nil.
LEMMA PlaceholderSome ==
    ASSUME NEW q \in Requests, NEW n \in Nat
    PROVE  Placeholder(q, n) # None
<1>1. Placeholder(q, n) \in [token : {0}, of : Requests, nth : Nat]
  BY DEF Placeholder
<1> QED BY <1>1, RunnerConstants

\* A number that no batch uses for q is found: each batch uses one at most.
LEMMA FreshFound ==
    ASSUME IsSeq(inflight), Batches(inflight), NEW q \in Requests
    PROVE  /\ FreshNth(q) \in Nat
           /\ \A k \in DOMAIN inflight, i \in Idx : inflight[k].next[i] # Placeholder(q, FreshNth(q))
<1> DEFINE L == Len(inflight)
           S == {n \in 1 .. L + 1 :
                   \A k \in DOMAIN inflight, i \in Idx : inflight[k].next[i] # Placeholder(q, n)}
           at(n) == CHOOSE k \in DOMAIN inflight : \E i \in Idx : inflight[k].next[i] = Placeholder(q, n)
<1>1. L \in Nat /\ DOMAIN inflight = 1 .. L
  BY DEF IsSeq
<1> HIDE DEF L
<1>2. S # {}
  <2> SUFFICES ASSUME S = {} PROVE FALSE
    OBVIOUS
  <2>1. \A n \in 1 .. L + 1 : \E k \in DOMAIN inflight : \E i \in Idx : inflight[k].next[i] = Placeholder(q, n)
    OBVIOUS
  <2>2. \A n \in 1 .. L + 1 : at(n) \in 1 .. L /\ \E i \in Idx : inflight[at(n)].next[i] = Placeholder(q, n)
    BY <1>1, <2>1
  <2> DEFINE f == [n \in 1 .. L + 1 |-> at(n)]
  <2>3. f \in [1 .. L + 1 -> 1 .. L]
    BY <2>2
  <2>4. ASSUME NEW m \in 1 .. L + 1, NEW n \in 1 .. L + 1, f[m] = f[n] PROVE m = n
    <3>1. f[m] = at(m) /\ f[n] = at(n)
      OBVIOUS
    <3> DEFINE k == at(m)
    <3>2. k = at(n) /\ k \in DOMAIN inflight
      BY <1>1, <2>2, <2>4, <3>1
    <3>3. /\ \E i \in Idx : inflight[k].next[i] = Placeholder(q, m)
          /\ \E i \in Idx : inflight[k].next[i] = Placeholder(q, n)
      BY <2>2, <3>2
    <3> HIDE DEF k, at, f
    <3>4. PICK i \in Idx : inflight[k].next[i] = Placeholder(q, m)
      BY <3>3
    <3>5. PICK j \in Idx : inflight[k].next[j] = Placeholder(q, n)
      BY <3>3
    <3>6. NextOnce(inflight[k]) /\ inflight[k].next[i] # None /\ inflight[k].next[j] # None
      BY <3>2, <3>4, <3>5, PlaceholderSome DEF Batches
    <3>7. i = j
      BY <3>4, <3>5, <3>6 DEF NextOnce, Placeholder
    <3> QED BY <3>4, <3>5, <3>7 DEF Placeholder
  <2> HIDE DEF f
  <2>5. /\ IsFiniteSet(1 .. L) /\ Cardinality(1 .. L) = L
        /\ IsFiniteSet(1 .. L + 1) /\ Cardinality(1 .. L + 1) = L + 1
    BY <1>1, FS_Interval
  <2>6. Cardinality(1 .. L) < Cardinality(1 .. L + 1)
    BY <1>1, <2>5
  <2>7. \E x, y \in 1 .. L + 1 : x # y /\ f[x] = f[y]
    <3> DEFINE A == 1 .. L + 1
               B == 1 .. L
    <3>1. f \in [A -> B] /\ IsFiniteSet(A) /\ IsFiniteSet(B) /\ Cardinality(B) < Cardinality(A)
      BY <2>3, <2>5, <2>6
    <3> HIDE DEF A, B
    <3>2. \E x, y \in A : x # y /\ f[x] = f[y]
      BY <3>1, FS_PigeonHole
    <3> QED BY <3>2 DEF A
  <2> QED BY <2>4, <2>7
<1>3. FreshNth(q) = Min(S)
  BY DEF FreshNth, L
<1>4. S \in SUBSET Nat
  BY <1>1
<1> HIDE DEF S
<1>5. Min(S) \in S
  BY <1>2, <1>4, MinIn
<1> QED BY <1>3, <1>4, <1>5 DEF S

\* What gathering leaves alone: the sequences that are not of the batch.
LEMMA GatherOthers ==
    ASSUME SlotInv, NEW k, NEW own, Gathers(k, own), NEW i \in Occupied(seqs), i \notin own
    PROVE  /\ req'[seqs[i]] = req[seqs[i]]
           /\ ic'.slots[req[seqs[i]].slot].inputs = ic.slots[req[seqs[i]].slot].inputs
<1>1. seqs[i] \in Requests /\ req[seqs[i]].slot \in Slots
  BY DEF SlotInv, Acc, Owners, Occupied
<1>2. \A j \in own : j \in Occupied(seqs) /\ j # i
  BY DEF Gathers
<1>3. \A j \in own : seqs[j] # seqs[i] /\ req[seqs[j]].slot # req[seqs[i]].slot
  BY <1>2 DEF SlotInv, Acc, Owners
<1> QED BY <1>1, <1>3 DEF Gathers

\* Gathering counts as cached what the batch has taken: the cells are those.
LEMMA GatherCache == ASSUME SlotInv, LogitsInv, CacheInv, NEW k, GatherInputs(k) PROVE CacheInv'
<1> DEFINE own == {i \in Occupied(seqs) : inflight[k].seqs[i] = seqs[i]}
<1>1. Gathers(k, own)
  BY GatherStepIs
<1> HIDE DEF own
<1>2. KvOK(ic.kv) /\ SlotTypes(ic) /\ ReqTypes(req) /\ IsSeq(inflight) /\ Batches(inflight)
  BY DEF CacheInv, CacheTypes, LogitsInv
<1>3. own = {i \in Occupied(seqs) : inflight[k].seqs[i] = seqs[i]} /\ own \subseteq Occupied(seqs)
  BY DEF own
<1>4. /\ \A i \in Occupied(seqs) : i \in Idx /\ seqs[i] \in Requests /\ req[seqs[i]].slot \in Slots
                                   /\ req[seqs[i]].pc = "stream"
      /\ \A i, j \in Occupied(seqs) : i # j => seqs[i] # seqs[j] /\ req[seqs[i]].slot # req[seqs[j]].slot
  BY DEF SlotInv, Acc, Owners, Occupied
<1>5. ASSUME NEW i \in Occupied(seqs)
      PROVE  LET s == req[seqs[i]].slot
             IN  Len(ic.slots[s].inputs) + Len(req[seqs[i]].pending) <= NumCtx
  BY DEF CacheInv, SeqFits
<1>6. \A i \in own : LET s == req[seqs[i]].slot
                         x == ic.slots[s].inputs
                         p == req[seqs[i]].pending
                     IN  /\ x \o p \in Seq(InputType) /\ Len(x \o p) = Len(x) + Len(p)
                         /\ Len(x \o p) <= NumCtx
  <2> TAKE i \in own
  <2> DEFINE s == req[seqs[i]].slot
             x == ic.slots[s].inputs
             p == req[seqs[i]].pending
  <2>1. x \in Seq(InputType) /\ p \in Seq(InputType)
    BY <1>2, <1>3, <1>4 DEF SlotTypes, ReqTypes
  <2>2. Len(x) + Len(p) <= NumCtx
    BY <1>3, <1>5
  <2> HIDE DEF x, p, s
  <2>3. x \o p \in Seq(InputType) /\ Len(x \o p) = Len(x) + Len(p)
    BY <2>1, JoinTyped
  <2>4. Len(x \o p) <= NumCtx
    BY <2>2, <2>3
  <2> QED BY <2>3, <2>4 DEF x, p, s
<1>7. SlotTypes(ic')
  <2> SUFFICES ASSUME NEW s \in Slots
               PROVE  ic'.slots[s].inputs \in Seq(InputType) /\ Len(ic'.slots[s].inputs) <= NumCtx
    BY DEF SlotTypes
  <2>1. CASE \A i \in own : req[seqs[i]].slot # s
    BY <1>1, <1>2, <2>1 DEF Gathers, SlotTypes
  <2>2. CASE \E i \in own : req[seqs[i]].slot = s
    <3>1. PICK i \in own : req[seqs[i]].slot = s
      BY <2>2
    <3>2. ic'.slots[s].inputs = ic.slots[s].inputs \o req[seqs[i]].pending
      BY <1>1, <3>1 DEF Gathers
    <3> QED BY <1>6, <3>1, <3>2
  <2> QED BY <2>1, <2>2
<1>8. \A i \in own : LET q == seqs[i]
                     IN  /\ SameBut(req[q], req'[q]) /\ req'[q].pending = <<>>
                         /\ req'[q].inputs \in Seq(InputType)
  <2> TAKE i \in own
  <2> DEFINE q == seqs[i]
             h == <<Placeholder(q, FreshNth(q))>>
  <2>1. q \in Requests /\ req[q].inputs \in Seq(InputType)
    BY <1>2, <1>3, <1>4 DEF ReqTypes
  <2>2. h \in Seq(InputType)
    <3>1. FreshNth(q) \in Nat
      BY <1>2, <2>1, FreshFound
    <3>2. Placeholder(q, FreshNth(q)) \in InputType
      BY <2>1, <3>1, PlaceholderTyped
    <3> QED BY <3>2
  <2>3. /\ SameBut(req[q], req'[q]) /\ req'[q].pending = <<>>
        /\ req'[q].inputs = IF req[q].inputs = <<>> THEN h ELSE req[q].inputs
    BY <1>1 DEF Gathers
  <2> HIDE DEF q, h
  <2>4. req'[q].inputs \in Seq(InputType)
    BY <2>1, <2>2, <2>3
  <2> QED BY <2>3, <2>4 DEF q
<1>9. ReqTypes(req') /\ NothingTaken(req')
  <2>1. ASSUME NEW q \in Requests, NEW i \in own, seqs[i] = q
        PROVE  /\ SameBut(req[q], req'[q]) /\ req'[q].pending = <<>>
               /\ req'[q].inputs \in Seq(InputType)
    BY <1>8, <2>1
  <2>2. ASSUME NEW q \in Requests, \A i \in own : seqs[i] # q PROVE req'[q] = req[q]
    BY <1>1, <2>2 DEF Gathers
  <2>3. <<>> \in Seq(InputType) /\ Len(<<>>) = 0
    OBVIOUS
  <2>4. NothingTaken(req)
    BY DEF CacheInv
  <2>5. ReqTypes(req')
    BY <1>2, <2>1, <2>2, <2>3 DEF ReqTypes, SameBut
  <2>6. NothingTaken(req')
    BY <2>1, <2>2, <2>3, <2>4 DEF NothingTaken
  <2> QED BY <2>5, <2>6
<1>10. ASSUME NEW i \in Occupied(seqs') PROVE SeqFits(req', seqs', ic', i)
  <2>1. seqs' = seqs /\ ic'.kv = ic.kv /\ i \in Occupied(seqs)
    BY <1>1 DEF Gathers
  <2>2. SeqFits(req, seqs, ic, i)
    BY <2>1 DEF CacheInv
  <2> DEFINE q == seqs[i]
             s == req[q].slot
  <2>3. CASE i \notin own
    <3>1. req'[q] = req[q] /\ ic'.slots[s].inputs = ic.slots[s].inputs
      BY <1>1, <2>1, <2>3, GatherOthers
    <3> QED BY <2>1, <2>2, <3>1 DEF SeqFits
  <2>4. CASE i \in own
    <3>1. /\ req'[q].slot = s /\ req'[q].pending = <<>>
          /\ ic'.slots[s].inputs = ic.slots[s].inputs \o req[q].pending
      BY <1>1, <2>4 DEF Gathers, SameBut
    <3>2. Len(ic'.slots[s].inputs) = Len(ic.slots[s].inputs) + Len(req[q].pending)
      BY <1>6, <2>4, <3>1
    <3>3. ic'.slots[s].inputs \in Seq(InputType)
      BY <1>6, <2>4, <3>1
    <3>4. Len(ic'.slots[s].inputs) \in Nat
      BY <3>3, LengthNat
    <3>5. Len(ic'.slots[s].inputs) + Len(req'[q].pending) = Len(ic.slots[s].inputs) + Len(req[q].pending)
      <4>1. Len(<<>>) = 0
        OBVIOUS
      <4>2. Len(req'[q].pending) = 0
        BY <3>1, <4>1, Zenon
      <4> QED BY <3>2, <3>4, <4>2
    <3> QED BY <2>1, <2>2, <3>1, <3>5 DEF SeqFits
  <2> QED BY <2>3, <2>4
<1>11. PendingReady(req', seqs', inflight')
  <2> SUFFICES ASSUME NEW i \in Occupied(seqs'), Len(req'[seqs'[i]].pending) > 0 PROVE FALSE
    BY DEF PendingReady
  <2>1. seqs' = seqs /\ i \in Occupied(seqs)
    BY <1>1 DEF Gathers
  <2>2. i \notin own
    <3> SUFFICES ASSUME i \in own PROVE FALSE
      OBVIOUS
    <3>1. req'[seqs[i]].pending = <<>>
      BY <1>8
    <3>2. Len(req'[seqs[i]].pending) = 0
      BY <3>1
    <3> QED BY <2>1, <3>2
  <2>3. req'[seqs[i]] = req[seqs[i]]
    BY <1>1, <2>1, <2>2, GatherOthers
  <2>4. PICK j \in DOMAIN inflight : inflight[j].stage = "ready" /\ inflight[j].seqs[i] = seqs[i]
    BY <2>1, <2>3 DEF CacheInv, PendingReady
  <2>5. j = k
    BY <1>1, <2>4 DEF Gathers
  <2> QED BY <1>3, <2>1, <2>2, <2>4, <2>5
<1>12. Batches(inflight')
  <2> SUFFICES ASSUME NEW j \in DOMAIN inflight'
               PROVE  Len(inflight'[j].entries) \in 1 .. BatchSize /\ NextOnce(inflight'[j]) /\ NextOwn(inflight'[j])
    BY DEF Batches
  <2>1. j \in DOMAIN inflight
    BY <1>1 DEF Gathers
  <2>2. Len(inflight[j].entries) \in 1 .. BatchSize /\ NextOnce(inflight[j]) /\ NextOwn(inflight[j])
    BY <1>2, <2>1 DEF Batches
  <2>3. CASE j # k
    <3>1. inflight'[j] = inflight[j]
      BY <1>1, <2>1, <2>3 DEF Gathers
    <3> QED BY <2>2, <3>1
  <2>4. CASE j = k
    <3> DEFINE b == inflight'[k]
    <3>1. /\ b.entries = inflight[k].entries /\ b.seqs = inflight[k].seqs
          /\ \A i \in Idx : b.next[i] = IF i \in own /\ req[seqs[i]].inputs = <<>>
                                        THEN Placeholder(seqs[i], FreshNth(seqs[i])) ELSE None
      BY <1>1 DEF Gathers
    <3>2. \A i \in Idx : b.next[i] # None => i \in own /\ b.next[i] = Placeholder(seqs[i], FreshNth(seqs[i]))
      BY <3>1
    <3> HIDE DEF b
    <3>3. \A i \in Idx : b.next[i] # None => /\ i \in Occupied(seqs) /\ b.seqs[i] = seqs[i]
                                             /\ b.next[i].of = seqs[i]
                                             /\ b.next[i].nth = FreshNth(seqs[i])
      <4> TAKE i \in Idx
      <4> HAVE b.next[i] # None
      <4>1. i \in own /\ b.next[i] = Placeholder(seqs[i], FreshNth(seqs[i]))
        BY <3>2
      <4>2. i \in Occupied(seqs) /\ b.seqs[i] = seqs[i]
        BY <1>3, <3>1, <4>1
      <4>3. b.next[i].of = seqs[i] /\ b.next[i].nth = FreshNth(seqs[i])
        <5> DEFINE x == seqs[i]
                   n == FreshNth(x)
        <5> HIDE DEF x, n
        <5>1. b.next[i] = Placeholder(x, n)
          BY <4>1 DEF x, n
        <5>2. b.next[i].of = x /\ b.next[i].nth = n
          BY <5>1 DEF Placeholder
        <5> QED BY <5>2 DEF x, n
      <4> QED BY <4>2, <4>3
    <3>4. NextOnce(b)
      BY <1>4, <3>3 DEF NextOnce
    <3>5. NextOwn(b)
      BY <3>2, <3>3 DEF NextOwn
    <3> QED BY <2>2, <2>4, <3>1, <3>4, <3>5 DEF b
  <2> QED BY <2>3, <2>4
<1>13. CacheTypes(req', ic') /\ panic' # "kv full"
  BY <1>1, <1>2, <1>7, <1>9 DEF CacheTypes, Gathers, CacheInv
<1> QED BY <1>9, <1>10, <1>11, <1>12, <1>13 DEF CacheInv

-----------------------------------------------------------------------------
(* The loop of computeBatch *)

ReqFields == {"pc", "inputs", "pending", "slot", "iBatch", "predicted", "held",
              "quit", "limit", "keep", "shift", "reason"}

\* v is w after token t became known for the placeholder p of sequence q.
Knows(w, v, q, p, t) ==
    /\ DOMAIN v = DOMAIN w /\ v.seqs = w.seqs /\ v.panic = w.panic
    /\ DOMAIN v.ic = DOMAIN w.ic /\ v.ic.kv = w.ic.kv
    /\ DOMAIN v.ic.slots = Slots
    /\ \A s \in Slots : /\ DOMAIN v.ic.slots[s] = DOMAIN w.ic.slots[s]
                        /\ v.ic.slots[s].inputs = Filled(w.ic.slots[s].inputs, p, t)
    /\ DOMAIN v.req = Requests
    /\ \A x \in Requests \ {q} : v.req[x] = w.req[x]
    /\ DOMAIN v.req[q] = DOMAIN w.req[q] /\ SameBut(w.req[q], v.req[q])
    /\ v.req[q].inputs = Filled(w.req[q].inputs, p, t)
    /\ v.req[q].pending = Filled(w.req[q].pending, p, t)
    /\ v.inflight = [k \in DOMAIN w.inflight |-> FilledBatch(w.inflight[k], p, t)]

\* What Known changes.
LEMMA KnownIs ==
    ASSUME NEW w, NEW n, NEW sq, DecodeInv(w, n, sq), NEW p, p.of \in Requests, NEW t,
           NEW v, v = Known(w, p, t)
    PROVE  Knows(w, v, p.of, p, t)
<1> DEFINE q  == p.of
           r  == Resolve(w, p, t)
           sl == [s \in Slots |-> FilledSlot(w.ic.slots[s], p, t)]
           nf == [k \in DOMAIN w.inflight |-> FilledBatch(w.inflight[k], p, t)]
<1>1. /\ DOMAIN w = {"req", "seqs", "sem", "ic", "inflight", "panic"} /\ DOMAIN w.req = Requests
      /\ DOMAIN w.ic = {"kv", "slots", "used", "multi"}
      /\ \A s \in Slots : DOMAIN w.ic.slots[s] = {"inputs", "inUse"}
      /\ \A x \in Requests : DOMAIN w.req[x] = ReqFields
  BY DEF DecodeInv, Acc, ReqShape, CacheShape, SlotShape, ReqFields
<1>2. DOMAIN r = DOMAIN w /\ r.seqs = w.seqs /\ r.panic = w.panic /\ r.inflight = nf
  BY <1>1 DEF Resolve
<1>3. r.ic = [w.ic EXCEPT !.slots = sl]
  BY <1>1 DEF Resolve
<1>4. r.req = [w.req EXCEPT ![q].inputs = Filled(@, p, t), ![q].pending = Filled(@, p, t)]
  BY <1>1 DEF Resolve
<1>5. v = [r EXCEPT !.req[q].predicted = @ + 1]
  BY DEF Known
<1>6. /\ DOMAIN sl = Slots
      /\ \A s \in Slots : /\ DOMAIN sl[s] = DOMAIN w.ic.slots[s]
                          /\ sl[s].inputs = Filled(w.ic.slots[s].inputs, p, t)
  BY <1>1 DEF FilledSlot
<1> HIDE DEF r, sl, nf
<1>7. /\ DOMAIN v = DOMAIN w /\ v.seqs = w.seqs /\ v.panic = w.panic /\ v.inflight = nf
      /\ v.ic = r.ic /\ v.req = [r.req EXCEPT ![q].predicted = @ + 1]
  BY <1>1, <1>2, <1>5
<1>8. DOMAIN v.ic = DOMAIN w.ic /\ v.ic.kv = w.ic.kv /\ v.ic.slots = sl
  BY <1>1, <1>3, <1>7
<1>9. q \in Requests
  OBVIOUS
<1> HIDE DEF q
<1>10. /\ DOMAIN r.req = Requests /\ \A x \in Requests \ {q} : r.req[x] = w.req[x]
       /\ DOMAIN r.req[q] = ReqFields /\ SameBut(w.req[q], r.req[q])
       /\ r.req[q].inputs = Filled(w.req[q].inputs, p, t)
       /\ r.req[q].pending = Filled(w.req[q].pending, p, t)
  BY <1>1, <1>4, <1>9 DEF SameBut, ReqFields
<1>11. /\ DOMAIN v.req = Requests /\ \A x \in Requests \ {q} : v.req[x] = w.req[x]
       /\ DOMAIN v.req[q] = ReqFields /\ SameBut(w.req[q], v.req[q])
       /\ v.req[q].inputs = Filled(w.req[q].inputs, p, t)
       /\ v.req[q].pending = Filled(w.req[q].pending, p, t)
  BY <1>7, <1>9, <1>10 DEF SameBut, ReqFields
<1> QED BY <1>1, <1>6, <1>7, <1>8, <1>9, <1>11 DEF Knows, nf, q

\* A request that ended keeps nothing.
Over(r) == /\ r.pc = "done" /\ r.inputs = <<>> /\ r.pending = <<>> /\ r.slot = None /\ r.keep = 0
           /\ r.reason \in {"gone", "length", "stop"}

\* What removeSequence changes.
LEMMA RemovedIs ==
    ASSUME NEW w, NEW n, NEW sq, DecodeInv(w, n, sq), NEW i \in Idx, w.seqs[i] # None,
           NEW why \in {"gone", "length", "stop"}, NEW v, v = removeSequence(w, i, why)
    PROVE  /\ v.ic.kv = w.ic.kv /\ v.inflight = w.inflight
           /\ \A s \in Slots : v.ic.slots[s].inputs = w.ic.slots[s].inputs
           /\ v.seqs = [w.seqs EXCEPT ![i] = None]
           /\ \A x \in Requests \ {w.seqs[i]} : v.req[x] = w.req[x]
           /\ Over(v.req[w.seqs[i]])
<1> DEFINE q   == w.seqs[i]
           s   == w.req[q].slot
           new == [Blank EXCEPT !.pc = "done", !.reason = why, !.predicted = w.req[q].predicted]
<1>1. /\ DOMAIN w = {"req", "seqs", "sem", "ic", "inflight", "panic"} /\ DOMAIN w.req = Requests
      /\ DOMAIN w.ic = {"kv", "slots", "used", "multi"} /\ DOMAIN w.ic.slots = Slots
      /\ \A x \in Slots : DOMAIN w.ic.slots[x] = {"inputs", "inUse"}
      /\ q \in Requests
  BY DEF DecodeInv, Acc, ReqShape, CacheShape, SlotShape, Owners, Occupied
<1>2. Over(new)
  BY DEF Blank, Over
<1>3. v = [w EXCEPT !.req[q] = new, !.seqs[i] = None, !.sem = @ - 1, !.ic.slots[s].inUse = FALSE]
  BY DEF removeSequence
<1> HIDE DEF q, s, new
<1>4. /\ v.inflight = w.inflight /\ v.seqs = [w.seqs EXCEPT ![i] = None]
      /\ v.req = [w.req EXCEPT ![q] = new] /\ v.ic = [w.ic EXCEPT !.slots[s].inUse = FALSE]
  BY <1>1, <1>3
<1>5. v.ic.kv = w.ic.kv /\ v.ic.slots = [w.ic.slots EXCEPT ![s].inUse = FALSE]
  BY <1>1, <1>4
<1>6. \A x \in Slots : v.ic.slots[x].inputs = w.ic.slots[x].inputs
  BY <1>1, <1>5
<1>7. (\A x \in Requests \ {q} : v.req[x] = w.req[x]) /\ v.req[q] = new
  BY <1>1, <1>4
<1> QED BY <1>2, <1>4, <1>5, <1>6, <1>7 DEF q

\* What a round of the loop does that samples token t for sequence i, whose
\* placeholder is p: everyone who points to p gets to know t, and the sequence
\* goes on or ends, in which case its slot may lose some of its last inputs.
Yields(w, v, i, p, t) ==
    LET q == w.seqs[i]
        f(s) == Filled(w.ic.slots[s].inputs, p, t)
    IN  /\ v.ic.kv = w.ic.kv
        /\ v.inflight = [k \in DOMAIN w.inflight |-> FilledBatch(w.inflight[k], p, t)]
        /\ \A j \in Idx \ {i} : v.seqs[j] = w.seqs[j]
        /\ \A x \in Requests \ {q} : v.req[x] = w.req[x]
        /\ \A s \in Slots : s # w.req[q].slot \/ v.seqs[i] # None => v.ic.slots[s].inputs = f(s)
        /\ \E n \in 0 .. Len(f(w.req[q].slot)) :
               v.ic.slots[w.req[q].slot].inputs = SubSeq(f(w.req[q].slot), 1, n)
        /\ \/ /\ v.seqs[i] = q /\ SameBut(w.req[q], v.req[q])
              /\ v.req[q].inputs = Filled(w.req[q].inputs, p, t)
              /\ v.req[q].pending = Filled(w.req[q].pending, p, t)
           \/ v.seqs[i] = None /\ Over(v.req[q])

\* What sampling may lead to, with the reasons a sequence ends for.
LEMMA SampledEnds ==
    ASSUME NEW w, NEW i, NEW q, NEW o, NEW v, v = Sampled(w, i, q, o)
    PROVE  \/ \E why \in {"gone", "length", "stop"} : v = removeSequence(w, i, why)
           \/ \E x : v = [w EXCEPT !.req[q].held = x]
           \/ v = StopAt(w, i, w.req[q].slot, o.cut)
<1>2. CASE o.what = "eos"
  BY <1>2 DEF Sampled
<1>3. CASE o.what # "eos" /\ w.req[q].limit > 0 /\ w.req[q].predicted >= w.req[q].limit
  BY <1>3 DEF Sampled
<1>4. CASE o.what # "eos" /\ ~(w.req[q].limit > 0 /\ w.req[q].predicted >= w.req[q].limit)
  <2>1. CASE o.what = "stop"
    BY <1>4, <2>1 DEF Sampled
  <2>2. CASE o.what = "hold"
    BY <1>4, <2>2 DEF Sampled
  <2>3. CASE o.what = "flush"
    BY <1>4, <2>3 DEF Sampled
  <2>4. CASE o.what \notin {"stop", "hold", "flush"}
    BY <1>4, <2>4 DEF Sampled
  <2> QED BY <2>1, <2>2, <2>3, <2>4
<1> QED BY <1>2, <1>3, <1>4

\* A token that is sampled is no placeholder.
LEMMA OutcomeToken ==
    ASSUME NEW o \in Outcomes
    PROVE  o.token \in Nat \ {0} /\ o.cut \in Nat
<1>1. PICK top \in Vocab : \A t \in Vocab : t <= top
  BY RunnerConstants
<1>2. Vocab \subseteq Nat \ {0} /\ MaxHeld \in Nat
  BY RunnerConstants
<1>3. Max(Vocab) \in Nat
  <2>1. top \in Nat /\ Vocab \in SUBSET (0 .. top)
    BY <1>1, <1>2
  <2>2. Max(Vocab) \in Vocab
    BY <2>1, MaxIn
  <2> QED BY <1>2, <2>2
<1>4. Max(Vocab) + 1 \in Nat \ {0}
  BY <1>3
<1>5. o.token \in Vocab \cup {Max(Vocab) + 1} /\ (o.cut = 0 \/ o.cut \in 0 .. MaxHeld)
  BY DEF Outcomes
<1>6. o.token \in Nat \ {0}
  BY <1>2, <1>4, <1>5
<1>7. o.cut \in Nat
  BY <1>2, <1>5
<1> QED BY <1>6, <1>7

\* The whole of a sequence is a part of it.
LEMMA WholePart ==
    ASSUME NEW s \in Seq(InputType)
    PROVE  Len(s) \in 0 .. Len(s) /\ SubSeq(s, 1, Len(s)) = s
<1>1. Len(s) \in Nat
  BY LengthNat
<1> QED BY <1>1

\* A round of the loop.
LEMMA DecodeOneIs ==
    ASSUME NEW w, NEW i \in Idx, NEW sq, DecodeInv(w, i, sq), w.seqs[i] # None, SlotTypes(w.ic),
           NEW p, p.of = w.seqs[i], NEW o \in Outcomes, NEW u, u = DecodeOne(w, i, p, o)
    PROVE  u = w \/ \E t \in Nat \ {0} : Yields(w, u, i, p, t)
<1> DEFINE t == o.token
           q == w.seqs[i]
           s == w.req[q].slot
           v == Known(w, p, t)
           f == Filled(w.ic.slots[s].inputs, p, t)
<1>1. CASE w.panic # "no"
  BY <1>1 DEF DecodeOne
<1>2. CASE w.panic = "no"
  <2>1. u = Sampled(v, i, q, o) /\ t \in Nat \ {0} /\ o.cut \in Nat
    BY <1>2, OutcomeToken DEF DecodeOne, Known
  <2>2. q \in Requests /\ s \in Slots /\ q = p.of /\ t \in Nat
    BY <2>1 DEF DecodeInv, Acc, Owners, Occupied
  <2>3. DecodeInv(v, i, sq) /\ v.seqs = w.seqs /\ v.panic = w.panic
    BY ResolveKeeps
  <2>4. Knows(w, v, q, p, t)
    BY <2>2, KnownIs
  <2>5. f \in Seq(InputType) /\ Len(f) \in 0 .. Len(f) /\ SubSeq(f, 1, Len(f)) = f
    <3>1. w.ic.slots[s].inputs \in Seq(InputType)
      BY <2>2 DEF SlotTypes
    <3>2. f \in Seq(InputType)
      BY <2>2, <3>1, FilledTyped
    <3> HIDE DEF f
    <3> QED BY <3>2, WholePart
  <2> HIDE DEF t, q, v
  <2>6. v.req[q].slot = s /\ v.ic.slots[s].inputs = f
    BY <2>2, <2>4 DEF Knows, SameBut
  <2>7. /\ DOMAIN v = {"req", "seqs", "sem", "ic", "inflight", "panic"}
        /\ DOMAIN v.ic = {"kv", "slots", "used", "multi"} /\ DOMAIN v.req = Requests
        /\ DOMAIN v.ic.slots = Slots /\ \A x \in Slots : DOMAIN v.ic.slots[x] = {"inputs", "inUse"}
        /\ DOMAIN v.req[q] = ReqFields
    BY <2>2, <2>3 DEF DecodeInv, Acc, ReqShape, CacheShape, SlotShape, ReqFields
  <2>8. /\ v.ic.kv = w.ic.kv
        /\ v.inflight = [k \in DOMAIN w.inflight |-> FilledBatch(w.inflight[k], p, t)]
        /\ \A x \in Slots : v.ic.slots[x].inputs = Filled(w.ic.slots[x].inputs, p, t)
        /\ \A x \in Requests \ {q} : v.req[x] = w.req[x]
        /\ SameBut(w.req[q], v.req[q])
        /\ v.req[q].inputs = Filled(w.req[q].inputs, p, t)
        /\ v.req[q].pending = Filled(w.req[q].pending, p, t)
    BY <2>4 DEF Knows
  <2>9. w.seqs[i] = q /\ q # None /\ DOMAIN w.seqs = Idx
    BY <2>2 DEF q, DecodeInv, Acc, Owners
  <2> HIDE DEF f, s
  <2>10. ASSUME NEW x, NEW why \in {"gone", "length", "stop"}, u = removeSequence(x, i, why),
                DecodeInv(x, i, sq), x.seqs = v.seqs, x.req = v.req, x.inflight = v.inflight,
                x.ic.kv = v.ic.kv,
                \A y \in Slots \ {s} : x.ic.slots[y].inputs = v.ic.slots[y].inputs,
                \E n \in 0 .. Len(f) : x.ic.slots[s].inputs = SubSeq(f, 1, n)
         PROVE  Yields(w, u, i, p, t)
    <3>1. x.seqs[i] # None /\ x.seqs[i] = q /\ DOMAIN x.seqs = Idx
      BY <2>3, <2>9, <2>10
    <3>2. /\ u.ic.kv = x.ic.kv /\ u.inflight = x.inflight
          /\ \A y \in Slots : u.ic.slots[y].inputs = x.ic.slots[y].inputs
          /\ u.seqs = [x.seqs EXCEPT ![i] = None]
          /\ \A y \in Requests \ {x.seqs[i]} : u.req[y] = x.req[y]
          /\ Over(u.req[x.seqs[i]])
      BY <2>10, <3>1, RemovedIs
    <3>3. u.seqs[i] = None /\ \A j \in Idx \ {i} : u.seqs[j] = w.seqs[j]
      BY <2>3, <2>10, <3>1, <3>2
    <3>4. Over(u.req[q]) /\ \A y \in Requests \ {q} : u.req[y] = w.req[y]
      BY <2>8, <2>10, <3>1, <3>2
    <3>5. \A y \in Slots \ {s} : u.ic.slots[y].inputs = Filled(w.ic.slots[y].inputs, p, t)
      BY <2>8, <2>10, <3>2
    <3>6. \E n \in 0 .. Len(f) : u.ic.slots[s].inputs = SubSeq(f, 1, n)
      BY <2>2, <2>10, <3>2
    <3>7. u.ic.kv = w.ic.kv
          /\ u.inflight = [k \in DOMAIN w.inflight |-> FilledBatch(w.inflight[k], p, t)]
      BY <2>8, <2>10, <3>2
    <3> QED BY <2>9, <3>3, <3>4, <3>5, <3>6, <3>7 DEF Yields, f, s
  <2>11. ASSUME u.seqs = v.seqs, u.ic = v.ic, u.inflight = v.inflight,
                \A y \in Requests \ {q} : u.req[y] = v.req[y],
                SameBut(v.req[q], u.req[q]), u.req[q].inputs = v.req[q].inputs,
                u.req[q].pending = v.req[q].pending
         PROVE  Yields(w, u, i, p, t)
    <3>1. u.seqs[i] = q /\ u.seqs[i] # None /\ \A j \in Idx \ {i} : u.seqs[j] = w.seqs[j]
      BY <2>3, <2>9, <2>11
    <3>2. /\ SameBut(w.req[q], u.req[q]) /\ u.req[q].inputs = Filled(w.req[q].inputs, p, t)
          /\ u.req[q].pending = Filled(w.req[q].pending, p, t)
          /\ \A y \in Requests \ {q} : u.req[y] = w.req[y]
      BY <2>8, <2>11 DEF SameBut
    <3>3. \A y \in Slots : u.ic.slots[y].inputs = Filled(w.ic.slots[y].inputs, p, t)
      BY <2>8, <2>11
    <3>4. u.ic.kv = w.ic.kv
          /\ u.inflight = [k \in DOMAIN w.inflight |-> FilledBatch(w.inflight[k], p, t)]
      BY <2>8, <2>11
    <3>5. \E n \in 0 .. Len(f) : u.ic.slots[s].inputs = SubSeq(f, 1, n)
      BY <2>5, <2>6, <2>11
    <3> QED BY <2>9, <3>1, <3>2, <3>3, <3>4, <3>5 DEF Yields, f, s
  <2>12. ASSUME NEW why \in {"gone", "length", "stop"}, u = removeSequence(v, i, why)
         PROVE  Yields(w, u, i, p, t)
    <3>1. \E n \in 0 .. Len(f) : v.ic.slots[s].inputs = SubSeq(f, 1, n)
      BY <2>5, <2>6
    <3> QED BY <2>3, <2>10, <2>12, <3>1
  <2>13. ASSUME NEW x, u = [v EXCEPT !.req[q].held = x]
         PROVE  Yields(w, u, i, p, t)
    <3>1. /\ u.seqs = v.seqs /\ u.ic = v.ic /\ u.inflight = v.inflight
          /\ u.req = [v.req EXCEPT ![q].held = x]
      BY <2>7, <2>13
    <3>2. /\ \A y \in Requests \ {q} : u.req[y] = v.req[y]
          /\ SameBut(v.req[q], u.req[q]) /\ u.req[q].inputs = v.req[q].inputs
          /\ u.req[q].pending = v.req[q].pending
      BY <2>2, <2>7, <3>1 DEF SameBut, ReqFields
    <3> QED BY <2>11, <3>1, <3>2
  <2>14. ASSUME u = StopAt(v, i, v.req[q].slot, o.cut)
         PROVE  Yields(w, u, i, p, t)
    <3> DEFINE y == SubSeq(f, 1, Len(f) - o.cut)
               x == [v EXCEPT !.ic.slots[s].inputs = y]
    <3>1. CASE o.cut > Len(f)
      <4>1. u = [v EXCEPT !.panic = "stop"]
        BY <2>6, <2>14, <3>1 DEF StopAt
      <4>2. u.seqs = v.seqs /\ u.ic = v.ic /\ u.inflight = v.inflight /\ u.req = v.req
        BY <2>7, <4>1
      <4> QED BY <2>11, <4>2 DEF SameBut
    <3>2. CASE ~(o.cut > Len(f))
      <4>1. u = removeSequence(x, i, "stop")
        BY <2>6, <2>14, <3>2 DEF StopAt
      <4>2. Len(f) - o.cut \in 0 .. Len(f) /\ Len(f) \in Nat
        BY <2>1, <2>5, <3>2
      <4>3. IsSeq(y)
        BY <4>2, SubIsSeq
      <4>4. \E n \in 0 .. Len(f) : y = SubSeq(f, 1, n)
        BY <4>2
      <4> HIDE DEF y
      <4>5. /\ DOMAIN x = DOMAIN v /\ x.seqs = v.seqs /\ x.sem = v.sem /\ x.panic = v.panic
            /\ x.req = v.req /\ x.inflight = v.inflight
            /\ x.ic = [v.ic EXCEPT !.slots[s].inputs = y]
        BY <2>7
      <4> HIDE DEF x
      <4>6. x.ic.kv = v.ic.kv /\ x.ic.slots = [v.ic.slots EXCEPT ![s].inputs = y]
        BY <2>7, <4>5
      <4>7. /\ \A z \in Slots \ {s} : x.ic.slots[z].inputs = v.ic.slots[z].inputs
            /\ x.ic.slots[s].inputs = y
        BY <2>2, <2>7, <4>6
      <4>8. SameUse(v.ic, x.ic)
        <5>1. x.ic = [v.ic EXCEPT !.kv = v.ic.kv, !.slots[s].inputs = y]
          BY <2>7, <4>5
        <5>2. CacheShape(v.ic)
          BY <2>3 DEF DecodeInv, Acc
        <5> QED BY <2>2, <4>3, <5>1, <5>2, InputsOfSlot
      <4>9. SameReq(v.req, x.req)
        BY <2>3, <4>5 DEF SameReq, DecodeInv, Acc
      <4>10. Acc(x.req, x.seqs, x.sem, x.ic)
        BY <2>3, <4>5, <4>8, <4>9, SameKeeps DEF DecodeInv
      <4>11. DecodeInv(x, i, sq)
        BY <2>3, <4>5, <4>10 DEF DecodeInv
      <4> QED BY <2>10, <4>1, <4>4, <4>5, <4>6, <4>7, <4>11
    <3> QED BY <3>1, <3>2
  <2>15. \/ \E why \in {"gone", "length", "stop"} : u = removeSequence(v, i, why)
         \/ \E x : u = [v EXCEPT !.req[q].held = x]
         \/ u = StopAt(v, i, v.req[q].slot, o.cut)
    BY <2>1, SampledEnds
  <2> QED BY <2>1, <2>12, <2>13, <2>14, <2>15
<1> QED BY <1>1, <1>2

\* What a round keeps, compared with the state rq, sq and c before the loop: a
\* sequence that is left has as much taken and as much cached as then.
DecodeCache(w, rq, sq, c) ==
    /\ w.ic.kv = c.kv
    /\ ReqTypes(w.req) /\ SlotTypes(w.ic) /\ NothingTaken(w.req)
    /\ \A i \in Occupied(w.seqs) :
        LET r == w.req[w.seqs[i]]
        IN  /\ w.seqs[i] = sq[i] /\ r.slot = rq[sq[i]].slot
            /\ Len(r.pending) = Len(rq[sq[i]].pending)
            /\ Len(w.ic.slots[r.slot].inputs) = Len(c.slots[r.slot].inputs)

\* Over is a request.
LEMMA OverTyped ==
    ASSUME NEW r, Over(r)
    PROVE  /\ r.pc \in {"new", "acquire", "load", "stream", "done"}
           /\ r.inputs \in Seq(InputType) /\ r.pending \in Seq(InputType)
           /\ r.slot \in Slots \cup {None}
           /\ r.keep \in 0 .. NumCtx - 1
           /\ r.reason \in {None, "error", "gone", "length", "stop"}
<1>1. 0 \in 0 .. NumCtx - 1
  BY CacheConstants
<1>2. <<>> \in Seq(InputType)
  OBVIOUS
<1> QED BY <1>1, <1>2 DEF Over

\* A round keeps it.
LEMMA YieldsCache ==
    ASSUME NEW w, NEW i \in Idx, NEW sq, DecodeInv(w, i, sq), w.seqs[i] # None,
           NEW rq, NEW c, DecodeCache(w, rq, sq, c),
           NEW p, NEW t \in Nat, NEW v, Yields(w, v, i, p, t)
    PROVE  DecodeCache(v, rq, sq, c)
<1> DEFINE q == w.seqs[i]
           s == w.req[q].slot
           f(x) == Filled(w.ic.slots[x].inputs, p, t)
<1>1. /\ q \in Requests /\ s \in Slots /\ i \in Occupied(w.seqs) /\ q # None
      /\ \A j \in Occupied(w.seqs) : w.seqs[j] \in Requests /\ w.req[w.seqs[j]].slot \in Slots
      /\ \A j \in Occupied(w.seqs) \ {i} : w.seqs[j] # q /\ w.req[w.seqs[j]].slot # s
  BY DEF DecodeInv, Acc, Owners, Occupied
<1>2. /\ v.ic.kv = w.ic.kv
      /\ \A j \in Idx \ {i} : v.seqs[j] = w.seqs[j]
      /\ \A x \in Requests \ {q} : v.req[x] = w.req[x]
      /\ \A x \in Slots : x # s \/ v.seqs[i] # None => v.ic.slots[x].inputs = f(x)
      /\ \E n \in 0 .. Len(f(s)) : v.ic.slots[s].inputs = SubSeq(f(s), 1, n)
      /\ \/ /\ v.seqs[i] = q /\ SameBut(w.req[q], v.req[q])
            /\ v.req[q].inputs = Filled(w.req[q].inputs, p, t)
            /\ v.req[q].pending = Filled(w.req[q].pending, p, t)
         \/ v.seqs[i] = None /\ Over(v.req[q])
  BY DEF Yields
<1>3. /\ w.ic.kv = c.kv /\ ReqTypes(w.req) /\ SlotTypes(w.ic) /\ NothingTaken(w.req)
  BY DEF DecodeCache
<1>4. \A x \in Slots : f(x) \in Seq(InputType) /\ Len(f(x)) = Len(w.ic.slots[x].inputs)
                       /\ Len(w.ic.slots[x].inputs) <= NumCtx /\ Len(f(x)) \in Nat
  <2> TAKE x \in Slots
  <2>1. w.ic.slots[x].inputs \in Seq(InputType) /\ Len(w.ic.slots[x].inputs) <= NumCtx
    BY <1>3 DEF SlotTypes
  <2>2. f(x) \in Seq(InputType) /\ Len(f(x)) = Len(w.ic.slots[x].inputs)
    BY <2>1, FilledTyped
  <2> HIDE DEF f
  <2> QED BY <2>1, <2>2, LengthNat
<1> HIDE DEF q, s, f
<1>5. v.seqs[i] = q =>
        /\ v.req[q].inputs \in Seq(InputType) /\ v.req[q].pending \in Seq(InputType)
        /\ Len(v.req[q].pending) = Len(w.req[q].pending)
  <2>1. w.req[q].inputs \in Seq(InputType) /\ w.req[q].pending \in Seq(InputType)
    BY <1>1, <1>3 DEF ReqTypes
  <2>2. /\ Filled(w.req[q].inputs, p, t) \in Seq(InputType)
        /\ Filled(w.req[q].pending, p, t) \in Seq(InputType)
        /\ Len(Filled(w.req[q].pending, p, t)) = Len(w.req[q].pending)
    BY <2>1, FilledTyped
  <2> QED BY <1>1, <1>2, <2>2
<1>6. SlotTypes(v.ic)
  <2> SUFFICES ASSUME NEW x \in Slots
               PROVE  v.ic.slots[x].inputs \in Seq(InputType) /\ Len(v.ic.slots[x].inputs) <= NumCtx
    BY DEF SlotTypes
  <2>1. CASE x # s
    <3>1. v.ic.slots[x].inputs = f(x)
      BY <1>2, <2>1
    <3> QED BY <1>4, <3>1
  <2>2. CASE x = s
    <3>1. PICK n \in 0 .. Len(f(s)) : v.ic.slots[s].inputs = SubSeq(f(s), 1, n)
      BY <1>2
    <3> DEFINE y == f(s)
    <3>2. y \in Seq(InputType) /\ Len(y) \in Nat /\ Len(y) <= NumCtx /\ n \in 0 .. Len(y)
      BY <1>1, <1>4
    <3> HIDE DEF y
    <3>3. SubSeq(y, 1, n) \in Seq(InputType) /\ Len(SubSeq(y, 1, n)) = n
      BY <3>2
    <3>4. n <= NumCtx
      BY <3>2, CacheConstants
    <3> QED BY <2>2, <3>1, <3>3, <3>4 DEF y
  <2> QED BY <2>1, <2>2
<1>7. ReqTypes(v.req)
  <2> SUFFICES ASSUME NEW x \in Requests
               PROVE  /\ v.req[x].pc \in {"new", "acquire", "load", "stream", "done"}
                      /\ v.req[x].inputs \in Seq(InputType) /\ v.req[x].pending \in Seq(InputType)
                      /\ v.req[x].slot \in Slots \cup {None}
                      /\ v.req[x].keep \in 0 .. NumCtx - 1
                      /\ v.req[x].reason \in {None, "error", "gone", "length", "stop"}
    BY DEF ReqTypes
  <2>1. CASE x # q
    BY <1>2, <1>3, <2>1 DEF ReqTypes
  <2>2. CASE x = q /\ v.seqs[i] = q
    <3>1. SameBut(w.req[q], v.req[q])
      BY <1>1, <1>2, <2>2
    <3> QED BY <1>1, <1>3, <1>5, <2>2, <3>1 DEF ReqTypes, SameBut
  <2>3. CASE x = q /\ v.seqs[i] # q
    BY <1>2, <2>3, OverTyped
  <2> QED BY <2>1, <2>2, <2>3
<1>8. NothingTaken(v.req)
  <2> SUFFICES ASSUME NEW x \in Requests, v.req[x].pc \in {"acquire", "load"}
               PROVE  Len(v.req[x].pending) = 0
    BY DEF NothingTaken
  <2>1. w.req[q].pc = "stream"
    BY <1>1 DEF DecodeInv, Acc, Owners, q
  <2>2. x # q
    BY <1>2, <2>1 DEF SameBut, Over
  <2> QED BY <1>2, <1>3, <2>2 DEF NothingTaken
<1>9. ASSUME NEW j \in Occupied(v.seqs)
      PROVE  LET r == v.req[v.seqs[j]]
             IN  /\ v.seqs[j] = sq[j] /\ r.slot = rq[sq[j]].slot
                 /\ Len(r.pending) = Len(rq[sq[j]].pending)
                 /\ Len(v.ic.slots[r.slot].inputs) = Len(c.slots[r.slot].inputs)
  <2>1. v.seqs[j] = w.seqs[j] /\ j \in Occupied(w.seqs)
    BY <1>2 DEF Occupied, q
  <2>2. LET r == w.req[w.seqs[j]]
        IN  /\ w.seqs[j] = sq[j] /\ r.slot = rq[sq[j]].slot
            /\ Len(r.pending) = Len(rq[sq[j]].pending)
            /\ Len(w.ic.slots[r.slot].inputs) = Len(c.slots[r.slot].inputs)
    BY <2>1 DEF DecodeCache
  <2>3. CASE j = i
    <3>1. v.seqs[i] = q /\ w.seqs[j] = q
      BY <2>1, <2>3 DEF q
    <3>2. v.req[q].slot = s /\ w.req[q].slot = s /\ v.ic.slots[s].inputs = f(s)
      BY <1>1, <1>2, <3>1 DEF SameBut, s
    <3> QED BY <1>1, <1>4, <1>5, <2>1, <2>2, <3>1, <3>2
  <2>4. CASE j # i
    <3>1. w.seqs[j] \in Requests \ {q} /\ w.req[w.seqs[j]].slot \in Slots \ {s}
      BY <1>1, <2>1, <2>4
    <3>2. v.req[w.seqs[j]] = w.req[w.seqs[j]]
      BY <1>2, <3>1
    <3>3. v.ic.slots[w.req[w.seqs[j]].slot].inputs = f(w.req[w.seqs[j]].slot)
      BY <1>2, <3>1
    <3> QED BY <1>4, <2>1, <2>2, <3>1, <3>2, <3>3
  <2> QED BY <2>3, <2>4
<1>10. v.ic.kv = c.kv
  BY <1>2, <1>3
<1> QED BY <1>6, <1>7, <1>8, <1>9, <1>10 DEF DecodeCache

\* D[n] is what the loop has made after n rounds; b is the batch.
DecodeRounds(D, b, sq) ==
    /\ \A n \in 0 .. NumSlots : DecodeInv(D[n], n, sq)
    /\ \A n \in Idx :
        \/ D[n + 1] = D[n]
        \/ /\ D[n].seqs[n] # None /\ b.next[n] # None /\ b.seqs[n] = sq[n]
           /\ \E t \in Nat \ {0} : Yields(D[n], D[n + 1], n, b.next[n], t)

\* The rounds of the loop.
LEMMA DecodeAllCache ==
    ASSUME NEW w0, NEW b, NEW sq, DecodeInv(w0, 0, sq),
           NEW rq, NEW c, DecodeCache(w0, rq, sq, c), NextOwn(b),
           NEW mine \in SUBSET {i \in Idx : sq[i] # None}, NEW outcome \in [mine -> Outcomes],
           \A i \in mine : b.next[i] # None /\ b.seqs[i] = sq[i],
           NEW D, D = Decoded(w0, b, outcome)
    PROVE  D[0] = w0 /\ DecodeRounds(D, b, sq) /\ DecodeCache(D[NumSlots], rq, sq, c)
<1> DEFINE S == {n \in Nat : n <= NumSlots => DecodeInv(D[n], n, sq) /\ DecodeCache(D[n], rq, sq, c)}
<1>1. D = [n \in 0 .. NumSlots |-> IF n = 0 THEN w0 ELSE DecodeIndex(D[n - 1], n - 1, b, outcome)]
  BY DecodedRounds
<1>2. ASSUME NEW n \in Idx, DecodeInv(D[n], n, sq), DecodeCache(D[n], rq, sq, c)
      PROVE  /\ DecodeInv(D[n + 1], n + 1, sq) /\ DecodeCache(D[n + 1], rq, sq, c)
             /\ \/ D[n + 1] = D[n]
                \/ /\ D[n].seqs[n] # None /\ b.next[n] # None /\ b.seqs[n] = sq[n]
                   /\ \E t \in Nat \ {0} : Yields(D[n], D[n + 1], n, b.next[n], t)
  <2>1. n + 1 \in 0 .. NumSlots /\ n + 1 # 0 /\ (n + 1) - 1 = n /\ n >= n
    BY SlotCount DEF Idx, Slots
  <2>2. D[n + 1] = DecodeIndex(D[n], n, b, outcome)
    BY <1>1, <2>1
  <2>3. CASE n \in mine
    <3>1. D[n].seqs[n] = sq[n] /\ sq[n] # None /\ b.next[n] # None /\ b.seqs[n] = sq[n]
      BY <1>2, <2>1, <2>3 DEF DecodeInv
    <3>2. b.next[n].of = D[n].seqs[n]
      <4>1. b.next[n] = Placeholder(b.seqs[n], b.next[n].nth)
        BY <3>1 DEF NextOwn
      <4> DEFINE m == b.next[n].nth
      <4> HIDE DEF m
      <4>2. b.next[n] = Placeholder(b.seqs[n], m)
        BY <4>1 DEF m
      <4>3. b.next[n].of = b.seqs[n]
        BY <4>2 DEF Placeholder
      <4> QED BY <3>1, <4>3
    <3>3. outcome[n] \in Outcomes /\ D[n + 1] = DecodeOne(D[n], n, b.next[n], outcome[n])
      BY <2>2, <2>3 DEF DecodeIndex
    <3>4. outcome[n].cut \in Int
      <4>1. outcome[n].cut \in Nat
        BY <3>3, OutcomeToken
      <4> QED BY <4>1
    <3>5. D[n].seqs[n] # None /\ SlotTypes(D[n].ic)
      BY <1>2, <3>1 DEF DecodeCache
    <3>6. DecodeInv(D[n + 1], n + 1, sq)
      BY <1>2, <3>3, <3>4, <3>5, DecodeOneKeeps
    <3>7. D[n + 1] = D[n] \/ \E t \in Nat \ {0} : Yields(D[n], D[n + 1], n, b.next[n], t)
      BY <1>2, <3>2, <3>3, <3>5, DecodeOneIs
    <3>8. DecodeCache(D[n + 1], rq, sq, c)
      <4>1. CASE D[n + 1] = D[n]
        BY <1>2, <4>1
      <4>2. CASE \E t \in Nat \ {0} : Yields(D[n], D[n + 1], n, b.next[n], t)
        <5>1. PICK t \in Nat : Yields(D[n], D[n + 1], n, b.next[n], t)
          BY <4>2
        <5> QED BY <1>2, <3>5, <5>1, YieldsCache
      <4> QED BY <3>7, <4>1, <4>2
    <3> QED BY <3>1, <3>5, <3>6, <3>7, <3>8
  <2>4. CASE n \notin mine
    <3>1. D[n + 1] = D[n]
      BY <2>2, <2>4 DEF DecodeIndex
    <3> QED BY <1>2, <3>1, StayInRound
  <2> QED BY <2>3, <2>4
<1>3. D[0] = w0
  BY <1>1, SlotCount
<1> HIDE DEF DecodeRounds
<1>4. 0 \in S
  BY <1>3
<1>5. ASSUME NEW n \in Nat, n \in S PROVE n + 1 \in S
  <2> SUFFICES ASSUME n + 1 <= NumSlots
               PROVE  DecodeInv(D[n + 1], n + 1, sq) /\ DecodeCache(D[n + 1], rq, sq, c)
    OBVIOUS
  <2>1. n \in Idx /\ n <= NumSlots
    BY SlotCount DEF Idx, Slots
  <2>2. DecodeInv(D[n], n, sq) /\ DecodeCache(D[n], rq, sq, c)
    BY <1>5, <2>1
  <2> QED BY <1>2, <2>1, <2>2
<1> HIDE DEF S
<1>6. \A n \in Nat : n \in S
  BY <1>4, <1>5, Induct
<1>7. \A n \in 0 .. NumSlots : DecodeInv(D[n], n, sq) /\ DecodeCache(D[n], rq, sq, c)
  BY <1>6, SlotCount DEF S
<1>8. \A n \in Idx : n \in 0 .. NumSlots
  BY SlotCount DEF Idx, Slots
<1>9. DecodeRounds(D, b, sq)
  BY <1>2, <1>7, <1>8 DEF DecodeRounds
<1> QED BY <1>3, <1>7, <1>9, SlotCount

DecodeStart(k) == [req |-> req, seqs |-> seqs, sem |-> sem, ic |-> ic,
                   inflight |-> Finished(k), panic |-> panic]

\* What decoding batch k does.
Decodes(k, D) ==
    /\ k \in DOMAIN inflight /\ inflight[k].stage = "started" /\ Alive
    /\ D[0] = DecodeStart(k)
    /\ DecodeRounds(D, inflight[k], seqs)
    /\ DecodeCache(D[NumSlots], req, seqs, ic)
    /\ DecodeLogits(D[NumSlots], seqs, req, Finished(k))
    /\ req' = D[NumSlots].req /\ seqs' = D[NumSlots].seqs /\ ic' = D[NumSlots].ic
    /\ inflight' = D[NumSlots].inflight /\ panic' = D[NumSlots].panic
    /\ unresolved' = unresolved

\* The second critical section of computeBatch, round by round.
LEMMA DecodeStepIs ==
    ASSUME SlotInv, LogitsInv, CacheInv, NEW k, Decode(k)
    PROVE  \E D : Decodes(k, D)
<1> DEFINE mine == {i \in Idx : /\ seqs[i] # None
                                /\ inflight[k].next[i] # None
                                /\ inflight[k].seqs[i] = seqs[i]}
           w0   == DecodeStart(k)
           F    == Finished(k)
<1>1. PICK outcome \in [mine -> Outcomes] :
         \E w \in {DecodeAll(w0, inflight[k], outcome)} :
            /\ req' = w.req /\ seqs' = w.seqs /\ sem' = w.sem /\ ic' = w.ic
            /\ inflight' = w.inflight /\ panic' = w.panic
  BY DEF Decode, DecodeStart
<1> DEFINE D == Decoded(w0, inflight[k], outcome)
<1>2. /\ k \in DOMAIN inflight /\ inflight[k].stage = "started" /\ Alive /\ unresolved' = unresolved
  BY DEF Decode
<1>3. /\ req' = D[NumSlots].req /\ seqs' = D[NumSlots].seqs /\ ic' = D[NumSlots].ic
      /\ inflight' = D[NumSlots].inflight /\ panic' = D[NumSlots].panic
  BY <1>1 DEF DecodeAll
<1>4. DecodeInv(w0, 0, seqs)
  BY <1>2 DEF Alive, SlotInv, DecodeInv, DecodeStart
<1>5. w0.req = req /\ w0.seqs = seqs /\ w0.inflight = F /\ w0.ic = ic
  BY DEF DecodeStart
<1>6. mine \in SUBSET {i \in Idx : seqs[i] # None}
      /\ \A i \in mine : inflight[k].next[i] # None /\ inflight[k].seqs[i] = seqs[i]
  OBVIOUS
<1>7. NextOwn(inflight[k])
  BY <1>2 DEF CacheInv, Batches
<1> HIDE DEF w0, mine, F
<1>8. DecodeCache(w0, req, seqs, ic)
  BY <1>5 DEF DecodeCache, CacheInv, CacheTypes
<1>9. DecodeLogits(w0, seqs, req, F)
  <2>1. \A j \in DOMAIN F : BatchShape(F[j])
    BY <1>2, FinishedBatches DEF SameBatch, F
  <2>2. \A j \in DOMAIN F : SameBatch(F[j], F[j])
    BY <2>1 DEF SameBatch
  <2> QED BY <1>5, <2>2 DEF DecodeLogits, LogitsInv
<1>10. D[0] = w0 /\ DecodeRounds(D, inflight[k], seqs) /\ DecodeCache(D[NumSlots], req, seqs, ic)
  <2> HIDE DEF D
  <2>1. D = Decoded(w0, inflight[k], outcome)
    BY DEF D
  <2> QED BY <1>4, <1>6, <1>7, <1>8, <2>1, DecodeAllCache
<1>11. DecodeLogits(D[NumSlots], seqs, req, F)
  <2>1. DecodeLogits(DecodeAll(w0, inflight[k], outcome), seqs, req, F)
    BY <1>4, <1>6, <1>9, DecodeAllLogits
  <2> QED BY <2>1 DEF DecodeAll
<1> HIDE DEF D
<1>12. Decodes(k, D)
  BY <1>2, <1>3, <1>10, <1>11 DEF Decodes, w0, F
<1> QED BY <1>12

\* Sequences of the same domain have the same length.
LEMMA SameDomain ==
    ASSUME NEW s, NEW t, IsSeq(s), IsSeq(t), DOMAIN s = DOMAIN t
    PROVE  Len(s) = Len(t)
<1>1. Len(s) \in Nat /\ Len(t) \in Nat /\ 1 .. Len(s) = 1 .. Len(t)
  BY DEF IsSeq
<1>2. (Len(s) >= 1 => Len(s) \in 1 .. Len(t)) /\ (Len(t) >= 1 => Len(t) \in 1 .. Len(s))
  BY <1>1
<1> QED BY <1>1, <1>2

\* Decoding moves no cell, and the slots keep their lengths.
LEMMA DecodeCacheInv == ASSUME SlotInv, LogitsInv, CacheInv, NEW k, Decode(k) PROVE CacheInv'
<1>1. PICK D : Decodes(k, D)
  BY DecodeStepIs
<1>2. /\ k \in DOMAIN inflight /\ inflight[k].stage = "started"
      /\ DecodeRounds(D, inflight[k], seqs)
      /\ DecodeCache(D[NumSlots], req, seqs, ic)
      /\ DecodeLogits(D[NumSlots], seqs, req, Finished(k))
      /\ req' = D[NumSlots].req /\ seqs' = D[NumSlots].seqs /\ ic' = D[NumSlots].ic
      /\ inflight' = D[NumSlots].inflight /\ panic' = D[NumSlots].panic
  BY <1>1 DEF Decodes
<1>3. CacheTypes(req', ic') /\ NothingTaken(req')
  BY <1>2 DEF DecodeCache, CacheTypes, CacheInv
<1>4. panic' # "kv full"
  <2>1. DecodeInv(D[NumSlots], NumSlots, seqs)
    BY <1>2, SlotCount DEF DecodeRounds
  <2> QED BY <1>2, <2>1 DEF DecodeInv
<1>5. ASSUME NEW i \in Occupied(seqs')
      PROVE  LET r == req'[seqs'[i]]
             IN  /\ i \in Occupied(seqs) /\ seqs'[i] = seqs[i] /\ r.slot = req[seqs[i]].slot
                 /\ Len(r.pending) = Len(req[seqs[i]].pending)
                 /\ Len(ic'.slots[r.slot].inputs) = Len(ic.slots[r.slot].inputs)
  <2>1. LET r == req'[seqs'[i]]
        IN  /\ seqs'[i] = seqs[i] /\ r.slot = req[seqs[i]].slot
            /\ Len(r.pending) = Len(req[seqs[i]].pending)
            /\ Len(ic'.slots[r.slot].inputs) = Len(ic.slots[r.slot].inputs)
    BY <1>2 DEF DecodeCache
  <2>2. i \in Occupied(seqs)
    BY <2>1 DEF Occupied
  <2> QED BY <2>1, <2>2
<1>6. ic'.kv = ic.kv
  BY <1>2 DEF DecodeCache
<1>7. ASSUME NEW i \in Occupied(seqs') PROVE SeqFits(req', seqs', ic', i)
  <2>1. SeqFits(req, seqs, ic, i)
    BY <1>5 DEF CacheInv
  <2> QED BY <1>5, <1>6, <2>1 DEF SeqFits
<1> DEFINE F == Finished(k)
<1>8. /\ \A j \in DOMAIN F : \E m \in DOMAIN inflight : SameBatch(inflight[m], F[j])
      /\ \A m \in DOMAIN inflight : m # k => \E j \in DOMAIN F : SameBatch(inflight[m], F[j])
  BY <1>2, FinishedBatches
<1> HIDE DEF F
<1>9. DOMAIN inflight' = DOMAIN F /\ \A j \in DOMAIN F : SameBatch(F[j], inflight'[j])
  BY <1>2 DEF DecodeLogits, F
<1>10. PendingReady(req', seqs', inflight')
  <2> SUFFICES ASSUME NEW i \in Occupied(seqs'), Len(req'[seqs'[i]].pending) > 0
               PROVE  \E j \in DOMAIN inflight' : inflight'[j].stage = "ready" /\ inflight'[j].seqs[i] = seqs'[i]
    BY DEF PendingReady
  <2>1. i \in Occupied(seqs) /\ seqs'[i] = seqs[i] /\ Len(req[seqs[i]].pending) > 0
    BY <1>5
  <2>2. PICK m \in DOMAIN inflight : inflight[m].stage = "ready" /\ inflight[m].seqs[i] = seqs[i]
    BY <2>1 DEF CacheInv, PendingReady
  <2>3. m # k
    BY <1>2, <2>2
  <2>4. PICK j \in DOMAIN F : SameBatch(inflight[m], F[j])
    BY <1>8, <2>3
  <2> QED BY <1>9, <2>1, <2>2, <2>4 DEF SameBatch
<1>11. Batches(inflight')
  <2> SUFFICES ASSUME NEW j \in DOMAIN inflight'
               PROVE  Len(inflight'[j].entries) \in 1 .. BatchSize /\ NextOnce(inflight'[j]) /\ NextOwn(inflight'[j])
    BY DEF Batches
  <2>1. PICK m \in DOMAIN inflight : SameBatch(inflight[m], F[j])
    BY <1>8, <1>9
  <2>2. Len(inflight[m].entries) \in 1 .. BatchSize /\ NextOnce(inflight[m]) /\ NextOwn(inflight[m])
    BY DEF CacheInv, Batches
  <2>3. /\ DOMAIN inflight'[j].entries = DOMAIN inflight[m].entries
        /\ inflight'[j].next = inflight[m].next /\ inflight'[j].seqs = inflight[m].seqs
        /\ IsSeq(inflight'[j].entries)
    BY <1>9, <2>1 DEF SameBatch, BatchShape, EntriesShape
  <2>4. IsSeq(inflight[m].entries)
    BY DEF LogitsInv, BatchShape, EntriesShape
  <2>5. Len(inflight'[j].entries) = Len(inflight[m].entries)
    BY <2>3, <2>4, SameDomain
  <2>6. NextOnce(inflight'[j])
    BY <2>2, <2>3 DEF NextOnce
  <2>7. NextOwn(inflight'[j])
    BY <2>2, <2>3 DEF NextOwn
  <2> QED BY <2>2, <2>5, <2>6, <2>7
<1> QED BY <1>3, <1>4, <1>7, <1>10, <1>11 DEF CacheInv

-----------------------------------------------------------------------------
(* The theorems *)

\* The invariant is inductive, together with those of the slots and the batches.
LEMMA CacheNext == SlotInv /\ LogitsInv /\ CacheInv /\ [Next]_vars => CacheInv'
<1> SUFFICES ASSUME SlotInv, LogitsInv, CacheInv, [Next]_vars PROVE CacheInv'
  OBVIOUS
<1>1. ASSUME NEW q \in Requests, Submit(q) PROVE CacheInv'
  BY <1>1, SubmitCache
<1>2. ASSUME NEW q \in Requests, Acquire(q) PROVE CacheInv'
  BY <1>2, AcquireCache
<1>3. ASSUME NEW q \in Requests, Load(q) PROVE CacheInv'
  BY <1>3, LoadedCache
<1>4. ASSUME NEW q \in Requests, ClientGone(q) PROVE CacheInv'
  BY <1>4, GoneCache
<1>5. CASE ForwardBatch
  BY <1>5, ForwardCache
<1>6. ASSUME NEW k, GatherInputs(k) PROVE CacheInv'
  BY <1>6, GatherCache
<1>7. ASSUME NEW k, Compute(k) PROVE CacheInv'
  BY <1>7, ComputeCache
<1>8. ASSUME NEW k, Decode(k) PROVE CacheInv'
  BY <1>8, DecodeCacheInv
<1>9. CASE UNCHANGED vars
  <2>1. UNCHANGED <<ic, inflight, seqs, panic, req>>
    BY <1>9 DEF vars
  <2>2. ReqTypes(req') /\ NothingTaken(req')
    BY <2>1 DEF CacheInv, CacheTypes
  <2> QED BY <2>1, <2>2, QuietCache
<1> QED BY <1>1, <1>2, <1>3, <1>4, <1>5, <1>6, <1>7, <1>8, <1>9 DEF Next

\* The invariants say all that TypeOK does.
LEMMA TypesFromInv == SlotInv /\ LogitsInv /\ CacheInv => TypeOK
<1> SUFFICES ASSUME SlotInv, LogitsInv, CacheInv PROVE TypeOK
  OBVIOUS
<1>1. ReqTypes(req) /\ SlotTypes(ic) /\ KvShape(ic.kv) /\ Batches(inflight)
  BY DEF CacheInv, CacheTypes, KvOK
<1>2. seqs \in [Idx -> Requests \cup {None}]
  BY DEF SlotInv, Acc, Owners
<1>3. sem \in 0 .. NumSlots
  <2>1. /\ sem = Cardinality(Loading(req)) + Cardinality(Occupied(seqs)) /\ sem <= NumSlots
    BY DEF SlotInv, Acc, Permits
  <2>2. IsFiniteSet(Loading(req)) /\ IsFiniteSet(Occupied(seqs))
    <3>1. Loading(req) \subseteq Requests /\ Occupied(seqs) \subseteq Slots
      BY DEF Loading, Occupied, Idx
    <3>2. IsFiniteSet(Requests) /\ IsFiniteSet(Slots)
      BY RunnerConstants, SlotCount
    <3> QED BY <3>1, <3>2, FS_Subset
  <2>3. Cardinality(Loading(req)) \in Nat /\ Cardinality(Occupied(seqs)) \in Nat
    BY <2>2, FS_CardinalityType
  <2> QED BY <2>1, <2>3, SlotCount
<1>4. nextSeq \in 0 .. NumSlots /\ panic \in {"no", "slot", "kv full", "stop"}
  BY DEF LogitsInv, SlotInv
<1>5. \A c \in DOMAIN ic.kv.cells : /\ ic.kv.cells[c].pos \in 0 .. NumCtx - 1
                                    /\ ic.kv.cells[c].sequences \subseteq Slots
  BY <1>1 DEF KvShape
<1> QED BY <1>1, <1>2, <1>3, <1>4, <1>5 DEF TypeOK, ReqTypes, SlotTypes, Batches

\* Every field stays in its range, with as many requests and batches as there
\* may be: no slot records more inputs than the context has room for, and no
\* cell a position outside of it, although shifts and forks move both.
THEOREM TypesCorrect == Spec => []TypeOK
<1>1. Init => SlotInv /\ LogitsInv /\ CacheInv
  BY SlotInit, LogitsInit, CacheInit
<1>2. SlotInv /\ LogitsInv /\ CacheInv /\ [Next]_vars => (SlotInv /\ LogitsInv /\ CacheInv)'
  BY SlotNext, LogitsNext, CacheNext
<1>3. SlotInv /\ LogitsInv /\ CacheInv => TypeOK
  BY TypesFromInv
<1> QED BY <1>1, <1>2, <1>3, PTL DEF Spec

\* The cells that Init allocates are enough for every batch: with a window, its
\* room and that of a batch for each sequence and for the one batch; without,
\* the context of each.
THEOREM CacheIsNeverFull == Spec => []NeverFull
<1>1. Init => SlotInv /\ LogitsInv /\ CacheInv
  BY SlotInit, LogitsInit, CacheInit
<1>2. SlotInv /\ LogitsInv /\ CacheInv /\ [Next]_vars => (SlotInv /\ LogitsInv /\ CacheInv)'
  BY SlotNext, LogitsNext, CacheNext
<1>3. CacheInv => NeverFull
  BY DEF CacheInv, NeverFull
<1> QED BY <1>1, <1>2, <1>3, PTL DEF Spec
=============================================================================
