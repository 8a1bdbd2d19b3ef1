---------------------------- MODULE CausalCache ----------------------------
(***************************************************************************)
(* The KV cache of a model (kvcache/causal.go): cells that hold the key    *)
(* and value of one token at one position for a set of sequences, and for  *)
(* every sequence the range of cells it is stored in.  A cache is a record *)
(* and each method of Causal an operator from a cache to its next value.   *)
(*                                                                         *)
(* The tensors are represented by data: the token whose key was written to *)
(* a cell and the position it is encoded for.                              *)
(***************************************************************************)
EXTENDS Integers, Sequences, FiniteSets, FiniteSetsExt

CONSTANTS
    NumSlots,       \* sequences the cache is shared by (maxSequences)
    NumCtx,         \* capacity per sequence
    BatchSize,      \* largest batch
    CachePadding,   \* granularity of the range of cells a batch reads
    MaxInt,         \* math.MaxInt32: no window, no end
    CanShift,       \* whether the model gave the cache a shiftFn
    None

ASSUME CacheConstants ==
    /\ {NumSlots, NumCtx, BatchSize, CachePadding} \subseteq Nat \ {0}
    /\ MaxInt \in Nat /\ MaxInt > NumCtx + BatchSize + CachePadding + NumSlots * NumCtx
    /\ CanShift \in BOOLEAN
    /\ None \notin [min : Nat, max : Nat]

Slots == 0 .. NumSlots - 1

roundDown(n) == (n \div CachePadding) * CachePadding
roundUp(n)   == ((n + CachePadding - 1) \div CachePadding) * CachePadding

newRange   == [min |-> MaxInt, max |-> 0]
RangeOf(C) == IF C = {} THEN newRange ELSE [min |-> Min(C), max |-> Max(C)]

\* Init: how many tokens of a sequence are kept for a window, and for how many
\* cells that makes.
SwaMemory(window) ==
    LET kept == IF window # MaxInt /\ NumSlots > 1 THEN window + 1 ELSE window
    IN  IF kept >= NumCtx THEN MaxInt ELSE kept

\* Mutant: no room for the batch beside what the windows hold.
CacheSizeTight(window) ==
    roundUp(NumSlots * IF SwaMemory(window) = MaxInt THEN NumCtx ELSE SwaMemory(window))

CacheSize(window) ==
    roundUp(IF SwaMemory(window) = MaxInt THEN NumSlots * NumCtx
            ELSE NumSlots * SwaMemory(window) + BatchSize)

NewCache(window) ==
    [window     |-> window,
     memory     |-> SwaMemory(window),
     cells      |-> [c \in 0 .. CacheSize(window) - 1 |-> [pos |-> 0, sequences |-> {}]],
     cellRanges |-> [s \in Slots |-> None],
     data       |-> [c \in 0 .. CacheSize(window) - 1 |-> [token |-> 0, pos |-> 0]]]

CellsOf(kv, s) == {c \in DOMAIN kv.cells : s \in kv.cells[c].sequences}
InRange(kv, s) ==
    IF kv.cellRanges[s] = None THEN {}
    ELSE {c \in CellsOf(kv, s) : kv.cellRanges[s].min <= c /\ c <= kv.cellRanges[s].max}

Drop(cell, s)    == [cell EXCEPT !.sequences = @ \ {s}]
Free(kv)         == {c \in DOMAIN kv.cells : kv.cells[c].sequences = {}}
PosOf(kv, C)     == {kv.cells[c].pos : c \in C}

-----------------------------------------------------------------------------
(* StartForward.  A batch is a sequence of entries with a slot and a pos. *)

\* The lowest position of a sequence in the batch, or the one after its last.
LowestPos(kv, batch, s) ==
    LET inBatch == {batch[i].pos : i \in {j \in DOMAIN batch : batch[j].slot = s}}
    IN  IF inBatch # {} THEN Min(inBatch) ELSE Max({0} \cup PosOf(kv, InRange(kv, s))) + 1

\* updateSlidingWindow: what left the window of its sequence is forgotten.
OutOfWindow(kv, batch, s) ==
    {c \in InRange(kv, s) : kv.cells[c].pos < LowestPos(kv, batch, s) - kv.memory}

updateSlidingWindow(kv, batch) ==
    IF kv.memory = MaxInt THEN kv
    ELSE [kv EXCEPT
            !.cells = [c \in DOMAIN kv.cells |-> [kv.cells[c] EXCEPT
                          !.sequences = {s \in @ : c \notin OutOfWindow(kv, batch, s)}]],
            !.cellRanges = [s \in Slots |->
                IF kv.cellRanges[s] = None THEN None
                ELSE RangeOf(InRange(kv, s) \ OutOfWindow(kv, batch, s))]]

\* The cells that the sequences of the batch may read, before padding; an empty
\* range adds none.
WindowCells(kv, batch) ==
    UNION {IF kv.memory = MaxInt
           THEN IF kv.cellRanges[s] \in {None, newRange} THEN {}
                ELSE {kv.cellRanges[s].min, kv.cellRanges[s].max} \cap DOMAIN kv.cells
           ELSE {c \in InRange(kv, s) : kv.cells[c].pos >= LowestPos(kv, batch, s) - kv.window}
           : s \in {batch[i].slot : i \in DOMAIN batch}}

\* findLocs: the first free cells, one for each entry.
HasLocs(kv, n)    == Cardinality(Free(kv)) >= n
findLoc(kv, i)    == CHOOSE c \in Free(kv) : Cardinality({d \in Free(kv) : d < c}) = i - 1

\* Every entry of the batch takes its cell, and the range of its sequence grows.
Widened(range, C) ==
    IF C = {} THEN range
    ELSE [min |-> Min(C \cup IF range = None THEN {} ELSE {range.min}),
          max |-> Max(C \cup IF range = None THEN {} ELSE {range.max})]

PutCells(kv, batch, loc) ==
    [kv EXCEPT
        !.cells = [c \in DOMAIN @ |->
            IF \E i \in DOMAIN batch : loc[i] = c
            THEN [pos       |-> batch[CHOOSE i \in DOMAIN batch : loc[i] = c].pos,
                  sequences |-> {batch[CHOOSE i \in DOMAIN batch : loc[i] = c].slot}]
            ELSE @[c]],
        !.cellRanges = [s \in Slots |->
            Widened(@[s], {loc[i] : i \in {j \in DOMAIN batch : batch[j].slot = s}})]]

\* buildMask: the cells an entry attends to, in the padded range of the batch.
Mask(kv, range, e) ==
    {c \in roundDown(range.min) .. roundUp(range.max + 1) - 1 :
        /\ e.slot \in kv.cells[c].sequences
        /\ kv.cells[c].pos <= e.pos
        /\ kv.cells[c].pos >= e.pos - kv.window}

\* StartForward: the new cache, and for every entry its cell and its mask.
Masked(kv, batch, loc, range) ==
    [kv |-> kv, full |-> FALSE, loc |-> loc,
     mask |-> [i \in DOMAIN batch |-> Mask(kv, range, batch[i])]]

Located(kv, batch, loc, window) ==
    Masked(PutCells(kv, batch, loc), batch, loc, RangeOf(window \cup {loc[i] : i \in DOMAIN loc}))

Placed(kv, batch, window) ==
    IF HasLocs(kv, Len(batch))
    THEN Located(kv, batch, [i \in DOMAIN batch |-> findLoc(kv, i)], window)
    ELSE [kv |-> kv, full |-> TRUE, loc |-> <<>>, mask |-> <<>>]

StartForward(kv, batch) ==
    Placed(updateSlidingWindow(kv, batch), batch, WindowCells(kv, batch))

\* Put: what computing a batch writes.
Put(kv, batch, loc, tokens) ==
    [kv EXCEPT !.data = [c \in DOMAIN @ |->
        IF \E i \in DOMAIN batch : loc[i] = c
        THEN LET i == CHOOSE j \in DOMAIN batch : loc[j] = c
             IN  [token |-> tokens[i], pos |-> batch[i].pos]
        ELSE @[c]]]

-----------------------------------------------------------------------------
(* Operations between batches *)

CopyPrefix(kv, src, dst, len) ==
    LET copied == {c \in CellsOf(kv, src) : kv.cells[c].pos < len}
    IN  [kv EXCEPT
            !.cells = [c \in DOMAIN kv.cells |-> [kv.cells[c] EXCEPT
                          !.sequences = IF c \in copied THEN @ \cup {dst} ELSE @ \ {dst}]],
            !.cellRanges[dst] = RangeOf(copied)]

\* Mutant: what the window has forgotten is not looked at.
CanResumeAlways(kv, s, pos) == TRUE

CanResume(kv, s, pos) ==
    \/ kv.memory = MaxInt
    \/ /\ InRange(kv, s) # {}
       /\ Max({0, pos - kv.window}) >= Min(PosOf(kv, InRange(kv, s)))
       /\ pos <= Max(PosOf(kv, InRange(kv, s))) + 1

\* Remove(seq, begin, end): forgets the positions from begin to end and moves
\* the later ones down.  A cell that another sequence shares cannot be moved:
\* the loop returns an error there and leaves what it did before.
Stuck(kv, s, end) ==
    {c \in CellsOf(kv, s) : kv.cells[c].pos >= end /\ kv.cells[c].sequences # {s}}

RemoveCells(kv, s, begin, end, upto) ==
    [c \in DOMAIN kv.cells |->
        LET cell == kv.cells[c]
        IN  IF s \notin cell.sequences \/ c >= upto THEN cell
            ELSE IF cell.pos \in begin .. end - 1 THEN Drop(cell, s)
            ELSE IF cell.pos >= end THEN [cell EXCEPT !.pos = @ + begin - end]
            ELSE cell]

\* shift: the keys of the cells that moved are encoded again for their new
\* position.
Shifted(kv, s, begin, offset) ==
    [c \in DOMAIN kv.data |->
        IF c \in InRange(kv, s) /\ kv.cells[c].pos >= begin
        THEN [kv.data[c] EXCEPT !.pos = @ + offset]
        ELSE kv.data[c]]

\* The end of Remove: the new range, and the keys moved if anything is left.
Ranged(kv, s) ==
    [kv EXCEPT !.cellRanges[s] = IF CellsOf(kv, s) = {} THEN None ELSE RangeOf(CellsOf(kv, s))]

Moved(kv, s, begin, end) ==
    IF CellsOf(kv, s) = {} \/ end = MaxInt THEN [ok |-> TRUE, kv |-> kv]
    ELSE IF CanShift
    THEN [ok |-> TRUE, kv |-> [kv EXCEPT !.data = Shifted(kv, s, begin, begin - end)]]
    ELSE [ok |-> FALSE, kv |-> kv]

Remove(kv, s, begin, end) ==
    IF Stuck(kv, s, end) # {}
    THEN [ok |-> FALSE,
          kv |-> [kv EXCEPT !.cells = RemoveCells(kv, s, begin, end, Min(Stuck(kv, s, end)))]]
    ELSE Moved(Ranged([kv EXCEPT !.cells = RemoveCells(kv, s, begin, end, MaxInt)], s),
               s, begin, end)
=============================================================================
