----------------------------- MODULE InputCache -----------------------------
(***************************************************************************)
(* The input cache of a runner (runner/ollamarunner/cache.go): slots that  *)
(* remember which inputs the KV cache holds, so that a prompt that starts  *)
(* like an earlier one need not be computed again.                         *)
(*                                                                         *)
(* A cache is a record: kv is the KV cache, slots the slots, used the      *)
(* slots from the least to the most recently used, multi whether eviction  *)
(* is optimized for several users.  An input has a token; the one that is  *)
(* still to be sampled is a placeholder with token 0, known by the request *)
(* and a number.  Images and the inputs tied to them are left out.         *)
(***************************************************************************)
EXTENDS CausalCache

Input(t)          == [token |-> t, of |-> None, nth |-> 0]
Placeholder(q, n) == [token |-> 0, of |-> q, nth |-> n]

NewInputCache(window, multi) ==
    [kv    |-> NewCache(window),
     slots |-> [s \in Slots |-> [inputs |-> <<>>, inUse |-> FALSE]],
     used  |-> [i \in 1 .. NumSlots |-> i - 1],
     multi |-> multi]

countCommonPrefix(a, b) ==
    Max({n \in 0 .. IF Len(a) < Len(b) THEN Len(a) ELSE Len(b) :
            \A i \in 1 .. n : a[i].token = b[i].token})

Matching(ic, s, prompt) == countCommonPrefix(ic.slots[s].inputs, prompt)

\* The slot of C that shares the longest prefix, the first of several.
LongestMatch(ic, C, prompt) ==
    CHOOSE s \in C : \A t \in C :
        \/ Matching(ic, t, prompt) < Matching(ic, s, prompt)
        \/ Matching(ic, t, prompt) = Matching(ic, s, prompt) /\ s <= t

FreeSlots(ic) == {s \in Slots : ~ic.slots[s].inUse}

Oldest(ic) == ic.used[CHOOSE i \in DOMAIN ic.used :
                 /\ ic.used[i] \in FreeSlots(ic)
                 /\ \A j \in 1 .. i - 1 : ic.used[j] \notin FreeSlots(ic)]

findLongestCacheSlot(ic, prompt) ==
    LET s == LongestMatch(ic, FreeSlots(ic), prompt)
    IN  [slot |-> s, past |-> Matching(ic, s, prompt), ic |-> ic]

\* The best match may be in use: then its prefix is shared with the oldest slot.
Forked(ic, src, dst, n) ==
    IF n = 0 \/ src = dst THEN ic
    ELSE [ic EXCEPT !.slots[dst].inputs = SubSeq(ic.slots[src].inputs, 1, n),
                    !.kv = CopyPrefix(@, src, dst, n)]

BestOrFork(ic, best, oldest, n) ==
    IF n = Len(ic.slots[best].inputs) /\ best \in FreeSlots(ic)
    THEN [slot |-> best, past |-> n, ic |-> ic]
    ELSE [slot |-> oldest, past |-> n, ic |-> Forked(ic, best, oldest, n)]

findBestCacheSlot(ic, prompt) ==
    LET best == LongestMatch(ic, Slots, prompt)
    IN  BestOrFork(ic, best, Oldest(ic), Matching(ic, best, prompt))

\* The slots in the order of use, after s was used.
MostRecent(used, s) ==
    LET at == CHOOSE i \in DOMAIN used : used[i] = s
    IN  [i \in 1 .. NumSlots |->
            IF i < at THEN used[i] ELSE IF i < NumSlots THEN used[i + 1] ELSE s]

\* LoadCacheSlot, when FreeSlots is not empty: the slot, the inputs that are
\* left to compute, and the cache without what the prompt does not share.
LoadFrom(ic, s, prompt, past) ==
    [slot   |-> s,
     inputs |-> SubSeq(prompt, past + 1, Len(prompt)),
     ic     |-> [ic EXCEPT
                   !.slots[s] = [inputs |-> SubSeq(prompt, 1, past), inUse |-> TRUE],
                   !.used = MostRecent(@, s),
                   !.kv = Remove(@, s, past, MaxInt).kv]]

Resumable(ic, s, n) == IF n > 0 /\ CanResume(ic.kv, s, n) THEN n ELSE 0

LoadFound(found, prompt) ==
    LoadFrom(found.ic, found.slot, prompt,
        Resumable(found.ic, found.slot,
            IF found.past = Len(prompt) THEN found.past - 1 ELSE found.past))

LoadCacheSlot(ic, prompt) ==
    LoadFound(IF ic.multi THEN findBestCacheSlot(ic, prompt)
              ELSE findLongestCacheSlot(ic, prompt), prompt)

\* ShiftDiscard: inputs are discarded until half of what is not kept is free.
ShiftDiscard(inputs, numKeep) ==
    LET targetFree  == Max({(NumCtx - numKeep) \div 2, 1})
        currentFree == NumCtx - Len(inputs)
    IN  Min({Max({Len(inputs) - numKeep, 0}), Max({targetFree - currentFree, 0})})

\* ShiftCacheSlot: when the KV cache cannot shift, the slot is emptied and the
\* inputs that stay have to be computed again.
Shift(ic, s, removed, kept) ==
    IF removed.ok
    THEN [ok |-> TRUE, reprocess |-> <<>>,
          ic |-> [ic EXCEPT !.kv = removed.kv, !.slots[s].inputs = kept]]
    ELSE [ok |-> FALSE, reprocess |-> kept,
          ic |-> [ic EXCEPT !.kv = Remove(removed.kv, s, 0, MaxInt).kv,
                            !.slots[s].inputs = <<>>]]

ShiftBy(ic, s, numKeep, discard) ==
    IF discard = 0 THEN [ok |-> TRUE, reprocess |-> <<>>, ic |-> ic]
    ELSE Shift(ic, s, Remove(ic.kv, s, numKeep, numKeep + discard),
               SubSeq(ic.slots[s].inputs, 1, numKeep)
                  \o SubSeq(ic.slots[s].inputs, numKeep + discard + 1, Len(ic.slots[s].inputs)))

ShiftCacheSlot(ic, s, numKeep) ==
    ShiftBy(ic, s, numKeep, ShiftDiscard(ic.slots[s].inputs, numKeep))
=============================================================================
