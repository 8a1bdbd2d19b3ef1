--------------------------- MODULE SharedTransfer ---------------------------
(***************************************************************************)
(* What downloadBlob promises to the pulls that need the same blob at the  *)
(* same time: there is one transfer, whoever comes while it goes on joins  *)
(* it, and everybody who stays is told how the transfer he joined ended.   *)
(* A transfer is named by the client that started it.                      *)
(***************************************************************************)
CONSTANTS Clients, None

VARIABLES
    open,           \* the transfer in progress, or None
    outcome,        \* how a transfer ended
    member,         \* the transfer a client takes part in
    result          \* what a client was told

tvars == <<open, outcome, member, result>>

Nothing == [c \in Clients |-> None]

Init == open = None /\ outcome = Nothing /\ member = Nothing /\ result = Nothing

New(c)     == member[c] = None /\ result[c] = None
Waiting(c) == member[c] # None /\ result[c] = None

\* The blob is there already.
Hit(c) ==
    /\ New(c)
    /\ result' = [result EXCEPT ![c] = "hit"]
    /\ UNCHANGED <<open, outcome, member>>

Start(c) ==
    /\ New(c) /\ open = None
    /\ open' = c
    /\ member' = [member EXCEPT ![c] = c]
    /\ UNCHANGED <<outcome, result>>

Join(c) ==
    /\ New(c) /\ open # None
    /\ member' = [member EXCEPT ![c] = open]
    /\ UNCHANGED <<open, outcome, result>>

Finish ==
    /\ open # None
    /\ \E o \in {"ok", "err"} : outcome' = [outcome EXCEPT ![open] = o]
    /\ open' = None
    /\ UNCHANGED <<member, result>>

\* The transfer did not get under way, and its starter is told so at once.
Abort(c) ==
    /\ open = c /\ Waiting(c)
    /\ open' = None
    /\ outcome' = [outcome EXCEPT ![c] = "err"]
    /\ result' = [result EXCEPT ![c] = "err"]
    /\ UNCHANGED member

Return(c) ==
    /\ Waiting(c) /\ outcome[member[c]] # None
    /\ result' = [result EXCEPT ![c] = outcome[member[c]]]
    /\ UNCHANGED <<open, outcome, member>>

Leave(c) ==
    /\ Waiting(c)
    /\ result' = [result EXCEPT ![c] = "gone"]
    /\ UNCHANGED <<open, outcome, member>>

\* The server starts again.
Restart == open' = None /\ outcome' = Nothing /\ member' = Nothing /\ result' = Nothing

Next ==
    \/ \E c \in Clients : Hit(c) \/ Start(c) \/ Join(c) \/ Abort(c) \/ Return(c) \/ Leave(c)
    \/ Finish \/ Restart

Spec == Init /\ [][Next]_tvars
=============================================================================
