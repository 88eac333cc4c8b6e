------------------------------ MODULE LruOrder ------------------------------
(***************************************************************************)
(* What a client table promises about whom it remembers: the clients in     *)
(* order of use, the most recent first; a new client displaces the stalest  *)
(* one of a full table, and nobody else is ever forgotten.                  *)
(***************************************************************************)
EXTENDS Integers, SequencesExt

CONSTANTS Keys, Capacity, None

VARIABLES
    order,  \* the clients remembered
    user    \* the one that came last

Others(k)     == RemoveFirst(order, k)
FirstOf(s, n) == SubSeq(s, 1, IF Len(s) < n THEN Len(s) ELSE n)

Init == order = <<>> /\ user = None
Use(k) ==
    /\ user' = k
    /\ order' = FirstOf(<<k>> \o Others(k), Capacity)
Next == \E k \in Keys : Use(k)
Spec == Init /\ [][Next]_<<order, user>>
=============================================================================
