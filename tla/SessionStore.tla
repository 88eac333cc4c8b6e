---------------------------- MODULE SessionStore ----------------------------
(***************************************************************************)
(* What the durable store promises its callers: the session last put for a  *)
(* server is the one that is read, whole or not at all; a save makes what   *)
(* is held durable; and whoever stops or crashes goes back to what was last *)
(* saved.                                                                   *)
(***************************************************************************)
EXTENDS Naturals

CONSTANTS
    Servers,    \* key establishment servers a session is kept for
    MaxCookies, \* cookies kept of a session
    NoSession

VARIABLES
    held,   \* the session of each server in memory
    saved,  \* the session of each server on disk
    puts    \* how many puts there were

\* What the n-th put leaves when it had some cookies to keep.
Whole(n, cookies) ==
    [keys |-> n, meta |-> n, cookies |-> [i \in 0..(cookies - 1) |-> n]]

Init == saved = [h \in Servers |-> NoSession] /\ held = saved /\ puts = 0

Put(h, cookies) ==
    /\ puts' = puts + 1
    /\ held' = [held EXCEPT ![h] = IF cookies = 0 THEN NoSession ELSE Whole(puts + 1, cookies)]
    /\ UNCHANGED saved
PutOther == puts' = puts + 1 /\ UNCHANGED <<held, saved>>
\* A put that fails leaves nothing: its caller gives up.
Fail == puts' = puts + 1 /\ held' = saved /\ UNCHANGED saved
Save == saved' = held /\ UNCHANGED <<held, puts>>
Lose == held' = saved /\ UNCHANGED <<saved, puts>>

Next == \/ \E h \in Servers, n \in 0..MaxCookies : Put(h, n)
        \/ PutOther \/ Fail \/ Save \/ Lose
Spec == Init /\ [][Next]_<<held, saved, puts>>
=============================================================================
