---------------------------- MODULE MCClockLoop ----------------------------
(***************************************************************************)
(* The clock's loop, the estimation whose results it only chooses, and the  *)
(* server's client table, checked side by side: one run, one part of which  *)
(* moves while the others rest in an initial state.                         *)
(***************************************************************************)
EXTENDS ClockLoop, Estimation, ClientTable

CONSTANTS a, b

VARIABLE moving

estimationVars == <<part, reports, window, shape, registerVars>>

One(S) == CHOOSE x \in S : TRUE

ClockInit ==
    /\ moving \in {"loop", "estimation", "table"}
    /\ Init           /\ (moving # "loop"       => theta = One(Offsets))
    /\ EstimationInit /\ (moving # "estimation" => part = "select" /\ caller = "loop")
    /\ TableInit      /\ (moving # "table"      => hash = One(HashFunctions))

ClockNext ==
    /\ UNCHANGED moving
    /\ \/ moving = "loop"       /\ Next           /\ UNCHANGED <<estimationVars, tableVars>>
       \/ moving = "estimation" /\ EstimationNext /\ UNCHANGED <<vars, tableVars>>
       \/ moving = "table"      /\ TableNext      /\ UNCHANGED <<vars, estimationVars>>

ClockSpec == ClockInit /\ [][ClockNext]_<<moving, vars, estimationVars, tableVars>>

\* What the constants are given.
\* a tells the true time, b is a falseticker
TwoBias == [s \in {a, b} |-> IF s = a THEN 0 ELSE 3]

SomeFreqs   == {-1, 0}
ShortDrain  == {-2}
LongDrain   == {3}
SomeSteps   == {2}
NoSteps     == {}
Wide        == {-6, 0, 6}
UpAndDown   == {-1, 0, 1}
EarlyOrLate == {-20, 20}
\* Hashes that collide wholly, in their bucket alone, or overlap as runs that wrap
\* around the end of the index.
Colliding == {[k \in Keys |-> IF k = 4 THEN 0 ELSE IF k = 3 THEN Size - 2 ELSE Size - 1],
              [k \in Keys |-> IF k <= 2 THEN Size - 1 ELSE IF k = 3 THEN 2 * Size - 1 ELSE 0],
              [k \in Keys |-> (k % 2) + Size - 2]}
=============================================================================
