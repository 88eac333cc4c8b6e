----------------------------- MODULE Estimation -----------------------------
(***************************************************************************)
(* What stands between the exchanges and the clock: the register of each    *)
(* source, the estimate made of it, and the selection among the estimates.  *)
(* A behaviour exercises one of them.                                       *)
(*                                                                          *)
(* "select": the sources report one after the other, so every state is the  *)
(* slice that select() is given when that many sources have an estimate.    *)
(* "window": a window of samples grows one by one, so every state is one    *)
(* that regress() may be given.  "shape": a window of a given shape.        *)
(* "register": the operations of a register, by its callers.                *)
(***************************************************************************)
EXTENDS Selection, Regression, SampleRegister

CONSTANTS
    MaxReports, OffsetRange, DistRange, StratumRange,  \* sources and what they report
    WindowMax, YRange,                                 \* windows and their offsets
    SpikeRange, SlopeRange                             \* delays on a line, and its slope

ASSUME EstimationAssumption ==
    /\ OffsetRange \subseteq Int /\ DistRange \subseteq Nat \ {0} /\ StratumRange \subseteq Nat
    /\ YRange \subseteq Int /\ SpikeRange \subseteq Int /\ SlopeRange \subseteq Int

VARIABLES part, reports, window, shape

Reporting == DOMAIN reports
Reports == [offset : OffsetRange, dist : DistRange, stratum : StratumRange]

\* A line of slope q with one delayed packet, at k; the sharp weight of row j is lost.
Spikes == [kind : {"spike"}, n : 8..9, k : 3..6, size : SpikeRange, q : SlopeRange, j : 1..9]
\* Delayed packets at k and among the newest, at j.
Pairs == [kind : {"pair"}, n : 9..13, k : 1..10, size : SpikeRange, q : SlopeRange, j : 7..13]
NoShape == [kind |-> "none"]

EstimationInit ==
    /\ reports = <<>> /\ window = <<>>
    /\ RegisterInit
    /\ \/ part \in {"select", "window", "register"} /\ shape = NoShape
       \/ part = "shape" /\ shape \in {s \in Spikes : s.k <= s.n - 3}
                                 \cup {s \in Pairs : s.k <= s.n - 3 /\ s.j \in s.n - 2..s.n}
Report(r) ==
    /\ part = "select" /\ Len(reports) < MaxReports
    /\ reports' = Append(reports, r)
    /\ UNCHANGED <<part, window, shape, registerVars>>
Lengthen(y) ==
    /\ part = "window" /\ Len(window) < WindowMax
    /\ window' = Append(window, y)
    /\ UNCHANGED <<part, reports, shape, registerVars>>
UseRegister ==
    /\ part = "register" /\ RegisterNext
    /\ UNCHANGED <<part, reports, window, shape>>
EstimationNext ==
    \/ \E r \in Reports : Report(r)
    \/ \E y \in YRange : Lengthen(y)
    \/ UseRegister
EstimationSpec ==
    EstimationInit /\ [][EstimationNext]_<<part, reports, window, shape, registerVars>>

-----------------------------------------------------------------------------
\* The reference definition: how many intervals contain the point p.
Points   == {Low(reports, s) : s \in Reporting} \cup {High(reports, s) : s \in Reporting}
Depth(p) == Cardinality({s \in Reporting : Low(reports, s) <= p /\ p <= High(reports, s)})
Deepest  == Max({Depth(p) : p \in Points} \cup {0})

\* Two intervals that only touch share a point that the sweep may miss: which of
\* the two ends it meets first depends on the order of the sources.
NoTouching ==
    \A s, t \in Reporting : High(reports, s) # Low(reports, t)

\* The sweep finds exactly the largest number of intervals with a common point, and
\* only if they are a strict majority: "Find the largest clique of sources whose
\* correctness intervals ... share a common point" (select.rs, select).
FindsLargestMajority ==
    NoTouching =>
        LET chosen == Chosen(reports)
        IN  /\ chosen # {} <=> 2 * Deepest > Len(reports)
            /\ chosen # {} => Max(chosen) = Deepest

\* Whatever the falsetickers say: when a strict majority of the intervals contain
\* the true offset 0, every source that may steer is off by no more than its own
\* distance and twice the widest honest one.
Honest == {s \in Reporting : Low(reports, s) <= 0 /\ 0 <= High(reports, s)}
HonestMajorityBoundsTheError ==
    NoTouching /\ 2 * Cardinality(Honest) > Len(reports) =>
        LET slack == 2 * Max({reports[s].dist : s \in Honest})
            truechimers == Truechimers(reports)
        IN  /\ truechimers # {}
            /\ \A s \in truechimers :
                  /\ Low(reports, s) <= slack
                  /\ High(reports, s) >= -slack

-----------------------------------------------------------------------------
Row(t, y, v) == [t |-> t, y |-> y, w |-> 1, v |-> v]
WindowRows == [i \in DOMAIN window |-> Row(i, window[i], 1)]
Late == IF shape.kind = "pair" THEN {shape.k, shape.j} ELSE {shape.k}
ShapeRows ==
    IF shape = NoShape THEN <<>>
    ELSE [i \in 1..shape.n |->
            Row(i, shape.q * i + (IF i \in Late THEN shape.size ELSE 0),
                IF i = shape.j THEN 0 ELSE 1)]

\* Counting how many residuals are below the worst decides exactly what comparing the
\* worst with the threshold made of their median would, whatever the residuals are, here
\* the numbers of the window: "It is answerable exactly without the median"
\* (spike_threshold_from).
SpikeTestIsTheMedianTest ==
    Len(window) > 4 =>
        (HasSpike(window) <=> Worst(window) > 0 /\ 9 * Worst(window) > 40 * Mad(window))

\* Whatever the window holds and whichever length is chosen, the newest three samples
\* are in the estimate: "protecting the newest samples so the present can never be
\* voted away" (regress).
NewestAreUsed ==
    \A rows \in {WindowRows, ShapeRows} :
        Len(rows) > 4 =>
            \A len \in Lengths(Len(rows)) : Newest(Used(rows, len), 3) = Newest(rows, 3)

Behind(len) == shape.k > shape.n - len + 2   \* not among the oldest two of a window
\* One delayed packet, of any sign, behind the oldest two and before the newest three
\* of a window leaves no trace in the estimate: its slope is that of the others and so
\* is its offset, whichever of them lost its sharp weight (regress, pass 2).
LoneSpikeIsIgnored ==
    shape.kind = "spike" =>
        \A used \in {Used(ShapeRows, len) : len \in {l \in Lengths(shape.n) : Behind(l)}} :
            LET fit == Fit(used)
                off == OffsetAt(used, shape.n + 1)
            IN  /\ fit.sxy = shape.q * fit.sxx
                /\ off.num = shape.q * (shape.n + 1) * off.den
=============================================================================
