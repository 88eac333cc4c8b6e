----------------------------- MODULE Regression -----------------------------
(***************************************************************************)
(* The estimate of a register, rusty_time-core, filter.rs (regress): a      *)
(* weighted line through the window, the choice of the window, the two      *)
(* trims, and the offset on the line.                                       *)
(*                                                                          *)
(* A row is a record [t, y, w, v]: the time and offset of a sample, its     *)
(* weight in the fit and its sharper weight in the offset.  Everything is   *)
(* an integer: a fit keeps the sums that the code divides, and residuals    *)
(* are multiplied by the common denominator of the fit, which leaves their  *)
(* signs and their ratios.  3 * 1.4826 is taken to be 40 / 9.  The age      *)
(* decay and the other knobs that are off by default are left out, and so   *)
(* is the dispersion, a square root.                                        *)
(***************************************************************************)
EXTENDS Integers, Sequences, FiniteSets, FiniteSetsExt, Functions

CONSTANT MinAdaptive   \* MIN_ADAPTIVE

ASSUME RegressionAssumption == MinAdaptive \in Nat /\ MinAdaptive >= 3

Magnitude(x) == IF x < 0 THEN -x ELSE x

-----------------------------------------------------------------------------
\* wls_fit: the sums about the weighted mean time swt / sw, multiplied by sw.  The
\* slope is sxy / sxx and the offset at the mean time sy / sw.
Fit(rows) ==
    LET W   == [i \in DOMAIN rows |-> rows[i].w]
        WT  == [i \in DOMAIN rows |-> rows[i].w * rows[i].t]
        WY  == [i \in DOMAIN rows |-> rows[i].w * rows[i].y]
        sw  == SumFunction(W)
        swt == SumFunction(WT)
        XX  == [i \in DOMAIN rows |-> WT[i] * (sw * rows[i].t - swt)]
        XY  == [i \in DOMAIN rows |-> WY[i] * (sw * rows[i].t - swt)]
    IN  [sw |-> sw, swt |-> swt, sy |-> SumFunction(WY),
         sxx |-> SumFunction(XX), sxy |-> SumFunction(XY)]

\* The residuals of the rows about the fit, times sw * sxx.
Residuals(rows) ==
    LET f == Fit(rows)
    IN  [i \in DOMAIN rows |->
            f.sw * f.sxx * rows[i].y - f.sxx * f.sy
                - f.sxy * (f.sw * rows[i].t - f.swt)]

\* The element a selection puts at position k of the sorted magnitudes, from 0.
Selected(r, k) ==
    CHOOSE m \in {Magnitude(r[i]) : i \in DOMAIN r} :
        /\ Cardinality({i \in DOMAIN r : Magnitude(r[i]) < m}) <= k
        /\ k < Cardinality({i \in DOMAIN r : Magnitude(r[i]) <= m})
Mad(r) == Selected(r, Len(r) \div 2)

-----------------------------------------------------------------------------
(* The window: its last 8, 16, ... rows or all of them, whichever predicts the
   offset best.  Any of them may.                                          *)
Lengths(n) == {n} \cup {len \in {MinAdaptive, 2 * MinAdaptive, 4 * MinAdaptive} : len < n}
Newest(rows, len) == SubSeq(rows, Len(rows) - len + 1, Len(rows))

(* Pass 1: history that does not belong to the present.                    *)

Sign(x) == IF x > 0 THEN 1 ELSE -1
\* residuals_well_mixed: runs of equal sign make up a third of the window.
WellMixed(r) ==
    3 * (1 + Cardinality({i \in 2..Len(r) : Sign(r[i]) # Sign(r[i - 1])})) >= Len(r)

\* residual_half_gap_and_mad: the means of the halves differ by more than the noise.
HalvesDisagree(r) ==
    LET n    == Len(r)
        half == n \div 2
        gap  == Magnitude(SumFunctionOnSet(r, 1..half) * (n - half)
                          - SumFunctionOnSet(r, (half + 1)..n) * half)
    IN  gap > 0 /\ 9 * gap > 40 * Mad(r) * half * (n - half)

Most(a, b) == IF a > b THEN a ELSE b
DropQuarter(rows) ==
    LET r == Residuals(rows)
    IN  IF Len(rows) >= 8 /\ ~ WellMixed(r) /\ HalvesDisagree(r)
        THEN SubSeq(rows, Most(Len(rows) \div 4, 2) + 1, Len(rows))
        ELSE rows
DropStale(rows) == DropQuarter(DropQuarter(DropQuarter(DropQuarter(rows))))

(* Pass 2: a delayed packet among the rows that are not the newest three.  *)

Worst(r) == Max({Magnitude(r[i]) : i \in 1..(Len(r) - 3)} \cup {0})
\* spike_threshold_from: whether anything that may be dropped exceeds the threshold,
\* found by counting and without the median.
HalfIsBelow(r) ==   \* mutant: one less below it is enough
    LET below == Cardinality({i \in DOMAIN r : 40 * Magnitude(r[i]) < 9 * Worst(r)})
    IN  Worst(r) > 0 /\ below >= Len(r) \div 2
HasSpike(r) ==
    LET below == Cardinality({i \in DOMAIN r : 40 * Magnitude(r[i]) < 9 * Worst(r)})
    IN  Worst(r) > 0 /\ below >= (Len(r) \div 2) + 1
\* spike_keep_mask
KeptAnywhere(r) == {i \in DOMAIN r : 9 * Magnitude(r[i]) <= 40 * Mad(r)}   \* mutant: no protection
Kept(r) == {i \in DOMAIN r : i > Len(r) - 3 \/ 9 * Magnitude(r[i]) <= 40 * Mad(r)}
TrimSpikes(rows) ==
    LET r    == Residuals(rows)
        kept == Kept(r)
        Ith(k) == CHOOSE i \in kept : Cardinality({j \in kept : j < i}) = k - 1
    IN  IF Len(rows) > 4 /\ HasSpike(r) /\ Cardinality(kept) >= 3
        THEN [k \in 1..Cardinality(kept) |-> rows[Ith(k)]]
        ELSE rows

-----------------------------------------------------------------------------
\* The rows the estimate is made of.
Used(rows, len) == TrimSpikes(DropStale(Newest(rows, len)))

\* The offset at now on a line of the fitted slope through the sharply weighted mean,
\* as a numerator and a denominator.
OffsetAboutMean(rows, now) ==   \* mutant: the sharp mean is put at the mean time of the fit
    LET f  == Fit(rows)
        V  == [i \in DOMAIN rows |-> rows[i].v]
        VY == [i \in DOMAIN rows |-> rows[i].v * rows[i].y]
        sv == SumFunction(V)
    IN  [num |-> f.sw * f.sxx * SumFunction(VY)
                 + sv * f.sxy * (now * f.sw - f.swt),
         den |-> sv * f.sw * f.sxx]
OffsetAt(rows, now) ==
    LET f  == Fit(rows)
        V  == [i \in DOMAIN rows |->
                  IF \E j \in DOMAIN rows : rows[j].v > 0 THEN rows[i].v ELSE 1]
        VT == [i \in DOMAIN rows |-> V[i] * rows[i].t]
        VY == [i \in DOMAIN rows |-> V[i] * rows[i].y]
        sv == SumFunction(V)
    IN  [num |-> f.sxx * SumFunction(VY)
                 + f.sxy * (now * sv - SumFunction(VT)),
         den |-> sv * f.sxx]
=============================================================================
