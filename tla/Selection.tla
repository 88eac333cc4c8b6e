----------------------------- MODULE Selection -----------------------------
(***************************************************************************)
(* Source selection, rusty_time-core, select.rs: which of the sources that  *)
(* have an estimate agree, and which of those steers the clock.             *)
(*                                                                          *)
(* The argument E of every operator is the slice of SourceEstimate, as a    *)
(* function from a finite set of source indices, in the order of the slice, *)
(* to records [offset, dist, stratum].  Offsets and root distances are      *)
(* integers and distances are positive, the 1e-9 floor having been applied. *)
(* The combined offset is left out: the daemon does not use it.             *)
(***************************************************************************)
EXTENDS Integers, FiniteSets, FiniteSetsExt

\* The correctness interval of source s.
Low(E, s)  == E[s].offset - E[s].dist
High(E, s) == E[s].offset + E[s].dist

\* The endpoints of the sweep: each source has a lower and an upper one.
Edges(E) == (DOMAIN E) \X {"lower", "upper"}
Value(E, e) == IF e[2] = "lower" THEN Low(E, e[1]) ELSE High(E, e[1])

\* The order of the sorted edges.  The sort is stable: equal values stay in the
\* order in which the sources were given.
AtOrBefore(E, e, f) ==
    Value(E, e) < Value(E, f) \/ (Value(E, e) = Value(E, f) /\ e[1] <= f[1])

\* The count kept by the scan up when it has passed edge e, and by the scan down.
Passed(edges, kind) == Cardinality({e \in edges : e[2] = kind})
CountUp(E, e) ==
    LET passed == {f \in Edges(E) : AtOrBefore(E, f, e)}
    IN  Passed(passed, "lower") - Passed(passed, "upper")
CountDown(E, e) ==
    LET passed == {f \in Edges(E) : AtOrBefore(E, e, f)}
    IN  Passed(passed, "upper") - Passed(passed, "lower")

\* The values at which the scans find at least `need' intervals open.
Opening(E, need) == {Value(E, e) : e \in {f \in Edges(E) : CountUp(E, f) >= need}}
Closing(E, need) == {Value(E, e) : e \in {f \in Edges(E) : CountDown(E, f) >= need}}

\* [low, high] is contained in n - f intervals.
Found(E, need) ==
    LET opening == Opening(E, need)
        closing == Closing(E, need)
    IN  opening # {} /\ closing # {} /\ Min(opening) <= Max(closing)

\* Numbers of falsetickers tried, the smallest that works, and the n - f it leaves.
OneMoreFalseticker(n) == 0..(n \div 2)   \* mutant: an even split is enough
Tried(n)  == 0..((n - 1) \div 2)
Needs(E)  == {Cardinality(DOMAIN E) - f : f \in Tried(Cardinality(DOMAIN E))}
Chosen(E) == {need \in Needs(E) : Found(E, need)}

\* The sources whose interval meets [low, high].
SurvivesFromBelow(E, s, low, high) == High(E, s) >= low   \* mutant: high forgotten
Survives(E, s, low, high) == High(E, s) >= low /\ Low(E, s) <= high
Truechimers(E) ==
    LET chosen == Chosen(E)
        low    == Min(Opening(E, Max(chosen)))
        high   == Max(Closing(E, Max(chosen)))
    IN  IF chosen = {} THEN {} ELSE {s \in DOMAIN E : Survives(E, s, low, high)}

\* Best first: lowest stratum, then tightest interval, then the order given.
Better(E, s, t) ==
    \/ E[s].stratum < E[t].stratum
    \/ E[s].stratum = E[t].stratum /\ E[s].dist < E[t].dist
    \/ E[s].stratum = E[t].stratum /\ E[s].dist = E[t].dist /\ s <= t
First(E) ==
    LET truechimers == Truechimers(E)
    IN  CHOOSE s \in truechimers : \A t \in truechimers : Better(E, s, t)
=============================================================================
