--------------------------- MODULE SampleRegister ---------------------------
(***************************************************************************)
(* The register of samples of one source, rusty_time-core, filter.rs        *)
(* (SampleRegister): a window over a growing array, whose dead prefix is    *)
(* reclaimed from time to time, with the minimum delay and the weights of   *)
(* the fit cached beside it.                                                *)
(*                                                                          *)
(* Abstractions.  The clock is off by a line, and a sample measures it      *)
(* without noise.  A weight is what it was computed from: the delay of its  *)
(* sample and a minimum delay.  The weight floor ratio never changes after  *)
(* the register was made, and clear() has no caller.                        *)
(***************************************************************************)
EXTENDS Integers, Sequences, FiniteSets, FiniteSetsExt

CONSTANTS
    RegisterCapacity, \* samples kept
    Delays,     \* delays of the samples
    Changes,    \* changes of frequency, and of offset
    Unfilled,   \* the weight of a new sample
    MaxPushes,  \* bound on the samples, for model checking
    MaxChanges  \* bound on the changes of the clock, for model checking

ASSUME RegisterAssumption ==
    /\ RegisterCapacity \in Nat /\ RegisterCapacity >= 3
    /\ Delays \subseteq Nat \ {0} /\ Delays # {} /\ IsFiniteSet(Delays)
    /\ Changes \subseteq Int /\ MaxPushes \in Nat /\ MaxChanges \in Nat

VARIABLES
    samples,    \* samples, those before head dead
    weights,    \* as long as samples
    weightsFor, \* the minimum delay the weights were last computed for
    head,       \* number of dead samples
    minDelay,   \* of the live ones
    settled,    \* an estimate was made since the last push
    caller,     \* the loop, or a query that pushes all, estimates once and is done
    pushed,     \* number of samples pushed: the time
    clock,      \* what the clock is off by now, a line
    changes     \* number of changes of the clock

registerVars == <<samples, weights, weightsFor, head, minDelay, settled, caller, pushed,
                  clock, changes>>

Infinity == Max(Delays) + 1
Lower(a, b)  == IF a < b THEN a ELSE b
Off(line, t) == line.offset + line.freq * t

Live        == (head + 1)..Len(samples)
LowestOf(s) == Min({s[i].delay : i \in DOMAIN s} \cup {Infinity})
After(s, n) == SubSeq(s, n + 1, Len(s))

RegisterInit ==
    /\ samples = <<>> /\ weights = <<>> /\ weightsFor = Infinity /\ head = 0
    /\ minDelay = Infinity /\ settled = TRUE /\ pushed = 0 /\ changes = 0
    /\ caller \in {"loop", "query"}
    /\ clock = [offset |-> 0, freq |-> 0]

\* Only a scan can find the new minimum once the old one leaves.
RescansWhenLower(left, rest) ==   \* mutant: < for <=
    IF left.delay < minDelay THEN LowestOf(rest) ELSE minDelay
MinWithout(left, rest) ==
    IF left.delay <= minDelay THEN LowestOf(rest) ELSE minDelay

\* push
Push(d) ==
    /\ caller = "loop" => settled
    /\ caller # "done" /\ pushed < MaxPushes
    /\ LET sample  == [t |-> pushed + 1, y |-> Off(clock, pushed + 1), delay |-> d]
           grown   == Append(samples, sample)
           evicts  == Len(grown) - head > RegisterCapacity
           dead    == IF evicts THEN head + 1 ELSE head
           lowest  == IF evicts THEN MinWithout(samples[head + 1], After(grown, dead))
                      ELSE minDelay
           drained == IF dead >= RegisterCapacity THEN dead ELSE 0
       IN  /\ samples' = After(grown, drained)
           /\ weights' = After(Append(weights, Unfilled), drained)
           /\ head' = dead - drained
           /\ minDelay' = Lower(lowest, d)
    /\ pushed' = pushed + 1
    /\ settled' = FALSE
    /\ UNCHANGED <<weightsFor, caller, clock, changes>>

\* sync_weights: all live weights when the minimum moved, else the newest one.
SyncedFrom == IF weightsFor # minDelay THEN head + 1 ELSE Len(samples)
SyncWeights ==
    /\ weights' = [i \in DOMAIN weights |->
                      IF i >= SyncedFrom THEN <<samples[i].delay, minDelay>> ELSE weights[i]]
    /\ weightsFor' = minDelay

\* regress, which gives up below three samples; a query makes one estimate, its last.
Regress ==
    /\ ~ settled
    /\ settled' = TRUE
    /\ IF Cardinality(Live) < 3 THEN UNCHANGED <<weights, weightsFor>> ELSE SyncWeights
    /\ caller' = IF caller = "query" THEN "done" ELSE caller
    /\ UNCHANGED <<samples, head, minDelay, pushed, clock, changes>>

\* The discipline adds doffset to the clock and dfreq to its rate: slew_samples.
\* One of the two is usually zero, and the code has a walk for each case.
RestatedByOne(s, dfreq, doffset, t) ==   \* mutant: the second case forgets the offset
    IF dfreq = 0 THEN [s EXCEPT !.y = @ - doffset]
    ELSE [s EXCEPT !.y = @ - dfreq * (s.t - t)]
Restated(s, dfreq, doffset, t) ==
    IF dfreq = 0 THEN [s EXCEPT !.y = @ - doffset]
    ELSE IF doffset = 0 THEN [s EXCEPT !.y = @ - dfreq * (s.t - t)]
    ELSE [s EXCEPT !.y = @ - (doffset + dfreq * (s.t - t))]
SlewSamples(dfreq, doffset) ==
    /\ caller = "loop" /\ settled /\ changes < MaxChanges
    /\ changes' = changes + 1
    /\ clock' = [offset |-> clock.offset - doffset + dfreq * pushed, freq |-> clock.freq - dfreq]
    /\ samples' = [i \in DOMAIN samples |->
                      IF i \in Live THEN Restated(samples[i], dfreq, doffset, pushed)
                      ELSE samples[i]]
    /\ UNCHANGED <<weights, weightsFor, head, minDelay, settled, caller, pushed>>

RegisterNext ==
    \/ \E d \in Delays : Push(d)
    \/ Regress
    \/ \E dfreq, doffset \in Changes : SlewSamples(dfreq, doffset)
RegisterSpec == RegisterInit /\ [][RegisterNext]_registerVars

-----------------------------------------------------------------------------
\* What is cached is what would be computed: the minimum delay is that of the window
\* ("cached min_delay diverged from the register", regress, debug_assert), and an estimate
\* reads no weight that was computed for another minimum or never, although sync_weights
\* walks the window only when the minimum moved.
CachesAreFresh ==
    /\ minDelay = LowestOf(After(samples, head))
    /\ settled /\ Cardinality(Live) >= 3 =>
           \A i \in Live : weights[i] = <<samples[i].delay, minDelay>>

\* The window is the newest samples, in order, and after any corrections each of them
\* says what the clock as it is now was off by at its time (push, slew_samples).
WindowIsRestated ==
    /\ Cardinality(Live) = Lower(pushed, RegisterCapacity)
    /\ Len(samples) < 2 * RegisterCapacity
    /\ \A i \in Live : /\ samples[i].t = pushed - (Len(samples) - i)
                       /\ samples[i].y = Off(clock, samples[i].t)
=============================================================================
