------------------------- MODULE Discipline_proofs -------------------------
(***************************************************************************)
(* Proofs about Discipline, for every set of estimates and every            *)
(* configuration its assumptions allow.                                     *)
(***************************************************************************)
EXTENDS Discipline, TLAPS

USE EstimatesAssumption, ConfigAssumption, BurstAssumption, WindowAssumption

\* The saturating counters stay below their caps.
LEMMA BumpType ==
    ASSUME NEW cap \in Nat, NEW n \in 0..cap
    PROVE  Bump(n, cap) \in 0..cap /\ (n < cap => Bump(n, cap) = n + 1)
BY DEF Bump, Least

LEMMA CapTypes == UpdatesCap \in Nat /\ RefusalCap \in Nat /\ RefusalCap > MaxChangeIgnore
BY DEF UpdatesCap, RefusalCap, Most

LEMMA ClampType ==
    ASSUME NEW x \in Int PROVE Clamp(x, MaxFreq) \in -MaxFreq..MaxFreq
BY DEF Clamp, Most, Least

LEMMA HaulsType ==
    ASSUME NEW n, NEW o, NEW sd, NEW t PROVE Hauls(n, o, sd, t) \in BOOLEAN
<1> DEFINE A == n <= AcquireUpdates /\ Abs(o) > AcquireNoise * sd
           B == Abs(o) >= FullSpeed * sd /\ 4 * Abs(o) > MaxSlew * t
           C == 4 * Abs(o) > MaxSlew * Least(t, CorrTimeMax)
<1>1. Hauls(n, o, sd, t) = IF A THEN B ELSE C
  BY DEF Hauls
<1>2. B \in BOOLEAN /\ C \in BOOLEAN
  OBVIOUS
<1> HIDE DEF A, B, C
<1> QED BY <1>1, <1>2

LEMMA NewestCleanType ==
    ASSUME clean \in 0..FreqMinSamples PROVE NewestClean \in 0..FreqMinSamples
<1>1. Bump(clean, FreqMinSamples) \in 0..FreqMinSamples
  BY BumpType
<1> QED BY <1>1 DEF NewestClean

\* A poll slot is taken from the burst or it is not.
LEMMA TakePollType ==
    ASSUME NEW left \in Nat, burstUsed \in Nat, fastPlans \in 0..(MaxAcquireBurst + 1),
           TakePoll(left)
    PROVE  /\ burstLeft' \in Nat /\ burstUsed' \in Nat
           /\ burstLeft' + burstUsed' = left + burstUsed
           /\ fastPlans' \in 0..(MaxAcquireBurst + 1)
           /\ fastPlans = burstUsed /\ burstUsed + left <= MaxAcquireBurst
              => fastPlans' = burstUsed'
BY DEF TakePoll, BurstAfter, Bump, Least

\* Extending the burst never takes it beyond the cap.
LEMMA ExtendedType ==
    ASSUME NEW o, NEW sd, burstLeft \in Nat, burstUsed \in Nat,
           burstUsed + burstLeft <= MaxAcquireBurst
    PROVE  Extended(o, sd) \in Nat /\ burstUsed + Extended(o, sd) <= MaxAcquireBurst
BY DEF Extended

-----------------------------------------------------------------------------
(* What is inductive: the plans at the burst spacing are the burst polls used,
   those used and those left never exceed the cap, and the run of refusals an
   observer counts is the one the guard counts. *)
BurstInv == fastPlans = burstUsed /\ burstUsed + burstLeft <= MaxAcquireBurst
RunInv   == refusedRun = changeRefusals /\ GivesUpAfterRun
PlanInv  == pc = "planned" => plan \in Plans
IInv     == TypeOK /\ PlanInv /\ BurstInv /\ RunInv

LEMMA InitIInv == Init => IInv
<1> SUFFICES ASSUME Init PROVE IInv
  OBVIOUS
<1>1. /\ freq \in -MaxFreq..MaxFreq /\ updates \in 0..UpdatesCap /\ poll \in MinPoll..MaxPoll
      /\ streak \in 0..PollUpStreak /\ changeRefusals \in 0..RefusalCap
      /\ refusedRun \in 0..RefusalCap /\ clean \in 0..FreqMinSamples
      /\ fastPlans \in 0..(MaxAcquireBurst + 1)
  BY CapTypes DEF Init
<1>2. /\ burstLeft \in Nat /\ burstUsed \in Nat /\ BurstInv
  BY DEF Init, BurstInv
<1>3. TypeOK
  BY <1>1, <1>2 DEF Init, TypeOK
<1>4. PlanInv /\ RunInv
  BY DEF Init, PlanInv, RunInv, GivesUpAfterRun
<1> QED BY <1>2, <1>3, <1>4 DEF IInv

LEMMA StepIInv ==
    ASSUME IInv, NEW o \in Offsets, pc = "idle", Step(o)
    PROVE  IInv'
<1> USE DEF IInv
<1>1. updates' \in 0..UpdatesCap
  BY CapTypes, BumpType DEF Step, NthUpdate, TypeOK
<1>2. /\ burstLeft' \in Nat /\ burstUsed' \in Nat
      /\ fastPlans' \in 0..(MaxAcquireBurst + 1) /\ BurstInv'
  BY TakePollType DEF Step, TypeOK, BurstInv
<1>3. plan' \in Plans
  <2>1. freq \in Int BY DEF TypeOK
  <2> QED BY <2>1 DEF Step, StepPlan, Plans
<1>4. TypeOK'
  <2>1. /\ freq' \in -MaxFreq..MaxFreq /\ poll' \in MinPoll..MaxPoll
        /\ streak' \in 0..PollUpStreak /\ changeRefusals' \in 0..RefusalCap
        /\ refusedRun' \in 0..RefusalCap /\ clean' \in 0..FreqMinSamples
    BY CapTypes, NewestCleanType DEF Step, TypeOK
  <2>2. /\ hauled' \in BOOLEAN /\ running' \in BOOLEAN /\ tainted' \in BOOLEAN
        /\ lastQuiet' \in BOOLEAN /\ disobeyed' \in BOOLEAN /\ pc' = "planned"
    BY Zenon DEF Step, TypeOK, HauledAfterStep
  <2> QED BY <1>1, <1>2, <1>3, <2>1, <2>2 DEF TypeOK
<1>5. RunInv'
  BY DEF Step, RunInv, GivesUpAfterRun
<1> QED BY <1>2, <1>3, <1>4, <1>5 DEF PlanInv

LEMMA GuardIInv ==
    ASSUME IInv, NEW o \in Offsets, NEW leap \in Leaps,
           GuardRefuse(o, leap) \/ GuardGiveUp(o, leap)
    PROVE  IInv'
<1> USE DEF IInv
<1>1. Guard(o, leap)
  BY DEF GuardRefuse, GuardGiveUp
<1>2. updates' \in 0..UpdatesCap
  BY <1>1, CapTypes, BumpType DEF Guard, NthUpdate, TypeOK
<1>3. /\ burstLeft' \in Nat /\ burstUsed' \in Nat
      /\ fastPlans' \in 0..(MaxAcquireBurst + 1) /\ BurstInv'
  BY <1>1, TakePollType DEF Guard, TypeOK, BurstInv
<1>4. plan' \in Plans /\ pc' \in {"planned", "gaveup"}
  <2>1. freq \in Int BY DEF TypeOK
  <2>2. \A v \in {"refused", "gaveup"} : HoldPlan(v) \in Plans
    BY <2>1 DEF HoldPlan, Plans
  <2> QED BY <2>2 DEF GuardRefuse, GuardGiveUp
<1>5. changeRefusals' \in 0..RefusalCap /\ refusedRun' \in 0..RefusalCap
  BY <1>1, CapTypes, BumpType DEF Guard, TypeOK
<1>6. TypeOK'
  <2>1. /\ freq' \in -MaxFreq..MaxFreq /\ poll' \in MinPoll..MaxPoll
        /\ streak' \in 0..PollUpStreak /\ clean' \in 0..FreqMinSamples
    BY <1>1, NewestCleanType DEF Guard, TypeOK
  <2>2. /\ hauled' \in BOOLEAN /\ running' \in BOOLEAN /\ tainted' \in BOOLEAN
        /\ lastQuiet' \in BOOLEAN /\ disobeyed' \in BOOLEAN
    BY <1>1, Zenon DEF Guard, TypeOK
  <2> QED BY <1>2, <1>3, <1>4, <1>5, <2>1, <2>2 DEF TypeOK
<1>7. refusedRun' = changeRefusals'
  BY <1>1 DEF Guard, RunInv
<1>8. ASSUME MaxChangeIgnore >= 0
      PROVE  (pc' = "gaveup" <=> refusedRun' > MaxChangeIgnore)
  <2>1. changeRefusals < RefusalCap
    BY <1>1, <1>8, CapTypes DEF Guard, RunInv, GivesUpAfterRun, TypeOK
  <2>2. changeRefusals' = changeRefusals + 1
    BY <1>1, <2>1, CapTypes, BumpType DEF Guard, TypeOK
  <2> QED BY <1>7, <1>8, <2>2 DEF GuardRefuse, GuardGiveUp, AllowanceSpent, TypeOK
<1> QED BY <1>3, <1>4, <1>6, <1>7, <1>8 DEF PlanInv, RunInv, GivesUpAfterRun

LEMMA SlewIInv ==
    ASSUME IInv, NEW o \in Offsets, NEW leap \in Leaps, NEW fm \in Slopes \cup {None},
           NEW sd \in Noises, Slew(o, fm, sd, leap)
    PROVE  IInv'
<1> USE DEF IInv
<1>1. updates' \in 0..UpdatesCap
  BY CapTypes, BumpType DEF Slew, NthUpdate, TypeOK
<1>2. Extended(o, sd) \in Nat /\ burstUsed + Extended(o, sd) <= MaxAcquireBurst
  BY ExtendedType DEF TypeOK, BurstInv
<1>3. /\ burstLeft' \in Nat /\ burstUsed' \in Nat
      /\ fastPlans' \in 0..(MaxAcquireBurst + 1) /\ BurstInv'
  <2>1. TakePoll(Extended(o, sd)) BY DEF Slew
  <2> QED BY <1>2, <2>1, TakePollType DEF TypeOK, BurstInv
<1>4. freq' \in -MaxFreq..MaxFreq
  <2>1. fm # None => Clamp(freq + fm, MaxFreq) \in -MaxFreq..MaxFreq
    BY ClampType DEF TypeOK
  <2> QED BY <2>1 DEF Slew, FreqAfter, TypeOK
<1>5. poll' \in MinPoll..MaxPoll
  BY DEF Slew, PollAfter, StableAfter, TypeOK
<1>6. streak' \in 0..PollUpStreak
  BY BumpType DEF Slew, StreakAfter, TypeOK
<1>7. hauled' \in BOOLEAN
  BY HaulsType DEF Slew
<1>8. plan' \in Plans
  BY <1>4, <1>7 DEF Slew, Plans
<1>9. lastQuiet' \in BOOLEAN /\ clean' \in 0..FreqMinSamples
  BY NewestCleanType DEF Slew, Quiet, TypeOK
<1>10. TypeOK'
  BY <1>1, <1>3, <1>4, <1>5, <1>6, <1>7, <1>8, <1>9, CapTypes
     DEF Slew, RunAfterBelieved, TypeOK
<1>11. RunInv'
  BY DEF Slew, RunAfterBelieved, RunInv, GivesUpAfterRun
<1> QED BY <1>3, <1>8, <1>10, <1>11 DEF PlanInv

LEMMA OthersIInv ==
    ASSUME IInv, Apply \/ Refuse \/ DrainSpent
    PROVE  IInv'
<1> USE DEF IInv
<1>1. CASE Apply
  <2>1. running' \in BOOLEAN /\ tainted' \in BOOLEAN /\ disobeyed' \in BOOLEAN
    BY <1>1 DEF Apply, PlanInv, Plans, TypeOK
  <2> QED BY <1>1, <2>1 DEF Apply, state, PlanInv, BurstInv, RunInv, GivesUpAfterRun, TypeOK
<1>2. CASE Refuse
  BY <1>2 DEF Refuse, state, PlanInv, BurstInv, RunInv, GivesUpAfterRun, TypeOK
<1>3. CASE DrainSpent
  BY <1>3 DEF DrainSpent, state, PlanInv, BurstInv, RunInv, GivesUpAfterRun, TypeOK
<1> QED BY <1>1, <1>2, <1>3

LEMMA NextIInv == IInv /\ [Next]_vars => IInv'
<1> SUFFICES ASSUME IInv, [Next]_vars PROVE IInv'
  OBVIOUS
<1>1. CASE Estimate
  <2> SUFFICES ASSUME NEW o \in Offsets, NEW leap \in Leaps,
                      \/ LeapStep(o, leap)
                      \/ GuardRefuse(o, leap)
                      \/ GuardGiveUp(o, leap)
                      \/ MakeStep(o, leap)
                      \/ \E fm \in Slopes \cup {None}, sd \in Noises : Slew(o, fm, sd, leap)
               PROVE  IInv'
    BY <1>1 DEF Estimate
  <2>1. CASE LeapStep(o, leap) \/ MakeStep(o, leap)
    BY <2>1, StepIInv DEF LeapStep, MakeStep
  <2>2. CASE GuardRefuse(o, leap) \/ GuardGiveUp(o, leap)
    BY <2>2, GuardIInv
  <2>3. CASE \E fm \in Slopes \cup {None}, sd \in Noises : Slew(o, fm, sd, leap)
    BY <2>3, SlewIInv
  <2> QED BY <2>1, <2>2, <2>3
<1>2. CASE Apply \/ Refuse \/ DrainSpent
  BY <1>2, OthersIInv
<1>3. CASE UNCHANGED vars
  BY <1>3 DEF vars, state, history, IInv, PlanInv, BurstInv, RunInv, GivesUpAfterRun, TypeOK
<1> QED BY <1>1, <1>2, <1>3 DEF Next

LEMMA Invariance == Spec => []IInv
BY InitIInv, NextIInv, PTL DEF Spec

\* Every reachable state of the discipline is well typed (struct Discipline).
THEOREM TypeCorrect == Spec => []TypeOK
<1>1. IInv => TypeOK BY DEF IInv
<1> QED BY <1>1, Invariance, PTL

\* However the estimates go, the burst spacing is asked for by at most
\* MAX_ACQUIRE_BURST plans.
THEOREM BurstCapped == Spec => []FastPlansAreCapped
<1>1. IInv => FastPlansAreCapped
  BY DEF IInv, TypeOK, BurstInv, FastPlansAreCapped
<1> QED BY <1>1, Invariance, PTL

\* Giving up is exactly a run of more than max_change_ignore refusals.
THEOREM GivingUpIsEarned == Spec => []GivesUpAfterRun
<1>1. IInv => GivesUpAfterRun BY DEF IInv, RunInv
<1> QED BY <1>1, Invariance, PTL

-----------------------------------------------------------------------------
(* A haul is remembered unless the driver has refused a plan: what drained since
   the last estimate is covered by `hauled', and so is what the plan on its way
   leaves running, a step the drain that runs and a slew its own. *)
HaulInv ==
    /\ pc = "idle" => (running => tainted) /\ (tainted /\ ~disobeyed => hauled)
    /\ pc = "planned" /\ plan.kind = "step" => (running /\ ~disobeyed => hauled)
    /\ pc = "planned" /\ plan.kind = "slew" => (plan.hauls => hauled)

LEMMA InitHaul == Init => HaulInv
BY DEF Init, HaulInv

LEMMA NextHaul == IInv /\ HaulInv /\ [Next]_vars => HaulInv'
<1> SUFFICES ASSUME IInv, HaulInv, [Next]_vars PROVE HaulInv'
  OBVIOUS
<1>1. CASE Estimate
  <2>1. PICK o \in Offsets, leap \in Leaps :
            \/ LeapStep(o, leap)
            \/ GuardRefuse(o, leap)
            \/ GuardGiveUp(o, leap)
            \/ MakeStep(o, leap)
            \/ \E fm \in Slopes \cup {None}, sd \in Noises : Slew(o, fm, sd, leap)
    BY <1>1 DEF Estimate
  <2>2. CASE LeapStep(o, leap) \/ MakeStep(o, leap)
    BY <2>2 DEF LeapStep, MakeStep, Step, StepPlan, HauledAfterStep, HaulInv
  <2>3. CASE GuardRefuse(o, leap) \/ GuardGiveUp(o, leap)
    BY <2>3 DEF GuardRefuse, GuardGiveUp, HoldPlan, HaulInv
  <2>4. CASE \E fm \in Slopes \cup {None}, sd \in Noises : Slew(o, fm, sd, leap)
    BY <2>4 DEF Slew, HaulInv
  <2> QED BY <2>1, <2>2, <2>3, <2>4
<1>2. CASE Apply
  <2>1. plan.kind \in {"step", "slew"}
    BY <1>2 DEF Apply, IInv, PlanInv, Plans
  <2>2. CASE plan.kind = "step"
    BY <1>2, <2>2 DEF Apply, state, HaulInv
  <2>3. CASE plan.kind = "slew"
    BY <1>2, <2>3 DEF Apply, state, HaulInv
  <2> QED BY <2>1, <2>2, <2>3
<1>3. CASE Refuse
  BY <1>3 DEF Refuse, state, HaulInv
<1>4. CASE DrainSpent
  BY <1>4 DEF DrainSpent, state, HaulInv
<1>5. CASE UNCHANGED vars
  BY <1>5 DEF vars, state, history, HaulInv
<1> QED BY <1>1, <1>2, <1>3, <1>4, <1>5 DEF Next

LEMMA OnlyUntainted ==
    HaulInv /\ [Next]_vars => [freq' # freq /\ ~disobeyed => ~tainted]_vars
<1> SUFFICES ASSUME HaulInv, Next, freq' # freq, ~disobeyed PROVE ~tainted
  OBVIOUS
<1>1. PICK o \in Offsets, leap \in Leaps, fm \in Slopes \cup {None}, sd \in Noises :
          Slew(o, fm, sd, leap)
  BY DEF Next, Estimate, LeapStep, MakeStep, Step, GuardRefuse, GuardGiveUp, Guard,
         Apply, Refuse, DrainSpent, state
<1>2. ~hauled
  BY <1>1 DEF Slew, FreqAfter
<1> QED BY <1>1, <1>2 DEF Slew, HaulInv

\* Unless the driver refused a plan, no slope reaches the frequency when the clock was
\* hauled between the estimate before and this one, steps included: a step leaves both
\* the drain in force and the memory of it (on_estimate_with_leap, last_drain_share).
\* Older hauls, still in the window, are outside it.
THEOREM HaulsAreRemembered == Spec => FreshHaulIsNotTrusted
<1>1. Init /\ [][Next]_vars /\ []IInv => []HaulInv
  BY InitHaul, NextHaul, PTL
<1>2. []HaulInv /\ [][Next]_vars => FreshHaulIsNotTrusted
  BY OnlyUntainted, PTL DEF FreshHaulIsNotTrusted
<1> QED BY <1>1, <1>2, Invariance, PTL DEF Spec
=============================================================================
