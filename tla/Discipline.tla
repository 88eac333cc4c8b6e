----------------------------- MODULE Discipline -----------------------------
(***************************************************************************)
(* The discipline of rusty_time-core, discipline.rs: what becomes of one    *)
(* estimate.  An estimate is stepped away, slewed away, refused by the      *)
(* maximum-change guard, or the last straw that makes the daemon give up;   *)
(* every plan also says when to poll next.  The daemon then hands the plan  *)
(* to the driver, which may refuse it (rusty_time-daemon, sync.rs).         *)
(*                                                                          *)
(* Abstractions.  Offsets, noise and the slew ceiling are integers in one   *)
(* unit; the drain rate is not computed, only compared with the share of    *)
(* the ceiling above which the clock is being hauled, which needs no        *)
(* division.  Counters saturate above every threshold they are compared     *)
(* with.  The integral trim is left out: its gain is zero by default.  An     *)
(* exchange that yields nothing (retry_interval_s) changes nothing here.     *)
(* Of the window a slope is fitted over, only its newest samples are         *)
(* followed, as far back as the fewest a slope needs: how many of them no    *)
(* haul parts.  A plan that slews leaves the window (reset_register is       *)
(* FALSE), and so does a step: client.rs restates the registers.  The span   *)
(* a slope needs beside the samples is left out.                             *)
(***************************************************************************)
EXTENDS Integers

CONSTANTS
    Offsets,          \* offsets an estimate may carry
    Noises,           \* its offset_sd
    Slopes,           \* residual frequencies the regression may measure
    Leaps,            \* whether the source announces a leap second: a set of BOOLEAN
    Threshold,        \* makestep_threshold, or None
    StepLimit,        \* makestep_limit
    MaxSlew,          \* max_slew_ppm
    MaxFreq,          \* max_freq_ppm
    MinPoll, MaxPoll, \* poll bounds, log2 seconds
    Iburst,           \* iburst
    PollUpStreak,     \* poll_up_streak
    PollDownRatio,    \* poll_down_noise_ratio
    CorrTimeMax,      \* corr_time_max_s
    LeapMode,         \* leap_mode: "slew", "step" or "ignore"
    MaxChange,        \* max_change_s, or None
    MaxChangeStart,   \* max_change_start
    MaxChangeIgnore,  \* max_change_ignore; negative never gives up
    IburstCount, IburstSpacing, MaxAcquireBurst, AcquireUpdates,
    AcquireNoise,     \* ACQUIRE_NOISE_MULTIPLE
    FullSpeed,        \* ACQUIRE_FULL_SPEED_CONFIDENCE
    AcquireDone,      \* ACQUIRE_DONE_S
    LeapExemption,    \* LEAP_EXEMPTION_S
    FreqMinSamples,   \* FREQ_MIN_SAMPLES; 1 for a source that may have filled its
                      \* window before it is selected
    DriverMayRefuse,  \* whether clock_adjtime may fail
    None              \* an Option that is None

ASSUME EstimatesAssumption ==
    /\ Offsets \subseteq Int /\ Noises \subseteq Nat \ {0}
    /\ Slopes \subseteq Int /\ Leaps \subseteq BOOLEAN
ASSUME ConfigAssumption ==
    /\ MinPoll \in Nat /\ MaxPoll \in Nat /\ MinPoll <= MaxPoll
    /\ StepLimit \in Nat /\ PollUpStreak \in Nat \ {0}
    /\ MaxSlew \in Nat \ {0} /\ MaxFreq \in Nat
    /\ MaxChangeStart \in Nat /\ MaxChangeIgnore \in Int
    /\ LeapMode \in {"slew", "step", "ignore"}
    /\ Iburst \in BOOLEAN
ASSUME BurstAssumption ==
    /\ AcquireUpdates \in Nat /\ IburstCount \in Nat
    /\ MaxAcquireBurst \in Nat /\ IburstCount <= MaxAcquireBurst
ASSUME WindowAssumption == FreqMinSamples \in Nat \ {0}

VARIABLES
    \* struct Discipline
    freq,           \* freq_ppm
    updates,        \* updates
    poll,           \* poll
    streak,         \* stable_streak
    burstLeft,      \* iburst_left
    burstUsed,      \* burst_used
    hauled,         \* last_drain_share > FREQ_TRUST_SLEW_SHARE
    changeRefusals, \* change_refusals
    \* the daemon
    pc,             \* "idle", "planned" or "gaveup"
    plan,           \* the plan on its way to the driver
    \* history
    running,        \* the driver is draining above the trusted share
    tainted,        \* it was, at some time since the last estimate
    clean,          \* newest samples of the window that no haul parts
    refusedRun,     \* corrections refused in a row
    lastQuiet,      \* the last estimate was within the noise
    disobeyed,      \* the driver refused a plan, and has obeyed no slew since
    fastPlans       \* plans that asked for the burst spacing

state   == <<freq, updates, poll, streak, burstLeft, burstUsed, hauled, changeRefusals>>
history == <<running, tainted, clean, refusedRun, lastQuiet, disobeyed, fastPlans>>
vars    == <<state, pc, plan, history>>

-----------------------------------------------------------------------------
Abs(x)      == IF x < 0 THEN -x ELSE x
Least(a, b) == IF a < b THEN a ELSE b
Most(a, b)  == IF a > b THEN a ELSE b
Clamp(x, m) == Most(-m, Least(x, m))

\* Counters stop one above everything they are compared with.
UpdatesCap == Most(FreqMinSamples, Most(StepLimit, Most(AcquireUpdates, MaxChangeStart))) + 1
RefusalCap == Most(MaxChangeIgnore, 0) + 1
Bump(n, cap) == Least(n + 1, cap)

Plans == [kind : {"step", "slew"}, offset : Offsets \cup {0}, freq : Int,
          hauls : BOOLEAN, verdict : {"accepted", "refused", "gaveup"}]

\* peek_poll_interval
PollInterval(left, p) == IF left > 0 THEN IburstSpacing ELSE 2^p

\* take_poll_interval: one poll slot, called once per plan with what is left.
BurstAfter(left, used) ==
    IF left > 0 THEN [left |-> left - 1, used |-> used + 1]
    ELSE [left |-> left, used |-> used]
TakePoll(left) ==
    /\ burstLeft' = BurstAfter(left, burstUsed).left
    /\ burstUsed' = BurstAfter(left, burstUsed).used
    /\ fastPlans' = IF left > 0 THEN Bump(fastPlans, MaxAcquireBurst + 1) ELSE fastPlans

\* leap_exempt
LeapExempt(o, leap) == leap /\ LeapMode # "ignore" /\ Abs(o) <= LeapExemption

\* The maximum-change guard, for the n-th update.
BeyondMaxChange(n, o, leap) ==
    /\ MaxChange # None /\ ~LeapExempt(o, leap)
    /\ n > MaxChangeStart /\ Abs(o) > MaxChange

\* chrony's makestep, for the n-th update.
MustStep(n, o) == Threshold # None /\ Abs(o) > Threshold /\ n <= StepLimit

\* Refusals so far, one more included, have used up the allowance.
AllowanceSpent(seen) == MaxChangeIgnore >= 0 /\ seen > MaxChangeIgnore

\* The rate a slew asks for, over the ceiling, is above FREQ_TRUST_SLEW_SHARE (a
\* quarter): the quarter share of the fast correction is not, the full share is.
Hauls(n, o, sd, t) ==
    IF n <= AcquireUpdates /\ Abs(o) > AcquireNoise * sd
    THEN Abs(o) >= FullSpeed * sd /\ 4 * Abs(o) > MaxSlew * t
    ELSE 4 * Abs(o) > MaxSlew * Least(t, CorrTimeMax)

Quiet(o, sd) == Abs(o) < 2 * sd

\* The burst goes on while a correction is still outstanding.
ExtendedUncapped(o, sd) ==           \* mutant: no MAX_ACQUIRE_BURST
    IF burstLeft = 0 /\ Iburst /\ Abs(o) > Most(AcquireDone, 2 * sd) THEN 1 ELSE burstLeft
Extended(o, sd) ==
    IF /\ burstLeft = 0 /\ Iburst /\ burstUsed < MaxAcquireBurst
       /\ Abs(o) > Most(AcquireDone, 2 * sd)
    THEN 1 ELSE burstLeft

-----------------------------------------------------------------------------
Init ==
    /\ freq = 0 /\ updates = 0 /\ poll = MinPoll /\ streak = 0
    /\ burstLeft = (IF Iburst THEN IburstCount ELSE 0) /\ burstUsed = 0
    /\ hauled = FALSE /\ changeRefusals = 0
    /\ pc = "idle" /\ plan = None
    /\ running = FALSE /\ tainted = FALSE /\ clean = 0
    /\ refusedRun = 0 /\ lastQuiet = FALSE
    /\ disobeyed = FALSE /\ fastPlans = 0

\* Every estimate is counted first, and yields a plan for the driver.
NthUpdate == Bump(updates, UpdatesCap)
StepPlan(o) ==
    [kind |-> "step", offset |-> o, freq |-> freq, hauls |-> FALSE,
     verdict |-> "accepted"]
\* "Hold the frequency already commanded and drain nothing"
HoldPlan(v) ==
    [kind |-> "slew", offset |-> 0, freq |-> freq, hauls |-> FALSE, verdict |-> v]

\* Every estimate brings a sample; what the clock was hauled through since the one
\* before parts it from that one.
NewestClean == IF tainted THEN 1 ELSE Bump(clean, FreqMinSamples)

\* A step clears the streak and the run of refusals, and nothing else: the share
\* of the last drain stays, and so does the estimate of the frequency.
ForgetHaul      == FALSE     \* mutant: a step resets last_drain_share
HauledAfterStep == hauled
Step(o) ==
    /\ updates' = NthUpdate
    /\ streak' = 0 /\ changeRefusals' = 0
    /\ TakePoll(burstLeft)
    /\ hauled' = HauledAfterStep
    /\ plan' = StepPlan(o) /\ pc' = "planned"
    /\ refusedRun' = 0 /\ lastQuiet' = FALSE /\ clean' = NewestClean
    /\ UNCHANGED <<freq, poll, running, tainted, disobeyed>>

\* An announced leap second, with LeapMode::Step.
LeapStep(o, leap) ==
    /\ pc = "idle"
    /\ LeapExempt(o, leap) /\ LeapMode = "step"
    /\ Step(o)

\* The maximum-change guard refuses, or gives up.
Guard(o, leap) ==
    /\ pc = "idle"
    /\ BeyondMaxChange(NthUpdate, o, leap)
    /\ updates' = NthUpdate
    /\ changeRefusals' = Bump(changeRefusals, RefusalCap)
    /\ streak' = 0
    /\ TakePoll(burstLeft)
    /\ refusedRun' = Bump(refusedRun, RefusalCap)
    /\ lastQuiet' = FALSE /\ clean' = NewestClean
    /\ UNCHANGED <<freq, poll, hauled, running, tainted, disobeyed>>

GuardRefuse(o, leap) ==
    /\ Guard(o, leap)
    /\ ~AllowanceSpent(changeRefusals + 1)
    /\ plan' = HoldPlan("refused") /\ pc' = "planned"

GuardGiveUp(o, leap) ==
    /\ Guard(o, leap)
    /\ AllowanceSpent(changeRefusals + 1)
    /\ plan' = HoldPlan("gaveup") /\ pc' = "gaveup"

\* Neither the leap step nor the guard takes the estimate.
Believed(o, leap) ==
    /\ ~(LeapExempt(o, leap) /\ LeapMode = "step")
    /\ ~BeyondMaxChange(NthUpdate, o, leap)

\* makestep
MakeStep(o, leap) ==
    /\ pc = "idle"
    /\ Believed(o, leap) /\ MustStep(NthUpdate, o)
    /\ Step(o)

\* The poll interval doubles after PollUpStreak quiet estimates, and halves on
\* one that is far outside the noise.
StableShort(o, sd) ==        \* mutant: off by one below the bound
    Quiet(o, sd) /\ streak + 1 >= PollUpStreak /\ poll + 1 < MaxPoll
StableAfter(o, sd) == Quiet(o, sd) /\ streak + 1 >= PollUpStreak /\ poll < MaxPoll
PollAfter(o, sd) ==
    IF StableAfter(o, sd) THEN poll + 1
    ELSE IF ~Quiet(o, sd) /\ Abs(o) > PollDownRatio * sd /\ poll > MinPoll THEN poll - 1
    ELSE poll
StreakAfter(o, sd) ==
    IF Quiet(o, sd) /\ ~StableAfter(o, sd) THEN Bump(streak, PollUpStreak) ELSE 0

\* The slope is absorbed unless the samples were taken while the clock was hauled.
FreqAfter(fm) == IF fm # None /\ ~hauled THEN Clamp(freq + fm, MaxFreq) ELSE freq

\* The refusals of corrections must be consecutive to count.
RunKept          == changeRefusals   \* mutant: one believed estimate clears nothing
RunAfterBelieved == 0

\* Slew the offset away.  The estimate has a slope only once the window holds
\* enough samples for one.
Slew(o, fm, sd, leap) ==
    /\ pc = "idle"
    /\ fm # None => NthUpdate >= FreqMinSamples
    /\ Believed(o, leap) /\ ~MustStep(NthUpdate, o)
    /\ updates' = NthUpdate
    /\ changeRefusals' = RunAfterBelieved
    /\ freq' = FreqAfter(fm)
    /\ poll' = PollAfter(o, sd) /\ streak' = StreakAfter(o, sd)
    /\ hauled' = Hauls(NthUpdate, o, sd, PollInterval(Extended(o, sd), poll'))
    /\ TakePoll(Extended(o, sd))
    /\ plan' = [kind |-> "slew", offset |-> o, freq |-> freq', hauls |-> hauled',
                verdict |-> "accepted"]
    /\ pc' = "planned"
    /\ refusedRun' = 0 /\ lastQuiet' = Quiet(o, sd) /\ clean' = NewestClean
    /\ UNCHANGED <<running, tainted, disobeyed>>

Estimate ==
    \E o \in Offsets, leap \in Leaps :
        \/ LeapStep(o, leap)
        \/ GuardRefuse(o, leap)
        \/ GuardGiveUp(o, leap)
        \/ MakeStep(o, leap)
        \/ \E fm \in Slopes \cup {None}, sd \in Noises : Slew(o, fm, sd, leap)

\* The driver obeys.  A step leaves the net rate, drain included, as it is.
Apply ==
    /\ pc = "planned"
    /\ running' = IF plan.kind = "step" THEN running ELSE plan.hauls
    /\ tainted' = running'
    /\ disobeyed' = (disobeyed /\ plan.kind = "step")
    /\ plan' = None /\ pc' = "idle"
    /\ UNCHANGED <<state, clean, refusedRun, lastQuiet, fastPlans>>

\* The driver refuses: revert_last_plan reverts nothing of the discipline.
Refuse ==
    /\ pc = "planned" /\ DriverMayRefuse
    /\ tainted' = running /\ disobeyed' = TRUE
    /\ plan' = None /\ pc' = "idle"
    /\ UNCHANGED <<state, running, clean, refusedRun, lastQuiet, fastPlans>>

\* poll_drain ends a drain whose budget is spent.
DrainSpent ==
    /\ pc = "idle" /\ running
    /\ running' = FALSE
    /\ UNCHANGED <<state, pc, plan, tainted, clean, refusedRun, lastQuiet, disobeyed,
                   fastPlans>>

Next ==
    \/ Estimate
    \/ Apply
    \/ Refuse
    \/ DrainSpent

\* The daemon keeps exchanging packets, some exchange always yields an estimate in
\* the end, and a plan is handed to the driver at once.
Fairness == WF_vars(Estimate) /\ WF_vars(Apply)

Spec == Init /\ [][Next]_vars
FairSpec == Spec /\ Fairness

-----------------------------------------------------------------------------
TypeOK ==
    /\ freq \in -MaxFreq..MaxFreq
    /\ updates \in 0..UpdatesCap
    /\ poll \in MinPoll..MaxPoll
    /\ streak \in 0..PollUpStreak
    /\ burstLeft \in Nat /\ burstUsed \in Nat
    /\ hauled \in BOOLEAN
    /\ changeRefusals \in 0..RefusalCap
    /\ pc \in {"idle", "planned", "gaveup"}
    /\ plan \in Plans \cup {None}
    /\ running \in BOOLEAN /\ tainted \in BOOLEAN /\ clean \in 0..FreqMinSamples
    /\ refusedRun \in 0..RefusalCap
    /\ lastQuiet \in BOOLEAN
    /\ disobeyed \in BOOLEAN
    /\ fastPlans \in 0..(MaxAcquireBurst + 1)

\* However the estimates go, plans ask for the burst spacing at most
\* MAX_ACQUIRE_BURST times: the extension that keeps the burst going while a
\* correction is outstanding is capped (discipline.rs, MAX_ACQUIRE_BURST), steps
\* and refused corrections included, which use slots without extending the burst.
FastPlansAreCapped == fastPlans <= MaxAcquireBurst

\* The daemon has given up exactly when the guard has refused more corrections in
\* a row than max_change_ignore allows: one correction within the limit starts the
\* count again ("the allowance is for CONSECUTIVE refusals"), an announced leap
\* second does too, and a driver that refuses or a lost reply does not.
GivesUpAfterRun ==
    MaxChangeIgnore >= 0 => (pc = "gaveup" <=> refusedRun > MaxChangeIgnore)

\* No slope is absorbed by an estimate whose newest sample came after the clock was
\* hauled through the interval before it, as long as the driver obeys: no mix of
\* steps, leaps, guard refusals and drains that end in between lets the discipline
\* forget that haul, and the first slew the driver obeys after it refused a plan sets
\* the memory right (discipline.rs, last_drain_share).  This says nothing of older
\* hauls, whose samples the window still holds: see HaulLeavesWindowFirst.
FreshHaulIsNotTrusted == [][freq' # freq /\ ~disobeyed => ~tainted]_vars

\* No slope is absorbed until no haul parts even as few of the newest samples as a
\* slope needs, however short the window it was fitted over: "the frequency estimate
\* is left alone until the samples describe a clock that is merely running"
\* (discipline.rs, FREQ_TRUST_SLEW_SHARE).
HaulLeavesWindowFirst == [][freq' # freq /\ ~disobeyed => clean' >= FreqMinSamples]_vars

\* A source that has become quiet for good is in the end polled as rarely as the
\* configuration allows (on_estimate_with_leap, poll adaptation).
QuietReachesMaxPoll == <>[]lastQuiet => <>[](poll = MaxPoll)
=============================================================================
