------------------------------ MODULE ClockLoop ------------------------------
(***************************************************************************)
(* The clock loop of `rtimed sync`: MultiController (rusty_time-core,       *)
(* client.rs), the platform driver it commands (rusty_time-clock, linux.rs  *)
(* and slew.rs) and the part of the daemon's loop (rusty_time-daemon,       *)
(* sync.rs) that carries a plan from one to the other.                      *)
(*                                                                          *)
(* The controller keeps BOOKS: a register of samples per source,            *)
(* re-expressed after every correction "in the adjusted clock's terms", and *)
(* the frequency and drain the clock is believed to run at.  The WORLD is a *)
(* clock that drifts and runs at the rate the driver was last given.  The   *)
(* question of this module is whether the books describe the world.         *)
(*                                                                          *)
(* Abstractions.  Time is a natural number of ticks, a rate is an integer   *)
(* number of offset units per tick and measurements are exact, up to a      *)
(* fixed Bias per source.  What the regression, the discipline and the      *)
(* selection decide (discipline.rs, filter.rs, select.rs) is any choice     *)
(* from PlanFreqs, Offsets and Rates: the properties hold for every         *)
(* decision they could take.  A system call takes no time; an exchange with *)
(* a source takes any number of ticks.                                      *)
(***************************************************************************)
EXTENDS Integers, FiniteSets

CONSTANTS
    Sources,      \* the opened sources, one register each
    Bias,         \* [Sources -> Int]: how far source s is from true time
    Drift,        \* rate of the undisciplined clock
    WindowSize,   \* REGISTER_CAPACITY, samples kept per source
    PlanFreqs,    \* frequency corrections the discipline may command
    Offsets,      \* offsets an estimate may ask to slew away
    StepOffsets,  \* offsets an estimate may step; {} when steps are disabled
    OptsMaxSlew,  \* max_slew_ppm as configured
    CapsMaxSlew,  \* max_slew_ppm of the platform driver
    MaxRefusals,  \* MAX_REFUSALS, driver refusals in a row before giving up
    MaxMono,      \* bound on the clock, for model checking
    Absent        \* an Option that is None

ASSUME SourcesAssumption == Sources # {} /\ IsFiniteSet(Sources)
ASSUME RatesAssumption ==
    /\ Bias \in [Sources -> Int] /\ Drift \in Int
    /\ PlanFreqs \subseteq Int /\ Offsets \subseteq Int /\ StepOffsets \subseteq Int
    /\ OptsMaxSlew \in Nat /\ CapsMaxSlew \in Nat
ASSUME BoundsAssumption ==
    WindowSize \in Nat \ {0} /\ MaxRefusals \in Nat \ {0} /\ MaxMono \in Nat

VARIABLES
    \* the world
    mono,           \* CLOCK_MONOTONIC_RAW
    theta,          \* the offset still to be added to the clock
    rate,           \* frequency plus drain, as the driver was last told
    \* the books: struct MultiController
    reg,            \* registers: per source, the window of samples
    loopFreq,       \* discipline.freq_ppm
    freqCmd,        \* freq_cmd_ppm
    drainPpm,       \* drain_ppm
    drainRemaining, \* drain_remaining_s
    lastPlan,       \* last_plan_mono_s
    bookedUntil,    \* drain_booked_until
    unapplied,      \* unapplied
    \* the daemon's thread
    pc,             \* where run() is
    inflight,       \* the exchange it is blocked in
    command,        \* the plan it is about to hand to the driver
    refusals,       \* refused_in_a_row
    \* history
    parted          \* how the books have parted from the world so far

world  == <<mono, theta, rate>>
shared == <<loopFreq, freqCmd, drainPpm, drainRemaining, lastPlan, bookedUntil>>
books  == <<reg, shared, unapplied>>
thread == <<pc, inflight, command, refusals>>
vars   == <<world, books, thread, parted>>

-----------------------------------------------------------------------------
Unset == -1      \* an Option<f64> time that is None

Samples  == [t : Nat, offset : Int]
Commands == [kind : {"step"}, add : Int]
              \cup [kind : {"slew"}, freq : Int, offset : Int, drainRate : Nat]
Undo     == [t : Nat, dfreq : Int, step : Int,
             freqBefore : Int, drainBefore : Int, remainingBefore : Nat]

\* The ways in which this code lets the books part from the clock.
Causes == {"step", "hold", "retire", "late", "clamp"}

Abs(x)         == IF x < 0 THEN -x ELSE x
Clamp(x, m)    == IF x > m THEN m ELSE IF x < -m THEN -m ELSE x
CopySign(r, o) == IF o < 0 THEN -r ELSE r
MinusFloor(a, b) == IF a > b THEN a - b ELSE 0

\* SampleRegister::slew_samples on every register.
Slewed(regs, when, dfreq, doffset) ==
    [s \in Sources |->
        {[t |-> m.t, offset |-> m.offset - (doffset + dfreq * (m.t - when))] :
            m \in regs[s]}]

\* SampleRegister::push: the oldest sample leaves a full window.
Window(samples) ==
    IF Cardinality(samples) > WindowSize
    THEN {m \in samples : \E older \in samples : older.t < m.t}
    ELSE samples

\* Correction the running drain has delivered since it was last booked.
Unbooked == IF bookedUntil = Unset THEN 0 ELSE drainPpm * (mono - bookedUntil)

\* settle_drain
OwedWithoutFloor == drainRemaining - Abs(Unbooked)  \* mutant: no .max(0.0)
Settled   == Slewed(reg, mono, 0, Unbooked)
Owed      == MinusFloor(drainRemaining, Abs(Unbooked))
SettledAt == IF bookedUntil = Unset THEN Unset ELSE mono

\* observe: settle what has drained, then push the sample.
Observed ==
    [Settled EXCEPT ![inflight.source] = Window(@ \cup {inflight.sample})]

\* poll_drain books what the clock received, not the budget.
RetiredBudget == Slewed(reg, mono, 0, Clamp(Unbooked, drainRemaining))  \* mutant
Retired == Slewed(reg, mono, 0, Unbooked)

\* drain_completes_at, compared with mono without the division
DrainDue ==
    /\ lastPlan # Unset /\ drainPpm # 0 /\ drainRemaining > 0
    /\ Abs(drainPpm) * (mono - lastPlan) >= drainRemaining
    /\ bookedUntil # Unset

\* ClockDrive::apply for a slew: one net rate, held until the next command.
DriverRate(freq, offset, drainRate) ==
    Clamp(freq + CopySign(drainRate, offset), CapsMaxSlew)

\* MultiController::new is given opts.discipline: the ceiling is the configured
\* one, whatever the driver's is.
LoopMaxSlew == OptsMaxSlew
Rates == 0..LoopMaxSlew

-----------------------------------------------------------------------------
Init ==
    /\ mono = 0 /\ theta \in Offsets /\ rate = 0
    /\ reg = [s \in Sources |-> {}]
    /\ loopFreq = 0 /\ freqCmd = 0 /\ drainPpm = 0 /\ drainRemaining = 0
    /\ lastPlan = Unset /\ bookedUntil = Unset /\ unapplied = Absent
    /\ pc = "loop" /\ inflight = Absent /\ command = Absent /\ refusals = 0
    /\ parted = {}

\* Time passes while the loop sleeps, oversleeps or is blocked in an exchange.
Tick ==
    /\ pc \in {"loop", "exchange"}
    /\ mono < MaxMono
    /\ mono' = mono + 1
    /\ theta' = theta - (Drift + rate)
    /\ UNCHANGED <<rate, books, thread, parted>>

\* poll_drain, and the driver obeys.
Retire ==
    /\ pc = "loop" /\ DrainDue
    /\ reg' = Retired
    /\ drainPpm' = 0 /\ drainRemaining' = 0
    /\ lastPlan' = mono /\ bookedUntil' = mono
    /\ UNCHANGED <<mono, theta, loopFreq, freqCmd, unapplied, pc, inflight, command>>

RetireOk ==
    /\ Retire
    /\ rate' = DriverRate(freqCmd, 0, 0)
    /\ parted' = IF rate' # freqCmd THEN parted \cup {"clamp"} ELSE parted
    /\ UNCHANGED refusals

\* poll_drain, and the driver refuses: only the count is kept, nothing is put back.
RetireRefused ==
    /\ Retire
    /\ refusals' = refusals + 1
    /\ parted' = parted \cup {"retire"}
    /\ UNCHANGED rate

\* A source is due: the request goes out, and the offset is measured now.
\* poll_drain looks once a pass: a drain that comes due while the pass exchanges
\* with one source does not keep it from exchanging with the next.
Measure(s) ==
    /\ pc = "loop"
    /\ \A m \in reg[s] : m.t < mono
    /\ pc' = "exchange"
    /\ inflight' = [source |-> s, sample |-> [t |-> mono, offset |-> theta + Bias[s]]]
    /\ UNCHANGED <<world, books, command, refusals, parted>>

\* No usable reply: exchange() returns None.
Lose ==
    /\ pc = "exchange"
    /\ pc' = "loop" /\ inflight' = Absent
    /\ UNCHANGED <<world, books, command, refusals, parted>>

\* A sample of a moment before the settled one misses the drain in between.
Lateness == IF drainPpm # 0 /\ mono > inflight.sample.t THEN {"late"} ELSE {}

\* The reply is observed and its source is not the one selected.
ObserveUnselected ==
    /\ pc = "exchange" /\ Cardinality(Sources) > 1
    /\ reg' = Observed /\ drainRemaining' = Owed /\ bookedUntil' = SettledAt
    /\ pc' = "loop" /\ inflight' = Absent
    /\ UNCHANGED <<mono, theta, loopFreq, freqCmd, drainPpm, lastPlan, unapplied,
                   command, refusals>>

\* ... another source is selected: nothing else happens.
ObserveOther ==
    /\ ObserveUnselected
    /\ parted' = parted \cup Lateness
    /\ UNCHANGED rate

\* ... no source is selected, and hold_if_no_majority holds the clock.
ObserveHold ==
    /\ ObserveUnselected
    /\ rate' = DriverRate(freqCmd, 0, 0)
    /\ parted' = parted \cup Lateness
                 \cup (IF rate' # freqCmd + drainPpm THEN {"hold"} ELSE {})

\* MultiController::steer with the plan `cmd` and the discipline at `freq`.
Steer(cmd, freq) ==
    LET dfreq == freq - freqCmd
        step  == IF cmd.kind = "step" THEN cmd.add ELSE 0
    IN  /\ reg' = Slewed(Observed, mono, dfreq, step)
        /\ loopFreq' = freq /\ freqCmd' = freq
        /\ drainPpm' = IF cmd.kind = "step" THEN 0
                       ELSE CopySign(cmd.drainRate, cmd.offset)
        /\ drainRemaining' = IF cmd.kind = "step" THEN 0 ELSE Abs(cmd.offset)
        /\ lastPlan' = mono /\ bookedUntil' = mono
        /\ unapplied' = [t |-> mono, dfreq |-> dfreq, step |-> step,
                         freqBefore |-> freqCmd, drainBefore |-> drainPpm,
                         remainingBefore |-> Owed]
        /\ command' = cmd /\ inflight' = Absent
        /\ parted' = parted \cup Lateness
        /\ UNCHANGED <<world, refusals>>

\* The command of a plan that steps, slews, or that the maximum-change guard refused.
StepBy(o)         == [kind |-> "step", add |-> o]
SlewBy(f, o, r)   == [kind |-> "slew", freq |-> f, offset |-> o, drainRate |-> r]
GuardCommand      == SlewBy(loopFreq, 0, 0)

ObserveStep(o) ==
    /\ pc = "exchange" /\ pc' = "steered"
    /\ Steer(StepBy(o), loopFreq)

ObserveSlew(f, o, r) ==
    /\ pc = "exchange" /\ pc' = "steered"
    /\ Steer(SlewBy(f, o, r), f)

\* ChangeVerdict::Refused: the daemon still hands the plan to the driver.
ObserveGuarded ==
    /\ pc = "exchange" /\ pc' = "steered"
    /\ Steer(GuardCommand, loopFreq)

\* ChangeVerdict::GiveUp: run() returns with nothing handed to the driver.
ObserveGiveUp ==
    /\ pc = "exchange" /\ pc' = "exited"
    /\ Steer(GuardCommand, loopFreq)

\* The driver obeys, and the plan is confirmed.
ApplyOk ==
    /\ pc = "steered"
    /\ IF command.kind = "step"
       THEN /\ theta' = theta - command.add
            /\ parted' = IF rate # freqCmd THEN parted \cup {"step"} ELSE parted
            /\ UNCHANGED rate
       ELSE /\ rate' = DriverRate(command.freq, command.offset, command.drainRate)
            /\ parted' = IF rate' # freqCmd + drainPpm THEN parted \cup {"clamp"}
                         ELSE parted
            /\ UNCHANGED theta
    /\ unapplied' = Absent /\ command' = Absent /\ refusals' = 0 /\ pc' = "loop"
    /\ UNCHANGED <<mono, reg, shared, inflight>>

\* The driver refuses, and revert_last_plan puts the books back.
ApplyRefused ==
    /\ pc = "steered"
    /\ reg' = Slewed(reg, unapplied.t, -unapplied.dfreq, -unapplied.step)
    /\ freqCmd' = unapplied.freqBefore
    /\ drainPpm' = unapplied.drainBefore
    /\ drainRemaining' = unapplied.remainingBefore
    /\ unapplied' = Absent /\ command' = Absent
    /\ refusals' = refusals + 1
    /\ pc' = IF refusals' >= MaxRefusals THEN "exited" ELSE "loop"
    /\ UNCHANGED <<world, loopFreq, lastPlan, bookedUntil, inflight, parted>>

Observe ==
    \/ ObserveOther
    \/ ObserveHold
    \/ \E o \in StepOffsets : ObserveStep(o)
    \/ \E f \in PlanFreqs, o \in Offsets, r \in Rates : ObserveSlew(f, o, r)
    \/ ObserveGuarded
    \/ ObserveGiveUp

Next ==
    \/ Tick
    \/ RetireOk
    \/ RetireRefused
    \/ \E s \in Sources : Measure(s)
    \/ Lose
    \/ Observe
    \/ ApplyOk
    \/ ApplyRefused

Spec == Init /\ [][Next]_vars

-----------------------------------------------------------------------------
TypeOK ==
    /\ mono \in Nat /\ theta \in Int /\ rate \in Int
    /\ reg \in [Sources -> SUBSET Samples]
    /\ loopFreq \in Int /\ freqCmd \in Int /\ drainPpm \in Int
    /\ drainRemaining \in Nat
    /\ lastPlan \in Nat \cup {Unset} /\ bookedUntil \in Nat \cup {Unset}
    /\ unapplied \in Undo \cup {Absent}
    /\ pc \in {"loop", "exchange", "steered", "exited"}
    /\ inflight \in [source : Sources, sample : Samples] \cup {Absent}
    /\ command \in Commands \cup {Absent}
    /\ refusals \in Nat
    /\ parted \subseteq Causes

\* What the sample m of source s must read for the fitted line to be the clock
\* as it now runs at frequency f: the true remaining offset, plus what the
\* clock has gained since m.t at drift plus f, the drain apart.
OnLine(s, m, f, drained) ==
    m.offset = theta + Bias[s] + (Drift + f) * (mono - m.t) + drained

\* The rate the clock runs at is the one in the books.
RateIsBooked == rate = freqCmd + drainPpm

\* While no plan is between the controller and the driver, every stored sample
\* of every source lies on the line of the clock as it runs now, short of the
\* drain not booked yet.  "The loop's arithmetic has to describe what the clock
\* actually did" (client.rs): revert_last_plan, settle_drain, poll_drain and
\* steer together keep this through refusals, evictions and late retirements.
RegistersDescribeClock ==
    pc \in {"loop", "exchange"} =>
        /\ RateIsBooked
        /\ \A s \in Sources : \A m \in reg[s] : OnLine(s, m, freqCmd, Unbooked)

\* The books describe the clock unless one of the named causes occurred.
BooksDescribeClock == parted = {} => RegistersDescribeClock

\* A drain is retired only when what it has delivered since the last booking
\* covers what it still owes: "this drain stops once it has moved the clock by
\* this much, whatever the poll interval says" (client.rs, steer).
RetireFulfilsBudget ==
    [][Retire => Abs(Unbooked) >= drainRemaining]_vars
=============================================================================
