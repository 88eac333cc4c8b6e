---------------------------- MODULE ClockDrivers ----------------------------
(***************************************************************************)
(* The drivers of the clock (rusty_time-clock: linux.rs, macos.rs,          *)
(* windows.rs, virtual_driver.rs over the arithmetic of slew.rs): how a     *)
(* plan becomes the setting of what the platform has, and stays in force    *)
(* while later commands are refused.  The calls of the kernels are external *)
(* and reject or clamp what those do.                                       *)
(*                                                                          *)
(* Abstractions.  Frequencies are integers, Ppm of them in a ppm; offsets   *)
(* to drain are microseconds; the wall clock counts units of which Second   *)
(* and Milli make a second and a millisecond.  What adjtime still owes is   *)
(* not paid off: only what it was armed with matters here.                  *)
(***************************************************************************)
EXTENDS Integers

CONSTANTS
    Platforms,   \* of "linux", "windows", "macos", "virtual"
    Freqs,       \* frequency corrections
    Drains,      \* offsets to drain
    Rates,       \* rates to drain at
    OptsMaxSlew, \* the ceiling of the configured discipline, opts.discipline.max_slew_ppm
    Adds,        \* what a step adds to the clock
    Ppm,         \* units of frequency in a ppm
    FreqScale,   \* FREQ_SCALE: what adjtimex counts in a ppm
    NominalTick, \* nominal_tick_us: 1000000 by USER_HZ, which is 100 mostly and 1000 on some
    Increment,   \* what an interrupt adds to the clock of Windows
    Second, Milli, \* units of the wall clock
    MaxGap,      \* longest time between two calls of a driver
    MaxCommands  \* bound on the number of commands, for model checking

Million == 1000000 * Ppm

ASSUME DriverAssumption ==
    /\ Platforms \subseteq {"linux", "windows", "macos", "virtual"}
    /\ Freqs \subseteq Int /\ Drains \subseteq Int /\ Rates \subseteq Nat /\ Adds \subseteq Int
    /\ {Ppm, FreqScale, Increment, Second, Milli} \subseteq Nat \ {0}
    /\ NominalTick \in 1000..Million
    /\ OptsMaxSlew \in Nat /\ MaxGap \in Nat /\ MaxCommands \in Nat

VARIABLES
    platform,
    knob,       \* what the platform was set to last
    plan,       \* the last Slew that returned Ok, or Unplanned
    clock,      \* the wall clock
    stepping,   \* a step between its reading of the clock and its setting of it
    landed,     \* how far behind its target the last step put the clock
    commands    \* number of commands applied

driverVars == <<platform, knob, plan, clock, stepping, landed, commands>>

Unplanned == [freq |-> 0, drain |-> 0, rate |-> 0]
Walking   == [target |-> 0, gap |-> -1]   \* no step under way

Magnitude(n)  == IF n < 0 THEN -n ELSE n
Clamp(n, low, high) == IF n < low THEN low ELSE IF n > high THEN high ELSE n
\* A float cast to an integer: towards zero.
Trunc(n, d) == IF n < 0 THEN -((-n) \div d) ELSE n \div d
\* f64::round: to the nearest, halves away from zero.
Round(n, d) == IF n < 0 THEN -((d - 2 * n) \div (2 * d)) ELSE (d + 2 * n) \div (2 * d)

-----------------------------------------------------------------------------
(* slew.rs                                                                 *)

MaxAdjFreq == 500 * Ppm                  \* LINUX_MAX_ADJ_FREQ_PPM
TickRange  == NominalTick \div 10        \* LINUX_TICK_RANGE_FRACTION
PpmPerTick == Million \div NominalTick
Horizon    == 1024                       \* MACOS_MAX_HORIZON_S

MaxSlew ==
    CASE platform = "linux"   -> TickRange * PpmPerTick + MaxAdjFreq
      [] platform = "windows" -> 100000 * Ppm
      [] platform = "macos"   -> 5000 * Ppm
      [] platform = "virtual" -> 0

\* total_ppm: with copysign, an offset of zero counts as positive
NetRate(p)   == p.freq + (IF p.drain < 0 THEN -p.rate ELSE p.rate)
TotalRate(p) == Clamp(NetRate(p), -MaxSlew, MaxSlew)

\* linux_tick_and_freq
TickKept(wanted) ==   \* mutant: a tick is set and never taken back
    IF Magnitude(wanted) > MaxAdjFreq THEN Clamp(Round(wanted, PpmPerTick), -TickRange, TickRange) ELSE knob.tick
TickFor(wanted) ==
    IF Magnitude(wanted) > MaxAdjFreq THEN Clamp(Round(wanted, PpmPerTick), -TickRange, TickRange) ELSE 0
LinuxKnob(p) ==
    LET tick == TickFor(TotalRate(p))
    IN  [tick |-> tick,
         freq |-> Trunc(Clamp(TotalRate(p) - tick * PpmPerTick, -MaxAdjFreq, MaxAdjFreq) * FreqScale, Ppm)]

\* windows_adjustment
WindowsKnob(p) ==
    LET scaled == Increment * (Million + TotalRate(p))
    IN  [adjustment |-> IF scaled <= 0 THEN 0 ELSE scaled \div Million]

\* macos_adjtime_amount, in microseconds: the frequency over the time the drain takes
MacAmount(p) ==
    IF p.rate = 0 THEN p.drain
    ELSE IF Magnitude(p.drain) * Ppm > Horizon * p.rate
    THEN Trunc(p.drain * Ppm + p.freq * Horizon, Ppm)
    ELSE Trunc(p.drain * p.rate + p.freq * Magnitude(p.drain), p.rate)

-----------------------------------------------------------------------------
(* apply                                                                   *)

DriverInit ==
    /\ platform \in Platforms
    /\ knob = CASE platform = "linux"   -> [tick |-> 0, freq |-> 0]
                [] platform = "windows" -> [adjustment |-> Increment]
                [] platform = "macos"   -> [armed |-> 0, by |-> Unplanned]
                [] platform = "virtual" -> [freq |-> 0]
    /\ plan = Unplanned /\ clock = 10 * Second /\ stepping = Walking /\ landed = 0 /\ commands = 0

Apply == stepping = Walking /\ commands < MaxCommands /\ commands' = commands + 1

\* The discipline drains within the ceiling it was configured with: the loop is given
\* opts.discipline, not the copy that was lowered to capabilities().max_slew_ppm.
Planned(p) == p.rate <= OptsMaxSlew

\* Every plan is accepted, one beyond what the platform can do too.
Slew(p) ==
    /\ Apply /\ Planned(p)
    /\ plan' = p
    /\ knob' = CASE platform = "linux"   -> LinuxKnob(p)
                 [] platform = "windows" -> WindowsKnob(p)
                 [] platform = "macos"   ->
                       \* below a microsecond adjtime is not called: what it runs, it runs on
                       IF MacAmount(p) = 0 THEN knob ELSE [armed |-> MacAmount(p), by |-> p]
                 [] platform = "virtual" -> [freq |-> p.freq]
    /\ UNCHANGED <<platform, clock, stepping, landed>>

\* No privilege, or another time service has the clock.
Refuse ==
    /\ Apply
    /\ UNCHANGED <<platform, knob, plan, clock, stepping, landed>>

\* One call, which takes seconds and a part that is not negative.
Normalised(add) ==
    LET part == add - Second * Trunc(add, Second)
    IN  IF part < 0 THEN [sec |-> Trunc(add, Second) - 1, part |-> part + Second]
        ELSE [sec |-> Trunc(add, Second), part |-> part]
LinuxStep(add) ==
    /\ Apply /\ platform = "linux"
    /\ LET tv == Normalised(add)
       IN  clock' = clock + tv.sec * Second + tv.part /\ landed' = clock + add - clock'
    /\ UNCHANGED <<platform, knob, plan, stepping>>

\* The clock is read, and then set: the time in between is lost.
StepReads(add) ==
    /\ Apply /\ platform \in {"windows", "macos"}
    /\ stepping' = [target |-> clock + add, gap |-> 0]
    /\ UNCHANGED <<platform, knob, plan, clock, landed>>
Elapse ==
    /\ stepping # Walking /\ stepping.gap < MaxGap
    /\ stepping' = [stepping EXCEPT !.gap = @ + 1]
    /\ clock' = clock + 1
    /\ UNCHANGED <<platform, knob, plan, landed, commands>>
\* SYSTEMTIME has milliseconds.
StepSets ==
    /\ stepping # Walking
    /\ stepping' = Walking
    /\ clock' = IF platform = "windows" THEN Milli * (stepping.target \div Milli) ELSE stepping.target
    /\ landed' = stepping.target + stepping.gap - clock'
    /\ UNCHANGED <<platform, knob, plan, commands>>
StepRefused ==
    /\ stepping # Walking /\ stepping' = Walking
    /\ UNCHANGED <<platform, knob, plan, clock, landed, commands>>

\* The virtual clock takes its corrections from measurements.
VirtualStep(add) ==
    /\ Apply /\ platform = "virtual"
    /\ UNCHANGED <<platform, knob, plan, clock, stepping, landed>>

DriverNext ==
    \/ \E f \in Freqs, d \in Drains, r \in Rates : Slew([freq |-> f, drain |-> d, rate |-> r])
    \/ Refuse \/ Elapse \/ StepSets \/ StepRefused
    \/ \E add \in Adds : LinuxStep(add) \/ StepReads(add) \/ VirtualStep(add)
DriverSpec == DriverInit /\ [][DriverNext]_driverVars

-----------------------------------------------------------------------------
\* What Linux and Windows can do of a plan: the rate it comes to, and when that is beyond
\* their ceiling the ceiling, the same way.
Promised(p) ==
    IF Magnitude(NetRate(p)) <= MaxSlew THEN NetRate(p)
    ELSE IF NetRate(p) < 0 THEN -MaxSlew ELSE MaxSlew

\* What a platform does is what the last plan that it took asked of it, to its resolution
\* and as far as it can, whatever was asked before and whatever was refused since.  macOS
\* is armed with the whole of the last plan that came to a microsecond, at whatever rate
\* that plan drains, and takes its own time over it; later plans that do not come to one
\* leave it in force: one that only changes the frequency, or that ends a drain.
PlanIsInForce ==
    CASE platform = "linux" ->
            Magnitude((Promised(plan) - knob.tick * PpmPerTick) * FreqScale - knob.freq * Ppm) < Ppm
      [] platform = "windows" ->
            Increment * (Million + Promised(plan)) - knob.adjustment * Million \in 0..Million-1
      [] platform = "macos" ->
            LET p == knob.by
            IN  p.rate > 0 =>
                    Magnitude((knob.armed - p.drain) * p.rate) <= Magnitude(p.freq * p.drain) + p.rate
      [] platform = "virtual" -> knob.freq = plan.freq

\* A step puts the clock where it was told to, but for the time that went by between the
\* driver's two calls and what is below the platform's resolution, and never past it.
StepsLand ==
    landed \in 0..(IF platform = "linux" THEN 0
                   ELSE IF platform = "windows" THEN MaxGap + Milli - 1 ELSE MaxGap)

\* What a driver accepted is in force as far as the platform can do it, whatever went
\* before, and the last step landed (apply, of linux.rs, windows.rs, macos.rs and
\* virtual_driver.rs).  A plan beyond the ceiling is accepted as well, and the loop is not
\* told that less is done: that no such plan is made is NeverBeyondTheDriver.
CommandsAreObeyed == PlanIsInForce /\ StepsLand

\* "Never plan a slew the driver cannot deliver" (sync.rs, where the ceiling is lowered to
\* the driver's): no accepted plan drains faster than the platform's ceiling.
NeverBeyondTheDriver == platform # "virtual" => plan.rate <= MaxSlew
=============================================================================
