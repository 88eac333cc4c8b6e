--------------------------- MODULE ClockLoop_proofs ---------------------------
(***************************************************************************)
(* Proofs about the clock loop, for every set of sources, every drift and   *)
(* bias, every choice the discipline and the selection could make, and an   *)
(* unbounded number of steps.                                               *)
(***************************************************************************)
EXTENDS ClockLoop, FiniteSetTheorems, TLAPS

\* TypeOK, and the options that are known to be Some at each point of run().
TypeInv ==
    /\ TypeOK
    /\ pc = "exchange" => inflight \in [source : Sources, sample : Samples]
    /\ pc = "steered" => unapplied \in Undo /\ command \in Commands

-----------------------------------------------------------------------------
\* slew_samples keeps registers registers, whatever correction it books.
LEMMA SlewedType ==
    ASSUME NEW regs \in [Sources -> SUBSET Samples],
           NEW when \in Int, NEW dfreq \in Int, NEW doffset \in Int
    PROVE  Slewed(regs, when, dfreq, doffset) \in [Sources -> SUBSET Samples]
  BY SMT DEF Slewed, Samples

\* slew_samples moves each sample's offset and leaves its time alone.
LEMMA SlewedSample ==
    ASSUME NEW regs \in [Sources -> SUBSET Samples],
           NEW when, NEW dfreq, NEW doffset,
           NEW s \in Sources,
           NEW m \in Slewed(regs, when, dfreq, doffset)[s]
    PROVE  \E n \in regs[s] :
               m = [t |-> n.t, offset |-> n.offset - (doffset + dfreq * (n.t - when))]
  BY Zenon DEF Slewed

\* The unbooked drain is an amount of correction.
LEMMA UnbookedType ==
    ASSUME TypeOK
    PROVE  Unbooked \in Int
  BY SMT DEF TypeOK, Unbooked, Unset

\* observe() yields registers: settled samples, and the one it pushes.
LEMMA ObservedType ==
    ASSUME TypeInv, pc = "exchange"
    PROVE  Observed \in [Sources -> SUBSET Samples]
  <1>1. Settled \in [Sources -> SUBSET Samples]
    BY UnbookedType, SlewedType, SMT DEF TypeInv, TypeOK, Settled
  <1>2. /\ inflight.source \in Sources
        /\ inflight.sample \in Samples
    BY SMT DEF TypeInv
  <1>3. \A S : S \subseteq Samples => Window(S) \subseteq Samples
    BY Zenon DEF Window
  <1> QED
    BY <1>1, <1>2, <1>3, Zenon DEF Observed

\* What observe() leaves in a register was settled there, or is the new sample.
LEMMA ObservedSample ==
    ASSUME TypeInv, pc = "exchange",
           NEW s \in Sources, NEW m \in Observed[s]
    PROVE  m \in Settled[s] \/ (s = inflight.source /\ m = inflight.sample)
  <1>1. Settled \in [Sources -> SUBSET Samples]
    BY UnbookedType, SlewedType, SMT DEF TypeInv, TypeOK, Settled
  <1>2. \A S : Window(S) \subseteq S
    BY Zenon DEF Window
  <1> QED
    BY <1>1, <1>2, Zenon DEF Observed

\* steer() books a plan of either kind and stays within the types.
LEMMA SteerType ==
    ASSUME TypeInv, pc = "exchange",
           NEW cmd \in Commands, NEW freq \in Int,
           Steer(cmd, freq), pc' \in {"steered", "exited"}
    PROVE  TypeInv'
  <1> DEFINE dfreq == freq - freqCmd
             step  == IF cmd.kind = "step" THEN cmd.add ELSE 0
  <1>1. dfreq \in Int /\ step \in Int
    BY SMT DEF TypeInv, TypeOK, Commands
  <1>2. reg' \in [Sources -> SUBSET Samples]
    BY <1>1, ObservedType, SlewedType, SMT DEF Steer, TypeInv, TypeOK
  <1>3. drainPpm' \in Int /\ drainRemaining' \in Nat
    BY SMT DEF Steer, Commands, CopySign, Abs
  <1>4. Owed \in Nat
    BY UnbookedType, SMT DEF TypeInv, TypeOK, Owed, MinusFloor, Abs
  <1>5. unapplied' \in Undo
    BY <1>1, <1>4, SMT DEF Steer, TypeInv, TypeOK, Undo
  <1>6. parted' \subseteq Causes
    BY SMT DEF Steer, TypeInv, TypeOK, Lateness, Causes
  <1>7. /\ mono' \in Nat /\ theta' \in Int /\ rate' \in Int
        /\ loopFreq' \in Int /\ freqCmd' \in Int
        /\ lastPlan' \in Nat \cup {Unset} /\ bookedUntil' \in Nat \cup {Unset}
        /\ inflight' = Absent /\ command' \in Commands /\ refusals' \in Nat
    BY SMT DEF Steer, TypeInv, TypeOK, world
  <1> QED
    BY <1>2, <1>3, <1>5, <1>6, <1>7, Zenon DEF TypeInv, TypeOK

LEMMA TypeInit == Init => TypeInv
  <1> SUFFICES ASSUME Init PROVE TypeInv
    OBVIOUS
  <1> QED
    BY RatesAssumption, SMT DEF Init, TypeInv, TypeOK, Unset, Causes

LEMMA DriverRateType ==
    ASSUME NEW f \in Int, NEW o \in Int, NEW r \in Int
    PROVE  DriverRate(f, o, r) \in Int
  BY RatesAssumption, SMT DEF DriverRate, Clamp, CopySign

LEMMA TypeStep == TypeInv /\ [Next]_vars => TypeInv'
  <1> SUFFICES ASSUME TypeInv, [Next]_vars PROVE TypeInv'
    OBVIOUS
  <1> USE RatesAssumption, BoundsAssumption
  <1>1. CASE Tick
    BY <1>1, SMT DEF Tick, TypeInv, TypeOK, books, shared, thread
  <1>2. ASSUME Retire, rate' \in Int, refusals' \in Nat, parted' \subseteq Causes
        PROVE  TypeInv'
    <2>1. reg' \in [Sources -> SUBSET Samples]
      BY <1>2, UnbookedType, SlewedType, SMT DEF Retire, Retired, TypeInv, TypeOK
    <2> QED
      BY <1>2, <2>1, SMT DEF Retire, Retired, TypeInv, TypeOK
  <1>3. CASE RetireOk
    <2>1. rate' \in Int
      BY <1>3, DriverRateType, SMT DEF RetireOk, TypeInv, TypeOK
    <2>2. parted' \subseteq Causes
      BY <1>3, SMT DEF RetireOk, TypeInv, TypeOK, Causes
    <2> QED
      BY <1>2, <1>3, <2>1, <2>2, SMT DEF RetireOk, TypeInv, TypeOK
  <1>4. CASE RetireRefused
    BY <1>2, <1>4, SMT DEF RetireRefused, TypeInv, TypeOK, Causes
  <1>5. ASSUME NEW s \in Sources, Measure(s) PROVE TypeInv'
    BY <1>5, SMT DEF Measure, TypeInv, TypeOK, world, books, shared, Samples
  <1>6. CASE Lose
    BY <1>6, SMT DEF Lose, TypeInv, TypeOK, world, books, shared
  <1>7. ASSUME ObserveUnselected, rate' \in Int, parted' \subseteq Causes
        PROVE  TypeInv'
    <2>1. reg' \in [Sources -> SUBSET Samples]
      BY <1>7, ObservedType, SMT DEF ObserveUnselected
    <2>2. drainRemaining' \in Nat
      BY <1>7, UnbookedType, SMT
         DEF ObserveUnselected, TypeInv, TypeOK, Owed, MinusFloor, Abs
    <2>3. bookedUntil' \in Nat \cup {Unset}
      BY <1>7, SMT DEF ObserveUnselected, TypeInv, TypeOK, SettledAt
    <2> QED
      BY <1>7, <2>1, <2>2, <2>3, SMT DEF ObserveUnselected, TypeInv, TypeOK
  <1>8. CASE ObserveOther
    <2>1. rate' \in Int /\ parted' \subseteq Causes
      BY <1>8, SMT DEF ObserveOther, TypeInv, TypeOK, Lateness, Causes
    <2> QED
      BY <1>7, <1>8, <2>1 DEF ObserveOther
  <1>9. CASE ObserveHold
    <2>1. rate' \in Int
      BY <1>9, DriverRateType, SMT DEF ObserveHold, TypeInv, TypeOK
    <2>2. parted' \subseteq Causes
      BY <1>9, SMT DEF ObserveHold, TypeInv, TypeOK, Lateness, Causes
    <2> QED
      BY <1>7, <1>9, <2>1, <2>2 DEF ObserveHold
  <1>10. ASSUME NEW o \in StepOffsets, ObserveStep(o) PROVE TypeInv'
    <2>1. StepBy(o) \in Commands /\ loopFreq \in Int
      BY SMT DEF StepBy, Commands, TypeInv, TypeOK
    <2> QED
      BY <1>10, <2>1, SteerType, Zenon DEF ObserveStep
  <1>11. ASSUME NEW f \in PlanFreqs, NEW o \in Offsets, NEW r \in Rates,
                ObserveSlew(f, o, r)
         PROVE  TypeInv'
    <2>1. SlewBy(f, o, r) \in Commands /\ f \in Int
      BY SMT DEF SlewBy, Commands, Rates, LoopMaxSlew
    <2> QED
      BY <1>11, <2>1, SteerType, Zenon DEF ObserveSlew
  <1>12. GuardCommand \in Commands /\ loopFreq \in Int
    BY SMT DEF GuardCommand, SlewBy, Commands, TypeInv, TypeOK
  <1>13. CASE ObserveGuarded
    BY <1>12, <1>13, SteerType, Zenon DEF ObserveGuarded
  <1>14. CASE ObserveGiveUp
    BY <1>12, <1>14, SteerType, Zenon DEF ObserveGiveUp
  <1>15. CASE ApplyOk
    <2>1. theta' \in Int
      BY <1>15, SMT DEF ApplyOk, TypeInv, TypeOK, Commands
    <2>2. rate' \in Int
      <3>1. CASE command.kind = "step"
        BY <1>15, <3>1, SMT DEF ApplyOk, TypeInv, TypeOK
      <3>2. CASE command.kind # "step"
        <4>1. command.freq \in Int /\ command.offset \in Int /\ command.drainRate \in Int
          BY <1>15, <3>2, SMT DEF ApplyOk, TypeInv, Commands
        <4> QED
          BY <1>15, <3>2, <4>1, DriverRateType, Zenon DEF ApplyOk
      <3> QED
        BY <3>1, <3>2
    <2>3. parted' \subseteq Causes
      <3>1. parted' \in {parted, parted \cup {"step"}, parted \cup {"clamp"}}
        BY <1>15, Zenon DEF ApplyOk
      <3> QED
        BY <3>1, SMT DEF TypeInv, TypeOK, Causes
    <2> QED
      BY <1>15, <2>1, <2>2, <2>3, SMT DEF ApplyOk, TypeInv, TypeOK, shared
  <1>16. CASE ApplyRefused
    <2>1. reg' \in [Sources -> SUBSET Samples]
      BY <1>16, SlewedType, SMT DEF ApplyRefused, TypeInv, TypeOK, Undo
    <2> QED
      BY <1>16, <2>1, SMT DEF ApplyRefused, TypeInv, TypeOK, Undo, world
  <1>17. CASE UNCHANGED vars
    BY <1>17, SMT DEF vars, world, books, shared, thread, TypeInv, TypeOK
  <1> QED
    BY <1>1, <1>3, <1>4, <1>5, <1>6, <1>8, <1>9, <1>10, <1>11, <1>13, <1>14,
       <1>15, <1>16, <1>17, Zenon DEF Next, Observe

\* Every variable keeps its type: in particular what a drain still owes is never
\* negative, and revert_last_plan always finds the plan it is called for.
THEOREM TypeCorrect == Spec => []TypeOK
  <1>1. TypeInv => TypeOK
    BY DEF TypeInv
  <1> QED
    BY <1>1, TypeInit, TypeStep, PTL DEF Spec

-----------------------------------------------------------------------------
\* With one source every booking of the drain comes with a plan or a retirement.
LoneInv ==
    Cardinality(Sources) = 1 => lastPlan = bookedUntil

LEMMA LoneStep == TypeInv /\ LoneInv /\ [Next]_vars => LoneInv'
  <1> SUFFICES ASSUME TypeInv, LoneInv, [Next]_vars, Cardinality(Sources) = 1
               PROVE  lastPlan' = bookedUntil'
    BY DEF LoneInv
  <1>0. lastPlan = bookedUntil
    BY DEF LoneInv
  <1>1. CASE UNCHANGED shared
    BY <1>0, <1>1 DEF shared
  <1>2. CASE Retire
    BY <1>2 DEF Retire
  <1>3. ASSUME NEW cmd, NEW freq, Steer(cmd, freq) PROVE lastPlan' = bookedUntil'
    BY <1>3 DEF Steer
  <1>4. CASE Observe
    BY <1>3, <1>4, SMT
       DEF Observe, ObserveOther, ObserveHold, ObserveUnselected, ObserveStep,
           ObserveSlew, ObserveGuarded, ObserveGiveUp
  <1>5. CASE ApplyRefused
    BY <1>0, <1>5 DEF ApplyRefused
  <1>6. CASE Tick \/ (\E s \in Sources : Measure(s)) \/ Lose \/ ApplyOk
    <2>1. UNCHANGED shared
      BY <1>6, Zenon DEF Tick, Measure, Lose, ApplyOk, books
    <2> QED
      BY <1>1, <2>1
  <1>7. CASE UNCHANGED vars
    BY <1>0, <1>7 DEF vars, books, shared
  <1> QED
    BY <1>2, <1>4, <1>5, <1>6, <1>7 DEF Next, RetireOk, RetireRefused

\* With one source, a drain is never retired before it has delivered what it
\* owes: completion is reckoned from the last plan, which is then also when the
\* drain was last booked.
THEOREM LoneRetireFulfilsBudget ==
    ASSUME Cardinality(Sources) = 1
    PROVE  Spec => RetireFulfilsBudget
  <1>1. Init => LoneInv
    BY DEF Init, LoneInv
  <1>2. TypeInv /\ LoneInv /\ [Next]_vars
        => [Retire => Abs(Unbooked) >= drainRemaining]_vars
    <2> SUFFICES ASSUME TypeInv, LoneInv, Retire
                 PROVE  Abs(Unbooked) >= drainRemaining
      OBVIOUS
    <2>1. /\ bookedUntil \in Nat /\ bookedUntil # Unset
          /\ Abs(drainPpm) * (mono - bookedUntil) >= drainRemaining
          /\ drainPpm \in Int /\ mono \in Nat /\ drainRemaining \in Nat
          /\ drainRemaining > 0
      BY SMT DEF Retire, DrainDue, LoneInv, TypeInv, TypeOK, Unset
    <2>2. Unbooked = drainPpm * (mono - bookedUntil)
      BY <2>1 DEF Unbooked
    <2> DEFINE gone == mono - bookedUntil
    <2>3. gone \in Int /\ Abs(drainPpm) * gone >= drainRemaining
      BY <2>1
    <2>4. CASE drainPpm < 0
      <3>1. Abs(drainPpm) * gone = -(drainPpm * gone)
        BY <2>1, <2>3, <2>4, SMT DEF Abs
      <3> QED
        BY <2>1, <2>2, <2>3, <3>1, SMT DEF Abs
    <2>5. CASE ~(drainPpm < 0)
      BY <2>1, <2>2, <2>3, <2>5, SMT DEF Abs
    <2> QED
      BY <2>4, <2>5
  <1> QED
    BY <1>1, <1>2, TypeInit, TypeStep, LoneStep, PTL DEF Spec, RetireFulfilsBudget

-----------------------------------------------------------------------------
\* The inductive invariant behind BooksDescribeClock.  Besides the claim itself
\* it says what the sample in flight reads, and what revert_last_plan relies on
\* while a plan is between the controller and the driver.
LineInv ==
    pc \in {"loop", "exchange"} =>
        /\ RateIsBooked
        /\ \A s \in Sources : \A m \in reg[s] : OnLine(s, m, freqCmd, Unbooked)

FlightInv ==
    pc = "exchange" =>
        /\ inflight.sample.t <= mono
        /\ OnLine(inflight.source, inflight.sample, rate, 0)

SteeredInv ==
    pc = "steered" =>
        /\ unapplied.t = mono /\ bookedUntil = mono
        /\ rate = unapplied.freqBefore + unapplied.drainBefore
        /\ freqCmd = unapplied.freqBefore + unapplied.dfreq
        /\ command.kind = "step" =>
              unapplied.step = command.add /\ drainPpm = 0
        /\ command.kind # "step" =>
              /\ unapplied.step = 0 /\ freqCmd = command.freq
              /\ drainPpm = CopySign(command.drainRate, command.offset)
        /\ \A s \in Sources : \A m \in reg[s] :
              OnLine(s, m, freqCmd, -unapplied.step)

BooksInv ==
    parted = {} =>
        /\ bookedUntil = Unset => drainPpm = 0
        /\ LineInv
        /\ FlightInv
        /\ SteeredInv

\* Slopes add up.
LEMMA Distribute ==
    ASSUME NEW x \in Int, NEW y \in Int, NEW z \in Int
    PROVE  (x + y) * z = x * z + y * z
  BY SMT

\* What changes on a line when a drain is booked: the offset by as much.
LEMMA BookDrain ==
    ASSUME TypeInv, LineInv, pc \in {"loop", "exchange"},
           NEW s \in Sources, NEW m \in Slewed(reg, mono, 0, Unbooked)[s]
    PROVE  m \in Samples /\ OnLine(s, m, freqCmd, 0)
  <1>1. PICK n \in reg[s] :
            m = [t |-> n.t, offset |-> n.offset - (Unbooked + 0 * (n.t - mono))]
    BY SlewedSample, SMT DEF TypeInv, TypeOK
  <1>2. n \in Samples /\ mono \in Nat /\ Unbooked \in Int
    BY UnbookedType, SMT DEF TypeInv, TypeOK
  <1>3. m.t = n.t /\ m.offset = n.offset - Unbooked
    BY <1>1, <1>2, SMT DEF Samples
  <1>4. OnLine(s, n, freqCmd, Unbooked)
    BY DEF LineInv
  <1>5. Bias[s] \in Int /\ theta \in Int /\ (Drift + freqCmd) * (mono - n.t) \in Int
    BY <1>2, RatesAssumption, SMT DEF TypeInv, TypeOK, Samples
  <1>6. OnLine(s, m, freqCmd, 0)
    BY <1>2, <1>3, <1>4, <1>5, SMT DEF OnLine, Samples
  <1>7. m \in Samples
    BY <1>1, <1>2, SMT DEF Samples
  <1> QED
    BY <1>6, <1>7

\* Unless the sample is late, everything observe() leaves in the registers is on
\* the line of the clock as it runs now.
LEMMA ObservedOnLine ==
    ASSUME TypeInv, LineInv, FlightInv, pc = "exchange", Lateness = {},
           bookedUntil = Unset => drainPpm = 0,
           NEW s \in Sources, NEW m \in Observed[s]
    PROVE  m \in Samples /\ OnLine(s, m, freqCmd, 0)
  <1>1. CASE m \in Settled[s]
    BY <1>1, BookDrain, Zenon DEF Settled
  <1>2. CASE s = inflight.source /\ m = inflight.sample
    <2>1. m \in Samples /\ mono \in Nat /\ m.t \in Nat
      BY <1>2, SMT DEF TypeInv, TypeOK, Samples
    <2>2. OnLine(s, m, rate, 0) /\ m.t <= mono /\ rate = freqCmd + drainPpm
      BY <1>2, Zenon DEF FlightInv, LineInv, RateIsBooked
    <2>3. drainPpm = 0 \/ mono = m.t
      BY <1>2, <2>1, <2>2, SMT DEF Lateness
    <2>4. freqCmd \in Int /\ drainPpm \in Int /\ Drift \in Int
      BY RatesAssumption, SMT DEF TypeInv, TypeOK
    <2>5. (Drift + rate) * (mono - m.t) = (Drift + freqCmd) * (mono - m.t)
      BY <2>1, <2>2, <2>3, <2>4, SMT
    <2> QED
      BY <2>1, <2>2, <2>5, SMT DEF OnLine
  <1> QED
    BY <1>1, <1>2, ObservedSample

\* steer() re-expresses the registers in the terms of the clock it asks for.
LEMMA SteeredOnLine ==
    ASSUME TypeInv, LineInv, FlightInv, pc = "exchange", Lateness = {},
           bookedUntil = Unset => drainPpm = 0,
           NEW dfreq \in Int, NEW step \in Int,
           NEW s \in Sources, NEW m \in Slewed(Observed, mono, dfreq, step)[s]
    PROVE  OnLine(s, m, freqCmd + dfreq, -step)
  <1>1. PICK n \in Observed[s] :
            m = [t |-> n.t, offset |-> n.offset - (step + dfreq * (n.t - mono))]
    <2>1. Observed \in [Sources -> SUBSET Samples]
      BY ObservedType
    <2> HIDE DEF Observed
    <2> QED
      BY <2>1, SlewedSample
  <1>2. n \in Samples /\ OnLine(s, n, freqCmd, 0)
    BY ObservedOnLine
  <1>3. /\ n.t \in Int /\ mono \in Int /\ n.offset \in Int
        /\ Drift + freqCmd \in Int /\ theta + Bias[s] \in Int
        /\ Drift \in Int /\ freqCmd \in Int
    BY <1>2, RatesAssumption, SMT DEF TypeInv, TypeOK, Samples
  <1>4. /\ m.t = n.t
        /\ m.offset = n.offset - (step + dfreq * (n.t - mono))
    BY <1>1
  <1>5. dfreq * (n.t - mono) = -(dfreq * (mono - n.t))
    BY <1>3, SMT
  <1>6. (Drift + (freqCmd + dfreq)) * (mono - n.t)
          = (Drift + freqCmd) * (mono - n.t) + dfreq * (mono - n.t)
    BY <1>3, SMT
  <1>7. n.offset = (theta + Bias[s]) + (Drift + freqCmd) * (mono - n.t)
    BY <1>2, <1>3, SMT DEF OnLine
  <1> DEFINE a == theta + Bias[s]
             b == (Drift + freqCmd) * (mono - n.t)
             c == dfreq * (mono - n.t)
  <1>8. a \in Int /\ b \in Int /\ c \in Int
    BY <1>3
  <1>9. m.offset = a + (b + c) + (-step)
    <2>1. m.offset = n.offset - (step + (-c))
      BY <1>4, <1>5
    <2>2. n.offset = a + b
      BY <1>7
    <2> HIDE DEF a, b, c
    <2> QED
      BY <1>8, <2>1, <2>2, SMT
  <1> QED
    BY <1>4, <1>6, <1>9 DEF OnLine

\* steer() leaves the books ready for either answer of the driver.
LEMMA SteerBooks ==
    ASSUME TypeInv, BooksInv, pc = "exchange",
           NEW cmd \in Commands, NEW freq \in Int, Steer(cmd, freq),
           cmd.kind = "slew" => cmd.freq = freq,
           pc' \in {"steered", "exited"}
    PROVE  BooksInv'
  <1> DEFINE dfreq == freq - freqCmd
             step  == IF cmd.kind = "step" THEN cmd.add ELSE 0
  <1> SUFFICES ASSUME parted' = {}
               PROVE  /\ bookedUntil' # Unset
                      /\ SteeredInv'
    BY Zenon DEF BooksInv, LineInv, FlightInv
  <1>0. parted = {} /\ Lateness = {}
    BY SMT DEF Steer
  <1>1. LineInv /\ FlightInv /\ (bookedUntil = Unset => drainPpm = 0)
    BY <1>0 DEF BooksInv
  <1>2. dfreq \in Int /\ step \in Int /\ freqCmd \in Int
    BY SMT DEF TypeInv, TypeOK, Commands
  <1>3. /\ reg' = Slewed(Observed, mono, dfreq, step)
        /\ unapplied' = [t |-> mono, dfreq |-> dfreq, step |-> step,
                         freqBefore |-> freqCmd, drainBefore |-> drainPpm,
                         remainingBefore |-> Owed]
        /\ UNCHANGED <<mono, theta, rate>>
        /\ freqCmd' = freq /\ bookedUntil' = mono /\ command' = cmd
        /\ drainPpm' = IF cmd.kind = "step" THEN 0
                       ELSE CopySign(cmd.drainRate, cmd.offset)
    BY Zenon DEF Steer, world
  <1>4. freqCmd' = freqCmd + dfreq
    BY <1>2, <1>3, SMT
  <1>5. \A s \in Sources : \A m \in reg'[s] : OnLine(s, m, freqCmd + dfreq, -step)
    BY <1>0, <1>1, <1>2, <1>3, SteeredOnLine
  <1>6. \A s \in Sources : \A m \in reg'[s] : OnLine(s, m, freqCmd, -unapplied.step)'
    BY <1>3, <1>4, <1>5, Zenon DEF OnLine
  <1>7. rate' = unapplied'.freqBefore + unapplied'.drainBefore
    BY <1>1, <1>3 DEF LineInv, RateIsBooked
  <1>8. /\ unapplied'.t = mono' /\ bookedUntil' = mono'
        /\ freqCmd' = unapplied'.freqBefore + unapplied'.dfreq
        /\ unapplied'.step = step
    BY <1>3, <1>4
  <1>9. cmd.kind # "step" => cmd.kind = "slew"
    BY DEF Commands
  <1>10. /\ command'.kind = "step" =>
              unapplied'.step = command'.add /\ drainPpm' = 0
         /\ command'.kind # "step" =>
              /\ unapplied'.step = 0 /\ freqCmd' = command'.freq
              /\ drainPpm' = CopySign(command'.drainRate, command'.offset)
    BY <1>3, <1>8, <1>9, Zenon
  <1>11. bookedUntil' # Unset
    BY <1>3, SMT DEF TypeInv, TypeOK, Unset
  <1> QED
    BY <1>6, <1>7, <1>8, <1>10, <1>11, Zenon DEF SteeredInv

\* OnLine at an offset th and a time n of the reader's choice.
OnLineAt(s, m, f, d, th, n) ==
    m.offset = th + Bias[s] + (Drift + f) * (n - m.t) + d

\* A line read one tick later, while the clock ran at drift plus f plus e.
LEMMA LineMovesOn ==
    ASSUME NEW s \in Sources, NEW m \in Samples,
           NEW f \in Int, NEW d \in Int, NEW e \in Int,
           NEW th \in Int, NEW n \in Int,
           OnLineAt(s, m, f, d, th, n)
    PROVE  OnLineAt(s, m, f, d + e, th - (Drift + (f + e)), n + 1)
  <1>1. m.t \in Int /\ m.offset \in Int /\ Drift \in Int /\ Bias[s] \in Int
    BY RatesAssumption, SMT DEF Samples
  <1> DEFINE k == Drift + f
             p == k * (n - m.t)
             q == k * ((n + 1) - m.t)
  <1>2. q = p + k /\ p \in Int /\ q \in Int /\ k \in Int
    BY <1>1, SMT
  <1>3. m.offset = th + Bias[s] + p + d
    BY DEF OnLineAt
  <1>4. th - (Drift + (f + e)) = th - (k + e)
    BY <1>1, SMT
  <1>5. m.offset = (th - (k + e)) + Bias[s] + q + (d + e)
    <2> HIDE DEF k, p, q
    <2> QED
      BY <1>1, <1>2, <1>3, SMT
  <1> QED
    BY <1>4, <1>5 DEF OnLineAt

LEMMA TickBooks == TypeInv /\ BooksInv /\ Tick => BooksInv'
  <1> SUFFICES ASSUME TypeInv, BooksInv, Tick, parted = {}
               PROVE  BooksInv'
    BY DEF BooksInv, Tick
  <1>1. /\ LineInv /\ FlightInv /\ (bookedUntil = Unset => drainPpm = 0)
        /\ RateIsBooked
    BY DEF BooksInv, Tick, LineInv
  <1>2. UNCHANGED <<rate, reg, freqCmd, drainPpm, bookedUntil, pc, inflight>>
    BY DEF Tick, books, shared, thread
  <1>0. theta \in Int /\ mono \in Int
    BY SMT DEF TypeInv, TypeOK
  <1>3. freqCmd \in Int /\ drainPpm \in Int /\ Unbooked \in Int /\ rate \in Int
    BY UnbookedType DEF TypeInv, TypeOK
  <1>4. Unbooked' = Unbooked + drainPpm
    <2>1. CASE bookedUntil = Unset
      BY <1>1, <1>2, <2>1, SMT DEF Unbooked
    <2>2. CASE bookedUntil # Unset
      <3>1. /\ Unbooked = drainPpm * (mono - bookedUntil)
            /\ Unbooked' = drainPpm * ((mono - bookedUntil) + 1)
        BY <1>2, <2>2, SMT DEF Unbooked, Tick, TypeInv, TypeOK
      <3>2. mono - bookedUntil \in Int
        BY <2>2, SMT DEF TypeInv, TypeOK
      <3> QED
        BY <1>3, <3>1, <3>2, SMT
    <2> QED
      BY <2>1, <2>2
  <1>5. LineInv'
    <2>1. RateIsBooked'
      BY <1>1, <1>2 DEF RateIsBooked
    <2>2. ASSUME NEW s \in Sources, NEW m \in reg[s]
          PROVE  OnLineAt(s, m, freqCmd, Unbooked + drainPpm,
                          theta - (Drift + (freqCmd + drainPpm)), mono + 1)
      <3>1. m \in Samples
        BY DEF TypeInv, TypeOK
      <3>2. OnLineAt(s, m, freqCmd, Unbooked, theta, mono)
        BY <1>1 DEF LineInv, Tick, OnLine, OnLineAt
      <3> QED
        BY <1>0, <1>3, <3>1, <3>2, LineMovesOn
    <2>3. theta' = theta - (Drift + (freqCmd + drainPpm)) /\ mono' = mono + 1
      BY <1>1 DEF Tick, RateIsBooked
    <2>4. \A s \in Sources : \A m \in reg'[s] : OnLine(s, m, freqCmd, Unbooked)'
      BY <1>2, <1>4, <2>2, <2>3, Zenon DEF OnLine, OnLineAt
    <2> QED
      BY <2>1, <2>4, Zenon DEF LineInv
  <1>6. FlightInv'
    <2> SUFFICES ASSUME pc = "exchange"
                 PROVE  /\ inflight.sample.t <= mono'
                        /\ OnLine(inflight.source, inflight.sample, rate, 0)'
      BY <1>2, Zenon DEF FlightInv
    <2>1. /\ inflight.source \in Sources /\ inflight.sample \in Samples
          /\ inflight.sample.t \in Nat
      BY SMT DEF TypeInv, Samples
    <2>2. /\ OnLineAt(inflight.source, inflight.sample, rate, 0, theta, mono)
          /\ inflight.sample.t <= mono
      BY <1>1 DEF FlightInv, OnLine, OnLineAt
    <2>3. OnLineAt(inflight.source, inflight.sample, rate, 0 + 0,
                   theta - (Drift + (rate + 0)), mono + 1)
      BY <1>0, <1>3, <2>1, <2>2, LineMovesOn, 0 \in Int, Zenon
    <2>4. /\ rate + 0 = rate /\ 0 + 0 = 0
          /\ theta' = theta - (Drift + rate) /\ mono' = mono + 1
      BY <1>3 DEF Tick
    <2>5. OnLine(inflight.source, inflight.sample, rate, 0)'
      BY <1>2, <2>3, <2>4, Zenon DEF OnLine, OnLineAt
    <2>6. inflight.sample.t <= mono'
      BY <1>0, <2>1, <2>2, <2>4, SMT
    <2> QED
      BY <2>5, <2>6
  <1>7. SteeredInv'
    BY <1>2, SMT DEF SteeredInv, Tick
  <1> QED
    BY <1>1, <1>2, <1>5, <1>6, <1>7, Zenon DEF BooksInv

\* poll_drain books what the clock received, however late it wakes.
LEMMA RetireBooks ==
    TypeInv /\ BooksInv /\ (RetireOk \/ RetireRefused) => BooksInv'
  <1> SUFFICES ASSUME TypeInv, BooksInv, RetireOk \/ RetireRefused, parted' = {}
               PROVE  BooksInv'
    BY DEF BooksInv
  <1>1. RetireOk /\ parted = {} /\ rate' = freqCmd
    BY SMT DEF RetireOk, RetireRefused
  <1>2. /\ pc = "loop" /\ pc' = "loop" /\ drainPpm' = 0 /\ bookedUntil' = mono
        /\ reg' = Slewed(reg, mono, 0, Unbooked)
        /\ UNCHANGED <<mono, theta, freqCmd>>
    BY <1>1 DEF RetireOk, Retire, Retired
  <1>3. LineInv
    BY <1>1 DEF BooksInv
  <1>4. freqCmd \in Int /\ mono \in Int
    BY SMT DEF TypeInv, TypeOK
  <1>5. RateIsBooked'
    BY <1>1, <1>2, <1>4, SMT DEF RateIsBooked
  <1>6. Unbooked' = 0
    BY <1>2, <1>4, SMT DEF Unbooked
  <1>7. \A s \in Sources : \A m \in reg'[s] : OnLine(s, m, freqCmd, 0)
    BY <1>2, <1>3, BookDrain
  <1>8. \A s \in Sources : \A m \in reg'[s] : OnLine(s, m, freqCmd, Unbooked)'
    BY <1>2, <1>6, <1>7, Zenon DEF OnLine
  <1> QED
    BY <1>2, <1>5, <1>8, SMT DEF BooksInv, LineInv, FlightInv, SteeredInv

LEMMA MeasureBooks ==
    ASSUME NEW s \in Sources
    PROVE  TypeInv /\ BooksInv /\ Measure(s) => BooksInv'
  <1> SUFFICES ASSUME TypeInv, BooksInv, Measure(s), parted = {}
               PROVE  BooksInv'
    BY DEF BooksInv, Measure
  <1>1. /\ pc = "loop" /\ pc' = "exchange"
        /\ inflight' = [source |-> s, sample |-> [t |-> mono, offset |-> theta + Bias[s]]]
        /\ UNCHANGED <<mono, theta, rate, reg, freqCmd, drainPpm, bookedUntil, parted>>
    BY DEF Measure, world, books, shared
  <1>2. LineInv /\ (bookedUntil = Unset => drainPpm = 0)
    BY DEF BooksInv
  <1>3. LineInv'
    BY <1>1, <1>2, Zenon DEF LineInv, RateIsBooked, OnLine, Unbooked
  <1>4. FlightInv'
    <2>1. /\ mono \in Int /\ theta + Bias[s] \in Int /\ Drift + rate \in Int
          /\ theta \in Int /\ Bias[s] \in Int
      BY RatesAssumption, SMT DEF TypeInv, TypeOK
    <2>2. (Drift + rate) * (mono - mono) = 0
      BY <2>1, SMT
    <2>3. theta + Bias[s] = theta + Bias[s] + (Drift + rate) * (mono - mono) + 0
      BY <2>1, <2>2, SMT
    <2> QED
      BY <1>1, <2>1, <2>3, SMT DEF FlightInv, OnLine
  <1>5. SteeredInv'
    BY <1>1 DEF SteeredInv
  <1> QED
    BY <1>1, <1>2, <1>3, <1>4, <1>5 DEF BooksInv

\* An observation that steers nothing books the drain and adds its sample.
LEMMA UnselectedBooks ==
    TypeInv /\ BooksInv /\ (ObserveOther \/ ObserveHold) => BooksInv'
  <1> SUFFICES ASSUME TypeInv, BooksInv, ObserveOther \/ ObserveHold, parted' = {}
               PROVE  BooksInv'
    BY DEF BooksInv
  <1>1. parted = {} /\ Lateness = {}
    BY SMT DEF ObserveOther, ObserveHold
  <1>2. LineInv /\ FlightInv /\ (bookedUntil = Unset => drainPpm = 0)
    BY <1>1 DEF BooksInv
  <1>3. /\ pc = "exchange" /\ pc' = "loop"
        /\ reg' = Observed /\ bookedUntil' = SettledAt
        /\ UNCHANGED <<mono, theta, freqCmd, drainPpm>>
    BY DEF ObserveOther, ObserveHold, ObserveUnselected
  <1>4. RateIsBooked'
    <2>1. RateIsBooked
      BY <1>2, <1>3 DEF LineInv
    <2>2. rate' = rate \/ rate' = freqCmd + drainPpm
      BY SMT DEF ObserveOther, ObserveHold
    <2> QED
      BY <1>3, <2>1, <2>2 DEF RateIsBooked
  <1>5. Unbooked' = 0
    BY <1>2, <1>3, SMT DEF Unbooked, SettledAt, TypeInv, TypeOK, Unset
  <1>6. \A s \in Sources : \A m \in reg'[s] : OnLine(s, m, freqCmd, 0)
    BY <1>1, <1>2, <1>3, ObservedOnLine
  <1>7. \A s \in Sources : \A m \in reg'[s] : OnLine(s, m, freqCmd, Unbooked)'
    BY <1>3, <1>5, <1>6, Zenon DEF OnLine
  <1>8. bookedUntil' = Unset => drainPpm' = 0
    BY <1>2, <1>3, SMT DEF SettledAt, TypeInv, TypeOK, Unset
  <1> QED
    BY <1>3, <1>4, <1>7, <1>8, SMT DEF BooksInv, LineInv, FlightInv, SteeredInv

\* A plan the driver obeys: the clock becomes the one the registers describe.
LEMMA ApplyOkBooks == TypeInv /\ BooksInv /\ ApplyOk => BooksInv'
  <1> SUFFICES ASSUME TypeInv, BooksInv, ApplyOk, parted' = {}
               PROVE  BooksInv'
    BY DEF BooksInv
  <1>1. /\ pc = "steered" /\ pc' = "loop"
        /\ UNCHANGED <<mono, reg, freqCmd, drainPpm, bookedUntil>>
    BY DEF ApplyOk, shared
  <1>2. parted = {}
    BY SMT DEF ApplyOk
  <1>3. SteeredInv /\ (bookedUntil = Unset => drainPpm = 0)
    BY <1>2 DEF BooksInv
  <1>4. /\ freqCmd \in Int /\ drainPpm \in Int /\ theta \in Int /\ mono \in Int
        /\ unapplied.step \in Int
    BY <1>1, SMT DEF TypeInv, TypeOK, Undo
  <1>5. RateIsBooked' /\ theta' = theta - unapplied.step
    <2>1. CASE command.kind = "step"
      <3>1. unapplied.step = command.add /\ drainPpm = 0
        BY <1>1, <1>3, <2>1 DEF SteeredInv
      <3>2. rate = freqCmd /\ rate' = rate /\ theta' = theta - command.add
        BY <1>2, <2>1, SMT DEF ApplyOk
      <3> QED
        BY <1>1, <1>4, <3>1, <3>2, SMT DEF RateIsBooked
    <2>2. CASE command.kind # "step"
      <3>1. unapplied.step = 0
        BY <1>1, <1>3, <2>2 DEF SteeredInv
      <3>2. rate' = freqCmd + drainPpm /\ theta' = theta
        BY <1>2, <2>2, SMT DEF ApplyOk
      <3> QED
        BY <1>1, <1>4, <3>1, <3>2, SMT DEF RateIsBooked
    <2> QED
      BY <2>1, <2>2
  <1>6. Unbooked' = 0
    BY <1>1, <1>3, <1>4, SMT DEF Unbooked, SteeredInv
  <1>7. ASSUME NEW s \in Sources, NEW m \in reg[s]
        PROVE  OnLine(s, m, freqCmd, Unbooked)'
    <2>1. /\ m.t \in Int /\ m.offset \in Int /\ Bias[s] \in Int
          /\ (Drift + freqCmd) * (mono - m.t) \in Int
      BY <1>4, RatesAssumption, SMT DEF TypeInv, TypeOK, Samples
    <2>2. OnLine(s, m, freqCmd, -unapplied.step)
      BY <1>1, <1>3 DEF SteeredInv
    <2> DEFINE p == (Drift + freqCmd) * (mono - m.t)
    <2>3. p \in Int /\ m.offset = theta + Bias[s] + p + (-unapplied.step)
      BY <2>1, <2>2 DEF OnLine
    <2>4. m.offset = theta' + Bias[s] + p + 0
      <3> HIDE DEF p
      <3> QED
        BY <1>4, <1>5, <2>1, <2>3, SMT
    <2> QED
      BY <1>1, <1>6, <2>4, Zenon DEF OnLine
  <1>8. \A s \in Sources : \A m \in reg'[s] : OnLine(s, m, freqCmd, Unbooked)'
    BY <1>1, <1>7
  <1> QED
    BY <1>1, <1>3, <1>5, <1>8, SMT DEF BooksInv, LineInv, FlightInv, SteeredInv

\* A plan the driver refuses: revert_last_plan is the exact inverse of steer.
LEMMA ApplyRefusedBooks == TypeInv /\ BooksInv /\ ApplyRefused => BooksInv'
  <1> SUFFICES ASSUME TypeInv, BooksInv, ApplyRefused, parted = {}
               PROVE  BooksInv'
    BY DEF BooksInv, ApplyRefused
  <1> DEFINE df == unapplied.dfreq
             st == unapplied.step
             fb == unapplied.freqBefore
  <1>1. /\ pc = "steered" /\ pc' \in {"loop", "exited"}
        /\ reg' = Slewed(reg, unapplied.t, -df, -st)
        /\ freqCmd' = fb /\ drainPpm' = unapplied.drainBefore
        /\ UNCHANGED <<mono, theta, rate, bookedUntil>>
    BY DEF ApplyRefused, world
  <1>2. SteeredInv
    BY DEF BooksInv
  <1>3. /\ df \in Int /\ st \in Int /\ fb \in Int /\ unapplied.drainBefore \in Int
        /\ freqCmd \in Int /\ mono \in Int /\ theta \in Int
    BY <1>1, SMT DEF TypeInv, TypeOK, Undo
  <1>4. /\ unapplied.t = mono /\ bookedUntil = mono
        /\ rate = fb + unapplied.drainBefore /\ freqCmd = fb + df
    BY <1>1, <1>2 DEF SteeredInv
  <1>5. RateIsBooked'
    BY <1>1, <1>4 DEF RateIsBooked
  <1>6. Unbooked' = 0
    BY <1>1, <1>3, <1>4, SMT DEF Unbooked
  <1>7. bookedUntil' # Unset
    BY <1>1, <1>4, SMT DEF TypeInv, TypeOK, Unset
  <1>8. ASSUME NEW s \in Sources, NEW m \in reg'[s]
        PROVE  OnLine(s, m, fb, 0)
    <2>1. PICK n \in reg[s] :
              m = [t |-> n.t, offset |-> n.offset - (-st + (-df) * (n.t - mono))]
      <3>1. reg \in [Sources -> SUBSET Samples]
        BY DEF TypeInv, TypeOK
      <3> HIDE DEF df, st
      <3> QED
        BY <1>1, <1>4, <3>1, SlewedSample
    <2>2. /\ n.t \in Int /\ n.offset \in Int /\ Drift \in Int /\ Bias[s] \in Int
      BY RatesAssumption, SMT DEF TypeInv, TypeOK, Samples
    <2> DEFINE g == mono - n.t
               p == (Drift + fb) * g
               q == df * g
    <2>3. p \in Int /\ q \in Int /\ g \in Int
      BY <1>3, <2>2
    <2>4. (Drift + freqCmd) * g = p + q
      <3>1. Drift + freqCmd = (Drift + fb) + df
        BY <1>3, <1>4, <2>2, SMT
      <3>2. Drift + fb \in Int
        BY <1>3, <2>2, SMT
      <3> HIDE DEF df, fb, g
      <3>3. ((Drift + fb) + df) * g = (Drift + fb) * g + df * g
        BY <1>3, <2>3, <3>2, Distribute
      <3> QED
        BY <3>1, <3>3
    <2>5. (-df) * (n.t - mono) = q
      BY <1>3, <2>2, SMT
    <2>6. n.offset = theta + Bias[s] + (p + q) + (-st)
      BY <1>1, <1>2, <2>4 DEF SteeredInv, OnLine
    <2>7. m.t = n.t /\ m.offset = n.offset - (-st + q)
      BY <2>1, <2>5
    <2>8. m.offset = theta + Bias[s] + p + 0
      <3> HIDE DEF p, q, st
      <3> QED
        BY <1>3, <2>2, <2>3, <2>6, <2>7, SMT
    <2> QED
      BY <2>7, <2>8 DEF OnLine
  <1>9. \A s \in Sources : \A m \in reg'[s] : OnLine(s, m, freqCmd, Unbooked)'
    BY <1>1, <1>6, <1>8, Zenon DEF OnLine
  <1> QED
    BY <1>1, <1>5, <1>7, <1>9, SMT DEF BooksInv, LineInv, FlightInv, SteeredInv

LEMMA BooksInit == Init => BooksInv
  BY RatesAssumption, SMT
     DEF Init, BooksInv, LineInv, FlightInv, SteeredInv, RateIsBooked

LEMMA BooksStep == TypeInv /\ BooksInv /\ [Next]_vars => BooksInv'
  <1> SUFFICES ASSUME TypeInv, BooksInv, [Next]_vars PROVE BooksInv'
    OBVIOUS
  <1>1. CASE Tick
    BY <1>1, TickBooks
  <1>2. CASE RetireOk \/ RetireRefused
    BY <1>2, RetireBooks
  <1>3. ASSUME NEW s \in Sources, Measure(s) PROVE BooksInv'
    BY <1>3, MeasureBooks
  <1>4. CASE Lose
    BY <1>4, Zenon DEF Lose, world, books, shared, BooksInv, LineInv, FlightInv,
       SteeredInv, RateIsBooked, OnLine, Unbooked
  <1>5. CASE ObserveOther \/ ObserveHold
    BY <1>5, UnselectedBooks
  <1>6. ASSUME NEW o \in StepOffsets, ObserveStep(o) PROVE BooksInv'
    <2>1. StepBy(o) \in Commands /\ loopFreq \in Int /\ StepBy(o).kind # "slew"
      BY RatesAssumption, SMT DEF StepBy, Commands, TypeInv, TypeOK
    <2> QED
      BY <1>6, <2>1, SteerBooks, Zenon DEF ObserveStep
  <1>7. ASSUME NEW f \in PlanFreqs, NEW o \in Offsets, NEW r \in Rates,
               ObserveSlew(f, o, r)
        PROVE  BooksInv'
    <2>1. /\ SlewBy(f, o, r) \in Commands /\ f \in Int
          /\ SlewBy(f, o, r).freq = f
      BY RatesAssumption, SMT DEF SlewBy, Commands, Rates, LoopMaxSlew
    <2> QED
      BY <1>7, <2>1, SteerBooks, Zenon DEF ObserveSlew
  <1>8. CASE ObserveGuarded \/ ObserveGiveUp
    <2>1. /\ GuardCommand \in Commands /\ loopFreq \in Int
          /\ GuardCommand.freq = loopFreq
      BY SMT DEF GuardCommand, SlewBy, Commands, TypeInv, TypeOK
    <2> QED
      BY <1>8, <2>1, SteerBooks, Zenon DEF ObserveGuarded, ObserveGiveUp
  <1>9. CASE ApplyOk
    BY <1>9, ApplyOkBooks
  <1>10. CASE ApplyRefused
    BY <1>10, ApplyRefusedBooks
  <1>11. CASE UNCHANGED vars
    BY <1>11, Zenon DEF vars, world, books, shared, thread, BooksInv, LineInv,
       FlightInv, SteeredInv, RateIsBooked, OnLine, Unbooked
  <1> QED
    BY <1>1, <1>2, <1>3, <1>4, <1>5, <1>6, <1>7, <1>8, <1>9, <1>10, <1>11, Zenon
       DEF Next, Observe

\* Whatever the discipline and the selection decide, whenever exchanges are
\* lost and drains retired, and however often the driver refuses a plan, the
\* registers describe the clock until one of the named causes occurs.
THEOREM BooksCorrect == Spec => []BooksDescribeClock
  <1>1. BooksInv => BooksDescribeClock
    BY DEF BooksInv, BooksDescribeClock, RegistersDescribeClock, LineInv
  <1> QED
    BY <1>1, BooksInit, BooksStep, TypeInit, TypeStep, PTL DEF Spec

=============================================================================
