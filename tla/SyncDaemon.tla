----------------------------- MODULE SyncDaemon -----------------------------
(***************************************************************************)
(* The loop of `rtimed sync` (rusty_time-daemon, sync.rs): it polls its     *)
(* sources, lets Selection choose among their latest estimates, steers the  *)
(* clock by the chosen one or holds it, and publishes what became of it to  *)
(* the control socket and to the LAN it serves.                             *)
(*                                                                          *)
(* Abstractions.  A source is polled at any time; a server answers with the *)
(* clock's error plus its own bias, and any exchange may yield nothing: a   *)
(* server that is down is one whose exchanges all do.  A correction that    *)
(* reaches the clock removes the offset it was given at once.  What the     *)
(* maximum-change guard and the driver make of a plan is their choice:      *)
(* Discipline and ClockLoop are about those choices.                        *)
(***************************************************************************)
EXTENDS Selection

CONSTANTS
    N,                \* number of opened sources
    Bias,             \* [1..N -> Int]: the offset of a server from true time
    Strata,           \* [1..N -> Nat]: the stratum a server claims
    Dists,            \* root distances an answer may come with
    Errors,           \* initial errors of the clock
    GuardMayRefuse,   \* whether the maximum-change guard may refuse
    DriverMayRefuse,  \* whether the driver may refuse
    UnreachableAfter, \* UNREACHABLE_AFTER, losses in a row
    MaxRefusals,      \* MAX_REFUSALS
    StaleAfter,       \* served_stale_after, in ticks
    Unsynchronized    \* STRATUM_UNSYNCHRONIZED

Sources == 1..N

ASSUME SourcesAssumption ==
    /\ N \in Nat \ {0}
    /\ Bias \in [Sources -> Int] /\ Strata \in [Sources -> 1..15]
    /\ Dists \subseteq Nat \ {0} /\ Errors \subseteq Int
ASSUME BoundsAssumption ==
    /\ UnreachableAfter \in Nat \ {0} /\ MaxRefusals \in Nat \ {0}
    /\ StaleAfter \in Nat \ {0} /\ Unsynchronized = 16

VARIABLES
    error,      \* what the clock lacks
    \* struct Source, one per source
    heard,      \* has_estimate
    est,        \* last_offset_s, last_root_distance_s, last_stratum
    lost,       \* lost_in_a_row
    \* run()
    holding,    \* holding
    refusals,   \* refused_in_a_row
    clockSet,   \* CLOCK_SET, stored together with applied_any
    draining,   \* the loop has a drain to retire
    syncedAge,  \* served_synced_at, as ticks since
    served,     \* the stratum served to the LAN
    tracked,    \* the report published to the control socket says synchronized
    pc,         \* "poll", "select", "steer" or "exited"
    answered,   \* the source whose answer is being dealt with
    selected,   \* selected
    \* history
    corrected   \* a correction has reached the clock

source == <<heard, est, lost>>
views  == <<syncedAge, served, tracked>>
thread == <<pc, answered, selected>>
status == <<holding, refusals, clockSet, draining>>
vars   == <<error, source, status, views, thread, corrected>>

Never == -1
Est == [offset : Int, dist : Nat, stratum : Nat]

\* Counters stop where they are compared.
Bump(n, cap) == IF n < cap THEN n + 1 ELSE n
AtMost(n, cap) == IF n < cap THEN n ELSE cap

-----------------------------------------------------------------------------
\* selected_index: the quorum, and then the selection.
EverySource == Sources        \* mutant: UNREACHABLE_AFTER is ignored
Answering == {s \in Sources : s \in heard \/ lost[s] < UnreachableAfter}
QuorumWaived == FALSE         \* mutant: no quorum
NoQuorum ==
    Cardinality(Answering) > 1 /\ 2 * Cardinality(heard) <= Cardinality(Answering)
Candidates == [s \in heard |-> est[s]]
SelectedIndex ==
    IF NoQuorum \/ Truechimers(Candidates) = {} THEN Never ELSE First(Candidates)

-----------------------------------------------------------------------------
Init ==
    /\ error \in Errors
    /\ heard = {} /\ lost = [s \in Sources |-> 0]
    /\ est = [s \in Sources |-> [offset |-> 0, dist |-> 1, stratum |-> Unsynchronized]]
    /\ holding = FALSE /\ refusals = 0 /\ clockSet = FALSE /\ draining = FALSE
    /\ syncedAge = Never /\ served = Unsynchronized /\ tracked = FALSE
    /\ pc = "poll" /\ answered = Never /\ selected = Never /\ corrected = FALSE

\* A usable answer: the source's own history is updated, whoever is selected.
Answer(s, d) ==
    /\ pc = "poll"
    /\ heard' = heard \cup {s}
    /\ est' = [est EXCEPT ![s] = [offset |-> error + Bias[s], dist |-> d,
                                  stratum |-> Strata[s]]]
    /\ lost' = [lost EXCEPT ![s] = 0]
    /\ pc' = "select" /\ answered' = s
    /\ UNCHANGED <<error, status, views, selected, corrected>>

\* The selection runs on the estimates as they now stand.
Select ==
    /\ pc = "select"
    /\ selected' = SelectedIndex
    /\ pc' = "steer"
    /\ UNCHANGED <<error, source, status, views, answered, corrected>>

\* Another source is selected.
SelectedOther ==
    /\ pc = "steer" /\ selected \notin {answered, Never}
    /\ holding' = FALSE
    /\ pc' = "poll"
    /\ UNCHANGED <<error, source, refusals, clockSet, draining, views, answered, selected, corrected>>

\* No source is selected: the clock is held.
Hold ==
    /\ pc = "steer" /\ selected = Never
    /\ holding' = TRUE
    /\ pc' = "poll"
    /\ UNCHANGED <<error, source, refusals, clockSet, draining, views, answered, selected, corrected>>

\* The source itself is selected, its plan has the verdict v and reaches the clock;
\* a refused plan only holds it.
Verdicts == {"accepted"} \cup (IF GuardMayRefuse THEN {"refused"} ELSE {})
SynchronizedIfSteered(v) == TRUE     \* mutant: the verdict is not consulted
Synchronized(v) == v = "accepted"
AgeForgotten(v) == IF Synchronized(v) THEN 0 ELSE Never   \* mutant
AgeAfter(v) == IF Synchronized(v) THEN 0 ELSE syncedAge
Steering == pc = "steer" /\ selected = answered
SteerOk(v) ==
    /\ Steering
    /\ error' = IF v = "accepted" THEN error - est[answered].offset ELSE error
    /\ corrected' = (corrected \/ v = "accepted")
    /\ holding' = FALSE /\ refusals' = 0 /\ clockSet' = TRUE
    /\ draining' \in (IF v = "accepted" THEN BOOLEAN ELSE {FALSE})
    /\ tracked' = Synchronized(v)
    /\ served' = IF Synchronized(v)
                 THEN AtMost(est[answered].stratum + 1, Unsynchronized) ELSE served
    /\ syncedAge' = AgeAfter(v)
    /\ pc' = "poll"
    /\ UNCHANGED <<source, answered, selected>>

\* The driver refuses; a run of refusals ends the process before it publishes.
SteerRefused ==
    /\ DriverMayRefuse /\ Steering
    /\ holding' = FALSE
    /\ refusals' = Bump(refusals, MaxRefusals)
    /\ IF refusals' = MaxRefusals THEN pc' = "exited" /\ UNCHANGED tracked
       ELSE pc' = "poll" /\ tracked' = FALSE
    /\ UNCHANGED <<error, source, clockSet, draining, syncedAge, served, answered, selected, corrected>>

\* ChangeVerdict::GiveUp
SteerGiveUp ==
    /\ GuardMayRefuse /\ Steering
    /\ pc' = "exited"
    /\ UNCHANGED <<error, source, status, views, answered, selected, corrected>>

\* A drain that is spent is retired; a driver that refuses that is counted, too, but
\* only looked at when a plan is refused.
Retire ==
    /\ pc = "poll" /\ draining
    /\ draining' = FALSE
    /\ \/ UNCHANGED refusals
       \/ DriverMayRefuse /\ refusals' = Bump(refusals, MaxRefusals)
    /\ UNCHANGED <<error, source, holding, clockSet, views, thread, corrected>>

\* exchange() yields nothing.
Lose(s) ==
    /\ pc = "poll"
    /\ lost' = [lost EXCEPT ![s] = Bump(@, UnreachableAfter)]
    /\ UNCHANGED <<error, heard, est, status, views, thread, corrected>>

\* Time passes, as far as the served view is concerned.
Tick ==
    /\ pc # "exited" /\ syncedAge \in 0..StaleAfter
    /\ syncedAge' = syncedAge + 1
    /\ UNCHANGED <<error, source, status, served, tracked, thread, corrected>>

\* The served view is too old to vouch for the clock.
Expire ==
    /\ pc = "poll" /\ syncedAge > StaleAfter
    /\ served' = Unsynchronized /\ syncedAge' = Never
    /\ UNCHANGED <<error, source, status, tracked, thread, corrected>>

Answers(s) == \E d \in Dists : Answer(s, d)
Poll(s) == Lose(s) \/ Answers(s)
Proceed ==
    \/ Select
    \/ SelectedOther
    \/ Hold
    \/ \E v \in Verdicts : SteerOk(v)
    \/ SteerRefused
    \/ SteerGiveUp

Next ==
    \/ \E s \in Sources : Poll(s)
    \/ Proceed
    \/ Retire
    \/ Tick
    \/ Expire

\* The loop goes on: what follows an answer follows at once, time passes, and the age
\* of the served view is looked at on every turn.
LoopFairness ==
    /\ WF_pc(pc = "select" /\ pc' = "steer")
    /\ WF_pc(pc = "steer" /\ pc' \in {"poll", "exited"})
    /\ WF_vars(Tick) /\ SF_vars(Expire)
\* Every source is due again after every exchange, and is polled again when the loop
\* comes back to it; that the poll is answered is not promised, so a source that has
\* been lost as often as counts may stay lost.
PollFairness == \A s \in Sources : SF_vars(lost[s] < UnreachableAfter /\ Poll(s))

Spec     == Init /\ [][Next]_vars
FairSpec == Spec /\ LoopFairness /\ PollFairness

-----------------------------------------------------------------------------
\* Neither the control socket nor the LAN is told that the clock is synchronised
\* before a correction has reached it: guard refusals, driver refusals and holds
\* never count as one ("the same rule the refusal path above enforces: never
\* report a synchronisation that is not happening", sync.rs, run).
VouchesOnlyAfterCorrection == (served < Unsynchronized \/ tracked) => corrected

\* When corrections stop reaching the clock for good, the LAN is told in the end
\* (sync.rs, run: "A loop that has heard nothing for four maximum poll intervals
\* stops vouching for the clock to the LAN").
LanIsTold ==
    []<>(syncedAge = 0) \/ <>[](served = Unsynchronized) \/ <>[](pc = "exited")

\* Sources that have never answered do not keep the daemon from steering by those
\* that go on answering, as long as most of these tell the truth or there is only
\* one (sync.rs, UNREACHABLE_AFTER).
Keen(S) == \A s \in S : []<><<Answers(s)>>_vars
Mute(S) == \A s \in S : [](s \notin heard)
Trusty(S) == Cardinality(S) = 1 \/ 2 * Cardinality({s \in S : Bias[s] = 0}) > Cardinality(S)
QuorumProceeds ==
    \A S \in SUBSET Sources :
        Trusty(S) /\ Keen(S) /\ Mute(Sources \ S) => []<>Steering \/ <>[](pc = "exited")

\* Two intervals overlap.
Agree(e, f) == e.offset - e.dist <= f.offset + f.dist /\ f.offset - f.dist <= e.offset + e.dist

\* As long as no configured source has been given up as unreachable, the first
\* correction is one that another source's estimate agrees with: "an unverified
\* single source should not move a clock when the operator configured several"
\* (sync.rs, selected_index).
FirstCorrectionIsCorroborated ==
    [][N > 1 /\ ~corrected /\ SteerOk("accepted") /\ (\A s \in Sources : lost[s] < UnreachableAfter)
       => \E s \in heard \ {answered} : Agree(est[answered], est[s])]_vars

\* With a server that answers no more, the daemon goes on steering by the ones
\* that answer: "one dead server in a configured pair would block synchronisation
\* forever; with it, the daemon waits a few polls and then proceeds on whatever is
\* actually answering" (sync.rs, UNREACHABLE_AFTER).
ProceedsOnWhatAnswers ==
    \A s \in Sources :
        Keen(Sources \ {s}) /\ <>[][~Answers(s)]_vars => []<>Steering \/ <>[](pc = "exited")
=============================================================================
