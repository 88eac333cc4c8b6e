------------------------------ MODULE Tracking ------------------------------
(***************************************************************************)
(* The report of `rtimed sync` on its control socket (rusty_time-daemon,    *)
(* control.rs): the loop publishes it, the thread of each connection ages a *)
(* copy of it, and `rtimec` (rusty_time-ctl, lib.rs) waits for the answer a *)
(* bounded time.  Meanwhile the clock does what it was last told.           *)
(*                                                                          *)
(* Abstractions.  In a tick an oscillator that is left alone drifts by a    *)
(* unit at most: STALE_DRIFT_PPM.  The loop's estimate of the offset is     *)
(* within the error bound it publishes.  Every poll takes the same time.    *)
(***************************************************************************)
EXTENDS Integers, FiniteSets

CONSTANTS
    Poll,        \* poll interval, in ticks
    StaleAfter,  \* the shortest age at which a report is stale: 64 s
    Errors,      \* offsets of the clock at the start
    Offsets,     \* offsets the loop estimates
    Bounds,      \* error bounds of its estimates
    DrainRate,   \* what a drain moves the clock by in a tick, at most
    Clients,     \* connections to the control socket
    Roles,       \* what the daemon may be running
    Timeout,     \* TIMEOUT of rtimec, in ticks
    MaxAge,      \* bound on the age of a report, for model checking
    MaxSteers    \* bound on the number of polls, for model checking

ASSUME TrackingAssumption ==
    /\ Poll \in Nat \ {0} /\ StaleAfter \in Nat /\ DrainRate \in Nat /\ Timeout \in Nat
    /\ Errors \subseteq Int /\ Offsets \subseteq Int /\ Bounds \subseteq Nat
    /\ MaxAge \in Nat /\ MaxSteers \in Nat
    /\ Roles \subseteq {"serve", "sync"}

VARIABLES
    error,     \* what the clock is off by
    drain,     \* the direction it is being moved in, or 0
    owed,      \* what is left of that correction
    report,    \* the TrackingReport: synchronized, offset and error bound
    age,       \* time since it was published
    stalled,   \* the loop is stuck in a call, for good or for a while
    overrun,   \* a drain went on after its budget since the last poll
    steers,    \* number of polls
    poisoned,  \* a thread panicked while it held the lock
    conn       \* per connection: its op, how long it has waited, and the kind of its answer

reportVars == <<error, drain, owed, report, age, stalled, overrun, steers, poisoned, conn>>

Ops  == {"Ping", "Tracking", "ServerStats", "Clients", "NtsData"}
Idle == [at |-> "idle"]
Size(n) == IF n < 0 THEN -n ELSE n
Least(a, b) == IF a < b THEN a ELSE b

\* TrackingState::unsynchronized, whose bound is infinite
Unsynchronized == [synchronized |-> FALSE, offset |-> 0, bound |-> 0]

ReportInit ==
    /\ error \in Errors /\ drain = 0 /\ owed = 0
    /\ report = Unsynchronized /\ age = 0
    /\ stalled = FALSE /\ overrun = FALSE /\ steers = 0 /\ poisoned = FALSE
    /\ conn = [c \in Clients |-> Idle]

-----------------------------------------------------------------------------
(* The loop and the clock.                                                 *)

\* publish(): a poll that made a plan ends in it, synchronized only if the correction
\* reached the clock.  A poisoned lock is passed over.
Publish(synchronized, offset, bound) ==
    IF poisoned THEN UNCHANGED <<report, age>>
    ELSE /\ report' = [synchronized |-> synchronized, offset |-> offset, bound |-> bound]
         /\ age' = 0

Correction(offset) ==
    \/ \* a step
       /\ error' = error - offset /\ drain' = 0 /\ owed' = 0
    \/ \* a slew, which the loop ends when its budget is spent
       /\ drain' = (IF offset > 0 THEN -1 ELSE IF offset < 0 THEN 1 ELSE 0)
       /\ owed' = Size(offset)
       /\ UNCHANGED error

Steer(offset, bound, reached) ==
    /\ "sync" \in Roles /\ ~ stalled /\ steers < MaxSteers
    /\ Size(error - offset) <= bound
    /\ steers' = steers + 1
    /\ Publish(reached, offset, bound)
    /\ \/ reached /\ Correction(offset)
       \/ \* refused by the guard, whose hold ends the drain
          ~ reached /\ drain' = 0 /\ owed' = 0 /\ UNCHANGED error
       \/ \* refused by the driver, or not made
          ~ reached /\ UNCHANGED <<error, drain, owed>>
    /\ overrun' = (overrun /\ poisoned)
    /\ UNCHANGED <<stalled, poisoned, conn>>

\* hold_if_no_majority: nothing is published.
Hold ==
    /\ ~ stalled /\ drain # 0
    /\ drain' = 0 /\ owed' = 0
    /\ UNCHANGED <<error, report, age, stalled, overrun, steers, poisoned, conn>>

\* A lookup or a write takes its time, or the thread is not scheduled.
Stall ==
    /\ "sync" \in Roles
    /\ stalled' = ~ stalled
    /\ UNCHANGED <<error, drain, owed, report, age, overrun, steers, poisoned, conn>>

\* The clock goes on with the rate it was given: only the loop takes a drain out of it.
Pass(wander) ==
    /\ age < MaxAge
    /\ age' = age + 1
    /\ LET moved == IF drain = 0 THEN 0
                    ELSE IF stalled THEN DrainRate ELSE Least(DrainRate, owed)
           left  == IF owed > moved THEN owed - moved ELSE 0
       IN  /\ error' = error + drain * moved + wander
           /\ owed' = left
           /\ overrun' = (overrun \/ moved > owed)
           /\ drain' = IF left = 0 /\ ~ stalled THEN 0 ELSE drain
    /\ conn' = [c \in Clients |->
                  IF conn[c].at = "waiting" THEN [conn[c] EXCEPT !.waited = @ + 1] ELSE conn[c]]
    /\ UNCHANGED <<report, stalled, steers, poisoned>>

-----------------------------------------------------------------------------
(* The connections.                                                        *)

AsPublished == report   \* mutant: the bound does not age
\* snapshot
Snapshot ==
    LET limit == IF 4 * Poll > StaleAfter THEN 4 * Poll ELSE StaleAfter
    IN  [report EXCEPT !.synchronized = @ /\ age <= limit, !.bound = @ + age]

\* handle: liveness answers in either role, an op of the role that is not running and one
\* that finds its lock poisoned get an error.
AnswerTo(op) ==
    CASE op = "Ping" -> [kind |-> "Pong"]
      [] op = "Tracking" /\ "sync" \in Roles /\ ~ poisoned -> [kind |-> op, report |-> Snapshot]
      [] op \notin {"Ping", "Tracking"} /\ "serve" \in Roles /\ ~ poisoned -> [kind |-> op]
      [] OTHER -> [kind |-> "Error"]

\* rtimec: connects, writes a line.
Request(c, op) ==
    /\ conn[c] = Idle
    /\ conn' = [conn EXCEPT ![c] = [at |-> "waiting", op |-> op, waited |-> 0]]
    /\ UNCHANGED <<error, drain, owed, report, age, stalled, overrun, steers, poisoned>>
\* serve_connection: one request, one response, then the connection closes.
Respond(c) ==
    /\ conn[c].at = "waiting"
    /\ conn' = [conn EXCEPT ![c] = [at |-> "answered", kind |-> AnswerTo(conn[c].op).kind]]
    /\ UNCHANGED <<error, drain, owed, report, age, stalled, overrun, steers, poisoned>>
\* the read times out, or the user has read the answer
Leave(c) ==
    /\ conn[c].at = "answered" \/ (conn[c].at = "waiting" /\ conn[c].waited >= Timeout)
    /\ conn' = [conn EXCEPT ![c] = Idle]
    /\ UNCHANGED <<error, drain, owed, report, age, stalled, overrun, steers, poisoned>>

Panic ==
    /\ ~ poisoned /\ poisoned' = TRUE
    /\ UNCHANGED <<error, drain, owed, report, age, stalled, overrun, steers, conn>>

ReportNext ==
    \/ \E offset \in Offsets, bound \in Bounds, reached \in BOOLEAN : Steer(offset, bound, reached)
    \/ Hold \/ Stall \/ Panic
    \/ \E wander \in -1..1 : Pass(wander)
    \/ \E c \in Clients : \/ \E op \in Ops : Request(c, op)
                          \/ Respond(c) \/ Leave(c)
ReportSpec == ReportInit /\ [][ReportNext]_reportVars

-----------------------------------------------------------------------------
\* Whoever asks while the report says that the clock is synchronized is told no less than
\* the clock is off by, however long the loop has been quiet ("serving it unchanged would
\* let a consumer trust a clock that nothing is steering", snapshot), unless the loop is
\* stuck with a drain in force: the drain then goes on past its budget, and the bound
\* ages for an oscillator that is left alone.
ReportIsHonest ==
    LET told == AnswerTo("Tracking")
    IN  told.kind = "Tracking" /\ ~ overrun =>
            (told.report.synchronized => Size(error) <= Size(told.report.offset) + told.report.bound)
=============================================================================
