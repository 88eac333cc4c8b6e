----------------------------- MODULE TimeClient -----------------------------
(***************************************************************************)
(* The browser's client (rusty_time-wasm, lib.rs) over its virtual clock    *)
(* (rusty_time-core, vclock.rs) and the gateway it asks (rusty_time-daemon, *)
(* gateway.rs).  The page owns the transport: it may build a request while  *)
(* others are out, lose any of them, and deliver an answer late, out of     *)
(* order or twice.  Date.now() drifts and may be set at any moment.         *)
(*                                                                          *)
(* Abstractions.  In a tick the true time advances by Step units and        *)
(* Date.now() by Step and the drift, of one unit at most: the growth        *)
(* allowed to the error bound, 15 ppm.  Bounds, offsets and what is handed  *)
(* out are doubled to keep the code's halves.  Seconds count in eras.  The  *)
(* line through three samples or more is Regression's; its weights are in   *)
(* sixteenths, one at least, any window the code tries may be the best, the *)
(* offset is rounded to a unit and its deviation up to one.  A drawn nonce  *)
(* is new.                                                                  *)
(***************************************************************************)
EXTENDS Integers, Sequences

CONSTANTS
    Step,     \* units of true time in a tick
    Drifts,   \* what Date.now() gains in a tick
    Jumps,    \* what setting Date.now() adds
    Floor,    \* BROWSER_ERROR_FLOOR_MS; an exchange takes as many ticks at most
    Era,      \* units in an NTP era
    EraEnd,   \* when the era ends
    MaxTicks, \* bound on the time, for model checking
    MaxBuilt, \* bound on the requests built, for model checking
    MaxSets   \* bound on the times Date.now() is set, for model checking

ASSUME TimeAssumption ==
    /\ Step \in Nat \ {0} /\ Floor \in Nat /\ Era \in Nat /\ EraEnd \in Nat
    /\ Drifts \subseteq -1..1 /\ Jumps \subseteq Int /\ MaxTicks \in Nat /\ MaxBuilt \in Nat /\ MaxSets \in Nat

VARIABLES
    mono,     \* performance.now(), in ticks
    utc,      \* true time
    wall,     \* Date.now()
    drift,    \* of Date.now()
    pending,  \* pending_t1_ms and pending_nonce: the request in flight, or none
    built,    \* number of requests built; the last one is the nonce
    out,      \* requests on their way to the gateway
    answers,  \* answers of the gateway, for as long as the page holds them
    window,   \* the samples in the register, offsets doubled
    vclock,   \* offset, last_update_mono and err_at_update, or Never
    handed,   \* high_water: the last time handed out, if any was
    sets      \* number of times Date.now() was set; requests and samples have what
              \* it was when they were built

clientVars == <<mono, utc, wall, drift, pending, built, out, answers, window, vclock,
                handed, sets>>

None  == [nonce |-> 0]
Never == [lone |-> FALSE]
Twice(n) == n + n
Abs(x)   == IF x < 0 THEN -x ELSE x

-----------------------------------------------------------------------------
(* Time.                                                                   *)

ClientInit ==
    /\ mono = 0 /\ utc = 0 /\ wall \in Jumps /\ drift \in Drifts
    /\ pending = None /\ built = 0 /\ out = {} /\ answers = {}
    /\ window = << >> /\ vclock = Never /\ handed = {} /\ sets = 0

\* An exchange that takes longer was abandoned by the page.
Young == pending # None => mono < pending.mono + Floor
Tick ==
    /\ Young /\ mono < MaxTicks
    /\ mono' = mono + 1 /\ utc' = utc + Step /\ wall' = wall + Step + drift
    /\ UNCHANGED <<drift, pending, built, out, answers, window, vclock, handed, sets>>

\* The operator, or the system's own time client, sets the clock.  Nothing measured
\* before says anything of Date.now() as it is now.
SetDate(j) ==
    /\ sets < MaxSets
    /\ sets' = sets + 1
    /\ wall' = wall + j
    /\ UNCHANGED <<mono, utc, drift, pending, built, out, answers, window, vclock, handed>>

-----------------------------------------------------------------------------
(* The exchange.                                                           *)

\* build_request: a new one takes the place of the one in flight.
Build ==
    /\ built < MaxBuilt
    /\ built' = built + 1
    /\ pending' = [nonce |-> built + 1, t1 |-> wall, mono |-> mono, utc |-> utc, sets |-> sets]
    /\ out' = out \cup {built + 1}
    /\ UNCHANGED <<mono, utc, wall, drift, answers, window, vclock, handed, sets>>

\* The seconds of an NTP timestamp, from the Unix epoch as the client reads them.
Stamp(t) == IF t < EraEnd THEN t ELSE t - Era

\* time_exchange: the packet is answered by build_reply, which takes no time here; or it
\* is refused, with an HTTP status that the page does not pass on.  A server that is not
\* synchronized says so, or it sends a kiss: an answer that cannot be used.
Serve(n, usable) ==
    /\ n \in out
    /\ answers' = answers \cup {[nonce |-> n, at |-> utc, usable |-> usable]}
    /\ out' = out \ {n}
    /\ UNCHANGED <<mono, utc, wall, drift, pending, built, window, vclock, handed, sets>>
Lose(n) ==
    /\ n \in out
    /\ out' = out \ {n}
    /\ UNCHANGED <<mono, utc, wall, drift, pending, built, answers, window, vclock, handed, sets>>

-----------------------------------------------------------------------------
(* process_response.                                                       *)

\* ntp_to_unix_near: of the three eras, the one that puts the stamp nearest the pivot.
Resolve(s, pivot) ==
    LET back == IF Abs(s - Era - pivot) < Abs(s - pivot) THEN s - Era ELSE s
    IN  IF Abs(s + Era - pivot) < Abs(back - pivot) THEN s + Era ELSE back

AnyOrigin(a) == pending # None /\ a.usable   \* mutant: without the nonce
Usable(a)    == pending # None /\ a.usable /\ a.nonce = pending.nonce

\* rejected: what is in flight stays in flight.
Reject(a) ==
    /\ a \in answers /\ ~ Usable(a)
    /\ UNCHANGED clientVars

\* register.push keeps the newest REGISTER_CAPACITY.
Pushed(sample) ==
    LET all == Append(window, sample)
    IN  IF Len(all) > 16 THEN Tail(all) ELSE all

\* regress, as far as it is a matter of rows: MIN_ADAPTIVE is 8.
Filter == INSTANCE Regression WITH MinAdaptive <- 8

\* A sample counts by the square of floor / (floor + what its delay is longer than the
\* shortest), the floor being that part of the shortest.
Weight(delay, shortest, part) ==
    LET x == part * (delay - shortest) + shortest
    IN  IF delay = shortest THEN 16
        ELSE IF 16 * shortest * shortest < x * x THEN 1
        ELSE (16 * shortest * shortest) \div (x * x)
\* The rows of the samples, their offsets about the newest, which keeps them small.
Rows(samples) ==
    LET shortest == CHOOSE d \in {samples[i].delay : i \in DOMAIN samples} :
                        \A i \in DOMAIN samples : d <= samples[i].delay
    IN  [i \in DOMAIN samples |->
            [t |-> samples[i].t, y |-> samples[i].off - samples[Len(samples)].off,
             w |-> Weight(samples[i].delay, shortest, 8),
             v |-> Weight(samples[i].delay, shortest, 32)]]

Up(n, d)      == -((-n) \div d)
Nearest(n, d) == (2 * n + d) \div (2 * d)
\* wls_fit gives samples of one moment a slope of zero.
OnLine(at, mean) ==
    IF at.den = 0 THEN Nearest(mean.sy, mean.sw) ELSE Nearest(at.num, at.den)
Ahead(rows) ==
    OnLine(Filter!OffsetAt(rows, mono),
           Filter!Fit([i \in DOMAIN rows |-> [rows[i] EXCEPT !.w = rows[i].v]]))
\* How far a row is from the line f, its residual about that being r.
Residue(row, f, r) ==
    IF f.sxx = 0 THEN Up(Abs(f.sw * row.y - f.sy), f.sw) ELSE Up(Abs(r), f.sw * f.sxx)
Square(x) == x * x
SquaresAbout(rows, f, r) ==
    Filter!SumFunction([i \in DOMAIN rows |-> rows[i].w * Square(Residue(rows[i], f, r[i]))])
\* The least number whose square is not below n / d.
Root(n, d) ==
    CHOOSE sd \in 0..n : n <= Square(sd) * d /\ (sd > 0 => Square(sd - 1) * d < n)
\* finish_sd
Deviation(rows) ==
    Root(SquaresAbout(rows, Filter!Fit(rows), Filter!Residuals(rows)) * Len(rows),
         Filter!Fit(rows).sw * (IF Len(rows) > 3 THEN Len(rows) - 2 ELSE 1))

\* Below three samples the newest is taken as it is, with half its delay and the floor
\* as its error; from then on the line through the window at the present moment, with
\* the samples' deviation from it when that is more than half the newest delay.
Estimates(sample, samples) ==
    IF Len(samples) < 3
    THEN {[lone |-> TRUE, at |-> mono, off |-> sample.off, err |-> sample.delay + Twice(Floor),
           sets |-> sample.sets]}
    ELSE {[lone |-> FALSE, at |-> mono, off |-> sample.off + Ahead(rows),
           err |-> Filter!Most(Deviation(rows), sample.delay) + Twice(Floor),
           sets |-> samples[1].sets] :
          rows \in {Filter!Used(Rows(samples), len) : len \in Filter!Lengths(Len(samples))}}

Accept(a) ==
    /\ a \in answers /\ Usable(a)
    /\ pending' = None
    /\ LET t1    == pending.t1
           t4    == wall
           t2    == Resolve(Stamp(a.at), t1)
           t3    == Resolve(Stamp(a.at), t4)
           off   == (t2 - t1) + (t3 - t4)
           delay == (t4 - t1) - (t3 - t2)
           sample == [t |-> mono, off |-> off, delay |-> delay, sets |-> pending.sets]
       IN  IF delay < 0
           THEN \* "Non-causal": rejected, and no longer in flight
                UNCHANGED <<window, vclock>>
           ELSE /\ window' = Pushed(sample)
                /\ vclock' \in Estimates(sample, window')
    /\ UNCHANGED <<mono, utc, wall, drift, built, out, answers, handed, sets>>

-----------------------------------------------------------------------------
(* The virtual clock.                                                      *)

Corrected == IF vclock = Never THEN Twice(wall) ELSE Twice(wall) + vclock.off
\* confidence: the bound on the error of what is handed out.
Confidence == vclock.err + Twice(mono - vclock.at)

\* now_ms: a time earlier than one handed out before is not handed out.
HandedOut == IF \E h \in handed : Corrected < h THEN CHOOSE h \in handed : TRUE ELSE Corrected
Now ==
    /\ handed' = {HandedOut}
    /\ UNCHANGED <<mono, utc, wall, drift, pending, built, out, answers, window, vclock, sets>>

ClientNext ==
    \/ Tick \/ Build \/ Now
    \/ \E j \in Jumps : SetDate(j)
    \/ \E n \in out : \/ \E usable \in BOOLEAN : Serve(n, usable)
                      \/ Lose(n)
    \/ \E a \in answers : Reject(a) \/ Accept(a)
ClientSpec == ClientInit /\ [][ClientNext]_clientVars

-----------------------------------------------------------------------------
\* Every sample in the register is as near to the true time as its delay says, after any
\* number of answers, lost, late, repeated or in any order, and over a change of era; and so
\* is what the page is told as long as it is told a sample, which is until there are three:
\* "a corrected reading, with an honest error bound attached" (lib.rs).  Not of samples from
\* before Date.now() was set: those say nothing of it any more.  That the bound of the line
\* through the samples is as honest is LineBoundIsHonest, and that of a reading which is held
\* back is ReadingIsHonest.
WithinItsDelay(s) ==
    Abs(Twice(wall) + s.off - Twice(utc)) <= s.delay + Twice(Floor) + Twice(mono - s.t)
SamplesAreHonest ==
    /\ \A i \in DOMAIN window : window[i].sets = sets => WithinItsDelay(window[i])
    /\ vclock.lone /\ vclock.sets = sets => Abs(Corrected - Twice(utc)) <= Confidence

\* The error bound of the line, which is what the page is told from the third answer on, is
\* as honest (process_response, est.offset_sd.max(delay / 2.0)).
LineBoundIsHonest ==
    vclock # Never /\ ~ vclock.lone /\ vclock.sets = sets => Abs(Corrected - Twice(utc)) <= Confidence

\* The reading, and not just the estimate, is within the confidence: "callers gate decisions
\* on this, so it must not pretend precision it does not have" (vclock.rs, confidence).
ReadingIsHonest ==
    vclock # Never /\ vclock.sets = sets => Abs(HandedOut - Twice(utc)) <= Confidence
=============================================================================
