---------------------------- MODULE ShmRefclock ----------------------------
(***************************************************************************)
(* The shared memory of a receiver (rusty_time-clock, refclock.rs, shm) and *)
(* the command that reads it (rusty_time-daemon, refclock_cmd.rs).  The     *)
(* producer is gpsd or another of its kind: a process of its own, which     *)
(* writes without a lock and may be killed between any two writes.          *)
(*                                                                          *)
(* Abstractions.  A time is the number of the update that wrote it: two     *)
(* fields stand for the six of the two times, and an offset is right when   *)
(* both are of one update.  Reads and writes happen in program order.       *)
(***************************************************************************)
EXTENDS Integers

CONSTANTS
    Tries,     \* attempts of sample()
    MaxWrites, \* bound on the updates of the producer, for model checking
    MaxReads   \* bound on the samples taken, for model checking

ASSUME ShmAssumption == Tries \in Nat \ {0} /\ MaxWrites \in Nat /\ MaxReads \in Nat

VARIABLES
    seg,      \* the segment: mode, valid, count, clock, receive and leap
    open,     \* history: the last update of the segment was begun and not ended
    writer,   \* the producer's next write
    writes,   \* number of updates it has begun
    reader,   \* the reader's next read
    copy,     \* what it has read
    tries,    \* attempts left
    sample,   \* what sample() returned last
    reads     \* number of samples taken

shmVars == <<seg, open, writer, writes, reader, copy, tries, sample, reads>>

NoSample == [got |-> FALSE]
NoCopy   == [mode |-> 0, count |-> 0, open |-> FALSE, clock |-> 0, receive |-> 0, leap |-> 0]

ShmInit ==
    /\ \E mode \in {0, 1} :
          seg = [mode |-> mode, valid |-> FALSE, count |-> 0, clock |-> 0, receive |-> 0, leap |-> 0]
    /\ open = FALSE /\ writer = "idle" /\ writes = 0
    /\ reader = "idle" /\ copy = NoCopy /\ tries = 0 /\ sample = NoSample /\ reads = 0

-----------------------------------------------------------------------------
(* The producer: it takes the segment back, bumps the count on either side  *)
(* of its writes, and gives it out again.                                   *)

Put(from, to, field, value) ==
    /\ writer = from /\ writer' = to
    /\ seg' = [seg EXCEPT ![field] = value]
    /\ UNCHANGED <<reader, copy, tries, sample, reads>>

Withdraw ==
    /\ writes < MaxWrites /\ writes' = writes + 1
    /\ Put("idle", "bump", "valid", FALSE)
    /\ UNCHANGED open
Bump ==
    /\ \/ Put("bump", "clock", "count", seg.count + 1) /\ open' = TRUE
       \/ Put("bumped", "valid", "count", seg.count + 1) /\ open' = FALSE
    /\ UNCHANGED writes
Write ==
    /\ \/ Put("clock", "receive", "clock", writes)
       \/ Put("receive", "leap", "receive", writes)
       \/ \E leap \in {0, 3} : Put("leap", "bumped", "leap", leap)
       \/ Put("valid", "idle", "valid", TRUE)
    /\ UNCHANGED <<writes, open>>

\* It is killed; another one starts over in the same segment.
Kill ==
    /\ writer # "idle" /\ writer' = "idle"
    /\ UNCHANGED <<seg, open, writes, reader, copy, tries, sample, reads>>

-----------------------------------------------------------------------------
(* sample                                                                  *)

Reading(from, to) == reader = from /\ reader' = to /\ UNCHANGED <<seg, open, writer, writes, tries, sample, reads>>
Read(from, to, field) == Reading(from, to) /\ copy' = [copy EXCEPT ![field] = seg[field]]

\* attach, and the first attempt
Attach ==
    /\ reader = "idle" /\ reads < MaxReads
    /\ reads' = reads + 1
    /\ reader' = "valid" /\ tries' = Tries
    /\ UNCHANGED <<seg, open, writer, writes, copy, sample>>

Return(s) == reader' = "idle" /\ sample' = s /\ tries' = 0 /\ copy' = NoCopy

CheckValid ==
    /\ reader = "valid"
    /\ IF seg.valid THEN reader' = "mode" /\ UNCHANGED <<copy, tries, sample>>
       ELSE Return(NoSample)
    /\ UNCHANGED <<seg, open, writer, writes, reads>>

ReadFields ==
    \/ Read("mode", "count", "mode")
    \/ Reading("count", "clock") /\ copy' = [copy EXCEPT !.count = seg.count, !.open = open]
    \/ Read("clock", "receive", "clock") \/ Read("receive", "leap", "receive")
    \/ Read("leap", "check", "leap")

AlwaysSame == TRUE   \* mutant: the count is not read again
CountIsSame == copy.mode = 1 => copy.count = seg.count
Finish ==
    /\ reader = "check"
    /\ IF CountIsSame
       THEN Return([got |-> TRUE, mode |-> copy.mode, open |-> copy.open, local |-> copy.receive,
                    whole |-> copy.clock = copy.receive, leap |-> copy.leap])
       ELSE IF tries > 1
       THEN reader' = "valid" /\ tries' = tries - 1 /\ UNCHANGED <<copy, sample>>
       ELSE Return(NoSample)
    /\ UNCHANGED <<seg, open, writer, writes, reads>>

\* validate(None), the only way it is called: a segment never written is before 2020.
Accepted(s) == s.got /\ s.leap # 3 /\ s.local > 0

ShmNext ==
    \/ Withdraw \/ Bump \/ Write \/ Kill
    \/ Attach \/ CheckValid \/ ReadFields \/ Finish
ShmSpec == ShmInit /\ [][ShmNext]_shmVars

-----------------------------------------------------------------------------
\* In mode 1 no sample that the command accepts mixes two updates, whoever is killed when,
\* unless the producer was between its two bumps already when the count was first read:
\* "the reader checks `count` before and after copying" (sample).  VALID is not looked at
\* again after the copy, so a reader held up between VALID and the count can take one.
TornOnlyIfBegunMidWrite ==
    Accepted(sample) /\ sample.mode = 1 /\ ~ sample.open => sample.whole
=============================================================================
