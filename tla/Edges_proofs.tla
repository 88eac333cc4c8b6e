---------------------------- MODULE Edges_proofs ----------------------------
(***************************************************************************)
(* Proofs about the parts at the daemon's edges: ShmRefclock, TimeClient,   *)
(* Tracking, Datagrams, KeyEstablishment and ClockDrivers, each for any     *)
(* value of its constants.                                                  *)
(***************************************************************************)
EXTENDS ClockDrivers, ShmRefclock, TimeClient, Tracking, KeyEstablishment, Datagrams,
        FiniteSetTheorems, SequenceTheorems, TLAPS

-----------------------------------------------------------------------------
(***************************************************************************)
(* The shared memory of a receiver, for any number of attempts and for a   *)
(* producer that may be killed between any two of its writes.              *)
(***************************************************************************)
USE ShmAssumption

-----------------------------------------------------------------------------
(* What every step keeps.  The property speaks of what sample() returned; it
   is inductive only with what a copy in progress is worth (CopyInv), and
   that with what a segment nobody is writing to holds (WriterInv).        *)

Fields  == [mode : {0, 1}, valid : BOOLEAN, count : Nat, clock : Nat, receive : Nat, leap : {0, 3}]
Copies  == [mode : {0, 1}, count : Nat, open : BOOLEAN, clock : Nat, receive : Nat, leap : {0, 3}]
Samples == [got : {TRUE}, mode : {0, 1}, open : BOOLEAN, local : Nat, whole : BOOLEAN, leap : {0, 3}]

ShmTypeInv ==
    /\ seg \in Fields /\ open \in BOOLEAN /\ writes \in Nat
    /\ writer \in {"idle", "bump", "clock", "receive", "leap", "bumped", "valid"}
    /\ reader \in {"idle", "valid", "mode", "count", "clock", "receive", "leap", "check"}
    /\ copy \in Copies /\ sample \in Samples \cup {NoSample}

\* The times of a segment that is not open are of one update, and only an open one is
\* written to.
WriterInv ==
    /\ writer \in {"clock", "receive", "leap", "bumped"} => open
    /\ writer \in {"receive", "leap", "bumped"} => seg.clock = writes
    /\ writer \in {"leap", "bumped"} => seg.receive = writes
    /\ ~ open => seg.clock = seg.receive

\* As long as the count is what it was when a copy of a closed segment was begun, the
\* segment is closed and what was copied is what it holds.
CopyInv ==
    reader \in {"clock", "receive", "leap", "check"} =>
        /\ copy.count <= seg.count
        /\ copy.count = seg.count /\ ~ copy.open =>
             /\ ~ open
             /\ reader \in {"receive", "leap", "check"} => copy.clock = seg.clock
             /\ reader \in {"leap", "check"} => copy.receive = seg.receive

SampleInv == sample.got /\ sample.mode = 1 /\ ~ sample.open => sample.whole

ShmInv == ShmTypeInv /\ WriterInv /\ CopyInv /\ SampleInv

LEMMA ShmInitInv == ShmInit => ShmInv
<1> SUFFICES ASSUME ShmInit PROVE ShmInv
  OBVIOUS
<1>1. ShmTypeInv
  <2>1. NoCopy \in Copies
    BY DEF NoCopy, Copies
  <2>2. seg \in Fields
    BY DEF ShmInit, Fields
  <2> QED BY <2>1, <2>2 DEF ShmInit, ShmTypeInv
<1>2. WriterInv /\ CopyInv /\ SampleInv
  BY DEF ShmInit, WriterInv, CopyInv, SampleInv, NoSample
<1> QED BY <1>1, <1>2 DEF ShmInv

\* The producer.
LEMMA WriterStep ==
    ASSUME ShmInv, Withdraw \/ Bump \/ Write \/ Kill
    PROVE  ShmInv'
<1> USE DEF ShmInv, Put
<1>1. CASE Withdraw
  <2>1. ShmTypeInv'
    <3>1. seg' \in Fields
      BY <1>1 DEF Withdraw, ShmTypeInv, Fields
    <3> QED BY <1>1, <3>1 DEF Withdraw, ShmTypeInv
  <2>2. /\ seg'.count = seg.count /\ seg'.clock = seg.clock /\ seg'.receive = seg.receive
        /\ UNCHANGED <<open, reader, copy, sample>> /\ writer' = "bump"
    BY <1>1 DEF Withdraw, ShmTypeInv, Fields
  <2> QED BY <2>1, <2>2 DEF WriterInv, CopyInv, SampleInv
<1>2. CASE Bump
  <2>1. ShmTypeInv' /\ SampleInv'
    <3>1. seg' \in Fields
      BY <1>2 DEF Bump, ShmTypeInv, Fields
    <3> QED BY <1>2, <3>1 DEF Bump, ShmTypeInv, SampleInv
  <2>2. WriterInv'
    BY <1>2 DEF Bump, ShmTypeInv, Fields, WriterInv
  <2>3. seg'.count = seg.count + 1 /\ UNCHANGED <<reader, copy>>
    BY <1>2 DEF Bump, ShmTypeInv, Fields
  <2>4. CopyInv'
    BY <2>3 DEF ShmTypeInv, Fields, Copies, CopyInv
  <2> QED BY <2>1, <2>2, <2>4
<1>3. CASE Write
  <2>1. ShmTypeInv' /\ SampleInv'
    <3>1. seg' \in Fields
      BY <1>3 DEF Write, ShmTypeInv, Fields
    <3> QED BY <1>3, <3>1 DEF Write, ShmTypeInv, SampleInv
  <2>2. WriterInv'
    BY <1>3 DEF Write, ShmTypeInv, Fields, WriterInv
  <2>3. seg'.count = seg.count /\ UNCHANGED <<open, reader, copy>>
    BY <1>3 DEF Write, ShmTypeInv, Fields
  <2>4. ~ open => seg'.clock = seg.clock /\ seg'.receive = seg.receive
    BY <1>3 DEF Write, ShmTypeInv, Fields, WriterInv
  <2>5. CopyInv'
    BY <2>3, <2>4 DEF CopyInv
  <2> QED BY <2>1, <2>2, <2>5
<1>4. CASE Kill
  BY <1>4 DEF Kill, ShmTypeInv, WriterInv, CopyInv, SampleInv
<1> QED BY <1>1, <1>2, <1>3, <1>4

\* The reader.
LEMMA ReaderStep ==
    ASSUME ShmInv, Attach \/ CheckValid \/ ReadFields \/ Finish
    PROVE  ShmInv'
<1> USE DEF ShmInv
<1>1. UNCHANGED <<seg, open, writer, writes>> /\ WriterInv'
  BY DEF Attach, CheckValid, ReadFields, Finish, Read, Reading, WriterInv
<1>2. CASE Attach
  BY <1>1, <1>2 DEF Attach, ShmTypeInv, CopyInv, SampleInv
<1>3. CASE CheckValid
  <2>1. ShmTypeInv'
    <3>1. NoCopy \in Copies
      BY DEF NoCopy, Copies
    <3> QED BY <1>1, <1>3, <3>1 DEF CheckValid, Return, ShmTypeInv
  <2>2. CopyInv' /\ SampleInv'
    BY <1>3 DEF CheckValid, Return, CopyInv, SampleInv, NoSample
  <2> QED BY <1>1, <2>1, <2>2
<1>4. CASE ReadFields
  <2>1. ShmTypeInv' /\ sample' = sample
    <3>1. copy' \in Copies
      BY <1>4 DEF ReadFields, Read, Reading, ShmTypeInv, Copies, Fields
    <3> QED BY <1>1, <1>4, <3>1 DEF ReadFields, Read, Reading, ShmTypeInv
  <2>2. CopyInv'
    <3>1. CASE Read("mode", "count", "mode")
      BY <3>1 DEF Read, Reading, CopyInv
    <3>2. CASE Reading("count", "clock") /\ copy' = [copy EXCEPT !.count = seg.count, !.open = open]
      <4>1. copy'.count = seg.count /\ copy'.open = open
        BY <3>2 DEF ShmTypeInv, Copies
      <4> QED BY <1>1, <3>2, <4>1 DEF Reading, CopyInv, ShmTypeInv, Fields
    <3>3. CASE Read("clock", "receive", "clock")
      <4>1. /\ copy'.count = copy.count /\ copy'.open = copy.open /\ copy'.clock = seg.clock
        BY <3>3 DEF Read, ShmTypeInv, Copies
      <4> QED BY <1>1, <3>3, <4>1 DEF Read, Reading, CopyInv
    <3>4. CASE Read("receive", "leap", "receive")
      <4>1. /\ copy'.count = copy.count /\ copy'.open = copy.open /\ copy'.clock = copy.clock
            /\ copy'.receive = seg.receive
        BY <3>4 DEF Read, ShmTypeInv, Copies
      <4> QED BY <1>1, <3>4, <4>1 DEF Read, Reading, CopyInv
    <3>5. CASE Read("leap", "check", "leap")
      <4>1. /\ copy'.count = copy.count /\ copy'.open = copy.open /\ copy'.clock = copy.clock
            /\ copy'.receive = copy.receive
        BY <3>5 DEF Read, ShmTypeInv, Copies
      <4> QED BY <1>1, <3>5, <4>1 DEF Read, Reading, CopyInv
    <3> QED BY <1>4, <3>1, <3>2, <3>3, <3>4, <3>5 DEF ReadFields
  <2> QED BY <1>1, <2>1, <2>2 DEF SampleInv
<1>5. CASE Finish
  <2>1. ShmTypeInv'
    <3>1. [got |-> TRUE, mode |-> copy.mode, open |-> copy.open, local |-> copy.receive,
           whole |-> copy.clock = copy.receive, leap |-> copy.leap] \in Samples
      BY DEF ShmTypeInv, Copies, Samples
    <3>2. NoCopy \in Copies
      BY DEF NoCopy, Copies
    <3> QED BY <1>1, <1>5, <3>1, <3>2 DEF Finish, Return, ShmTypeInv
  <2>2. CopyInv'
    BY <1>5 DEF Finish, Return, CopyInv
  <2>3. CASE CountIsSame
    <3>1. sample'.mode = 1 /\ ~ sample'.open => copy.count = seg.count /\ ~ copy.open
      BY <1>5, <2>3 DEF Finish, Return, CountIsSame
    <3>2. copy.count = seg.count /\ ~ copy.open => copy.clock = copy.receive
      BY <1>5 DEF Finish, CopyInv, WriterInv
    <3>3. sample'.whole = (copy.clock = copy.receive)
      BY <1>5, <2>3 DEF Finish, Return
    <3> QED BY <1>1, <2>1, <2>2, <3>1, <3>2, <3>3 DEF SampleInv
  <2>4. CASE ~ CountIsSame
    BY <1>1, <1>5, <2>1, <2>2, <2>4 DEF Finish, Return, SampleInv, NoSample
  <2> QED BY <2>3, <2>4
<1> QED BY <1>2, <1>3, <1>4, <1>5

LEMMA ShmStepInv == ShmInv /\ [ShmNext]_shmVars => ShmInv'
<1> SUFFICES ASSUME ShmInv, [ShmNext]_shmVars PROVE ShmInv'
  OBVIOUS
<1>1. CASE ShmNext
  BY <1>1, WriterStep, ReaderStep DEF ShmNext
<1>2. CASE UNCHANGED shmVars
  BY <1>2 DEF shmVars, ShmInv, ShmTypeInv, WriterInv, CopyInv, SampleInv
<1> QED BY <1>1, <1>2

-----------------------------------------------------------------------------
\* In mode 1 every sample that sample() returns, accepted or not, is of one update when
\* the producer was outside its two bumps at the first reading of the count, for any
\* number of attempts, updates and kills (sample).
THEOREM SamplesAreWhole == ShmSpec => []TornOnlyIfBegunMidWrite
<1>1. ShmInv => TornOnlyIfBegunMidWrite
  BY DEF ShmInv, SampleInv, TornOnlyIfBegunMidWrite, Accepted
<1> QED BY <1>1, ShmInitInv, ShmStepInv, PTL DEF ShmSpec

HIDE ShmAssumption

-----------------------------------------------------------------------------
(***************************************************************************)
(* The browser's client, for any drift of up to the growth allowed to the  *)
(* error bound, any era and any exchange of requests and answers.          *)
(***************************************************************************)
USE TimeAssumption

\* A Date.now() that is wrong by half an era, less what an exchange takes, has the
\* answers put into another era: the bound is honest only for a date nearer than that.
DateIsNear == Twice(Abs(wall - utc) + Step * Floor) < Era

-----------------------------------------------------------------------------
(* What every step keeps.  The property speaks of the samples in the
   register, and of the one the virtual clock was fed last while there are
   fewer than three.  That a sample is right rests on what is known of the
   request it answers (Requested) and of the answers that bear its nonce
   (Answered).  Of a virtual clock that was fed a line nothing is kept.    *)

Requests == [nonce : Nat \ {0}, t1 : Int, mono : Nat, utc : Nat, sets : Nat]
Answers  == [nonce : Nat, at : Nat, usable : BOOLEAN]
Measured == [t : Nat, off : Int, delay : Int, sets : Nat]
Clocks   == [lone : {TRUE}, at : Nat, off : Int, err : Int, sets : Nat]

ClientTypeInv ==
    /\ mono \in Nat /\ utc \in Nat /\ wall \in Int /\ drift \in -1..1
    /\ built \in Nat /\ sets \in Nat
    /\ pending = None \/ (pending \in Requests /\ pending.nonce = built)
    /\ out \subseteq 0..built
    /\ answers \subseteq Answers /\ window \in Seq(Measured)
    /\ vclock.lone => vclock \in Clocks

\* Since the request was built the date has gained no more than a unit in a tick, and the
\* exchange has taken no longer than the floor allows for.
Requested ==
    pending \in Requests =>
        /\ pending.mono <= mono /\ mono <= pending.mono + Floor
        /\ utc - pending.utc = Step * (mono - pending.mono)
        /\ pending.sets <= sets
        /\ pending.sets = sets =>
             /\ Abs((wall - pending.t1) - (utc - pending.utc)) <= mono - pending.mono
             /\ Twice(Abs(pending.t1 - pending.utc) + Step * Floor) < Era

\* An answer was given before now, and one to the request in flight since it was built.
Answered ==
    \A a \in answers :
        /\ a.nonce <= built /\ a.at <= utc
        /\ pending \in Requests /\ a.nonce = pending.nonce => pending.utc <= a.at

\* A sample, and the virtual clock that was fed one, of before the last time Date.now()
\* was set, or within its bound.
Good(s) ==
    /\ s.t <= mono /\ s.sets <= sets
    /\ s.sets = sets => WithinItsDelay(s)
Honest ==
    /\ \A i \in DOMAIN window : Good(window[i])
    /\ vclock.lone =>
          /\ vclock.at <= mono /\ vclock.sets <= sets
          /\ vclock.sets = sets =>
               Abs(Twice(wall) + vclock.off - Twice(utc)) <= vclock.err + Twice(mono - vclock.at)

ClientInv == ClientTypeInv /\ Requested /\ Answered /\ Honest

LEMMA NoneIsNoRequest == None \notin Requests
BY DEF None, Requests

LEMMA Numbers ==
    ASSUME ClientTypeInv
    PROVE  mono \in Nat /\ utc \in Nat /\ wall \in Int /\ drift \in -1..1 /\ sets \in Nat
BY DEF ClientTypeInv

LEMMA ResolveIsANumber ==
    ASSUME NEW t \in Int, NEW pivot \in Int
    PROVE  Resolve(Stamp(t), pivot) \in Int
<1>1. Stamp(t) \in Int
  BY DEF Stamp
<1> QED BY <1>1 DEF Resolve

\* In a tick the date gains a unit at most.
LEMMA Gained ==
    ASSUME NEW w \in Int, NEW u \in Int, NEW x \in Int, NEW e \in Int, NEW d \in -1..1,
           Abs(w + x - u) <= e
    PROVE  Abs((w + Step + d) + x - (u + Step)) <= e + 1
BY DEF Abs

LEMMA GainedTwice ==
    ASSUME NEW w \in Int, NEW u \in Int, NEW x \in Int, NEW e \in Int, NEW d \in -1..1,
           Abs(Twice(w) + x - Twice(u)) <= e
    PROVE  Abs(Twice(w + Step + d) + x - Twice(u + Step)) <= e + 2
BY DEF Abs, Twice

-----------------------------------------------------------------------------
(* The types, which need nothing else.                                     *)

\* What is in the register after a push was in it before or is what was pushed.
LEMMA PushedFacts ==
    ASSUME window \in Seq(Measured), NEW s \in Measured
    PROVE  /\ Pushed(s) \in Seq(Measured)
           /\ \A i \in DOMAIN Pushed(s) : Pushed(s)[i] = s \/ \E k \in DOMAIN window : Pushed(s)[i] = window[k]
<1> DEFINE all == Append(window, s)
<1>1. /\ all \in Seq(Measured) /\ Len(all) = Len(window) + 1
      /\ \A i \in 1..Len(all) : all[i] = s \/ \E k \in DOMAIN window : all[i] = window[k]
  OBVIOUS
<1>2. Pushed(s) = IF Len(all) > 16 THEN Tail(all) ELSE all
  BY DEF Pushed
<1> HIDE DEF all
<1>3. CASE Len(all) > 16
  <2>1. /\ Tail(all) \in Seq(Measured) /\ Len(Tail(all)) = Len(all) - 1
        /\ \A i \in 1..Len(Tail(all)) : Tail(all)[i] = all[i + 1] /\ i + 1 \in 1..Len(all)
    BY <1>1, <1>3
  <2>2. DOMAIN Tail(all) = 1..Len(Tail(all))
    BY <2>1
  <2> QED BY <1>1, <1>2, <1>3, <2>1, <2>2
<1>4. CASE ~ Len(all) > 16
  <2>1. DOMAIN all = 1..Len(all)
    BY <1>1
  <2> QED BY <1>1, <1>2, <1>4, <2>1
<1> QED BY <1>3, <1>4

\* What Accept does with an answer: the sample it makes is off the date by numbers and is
\* pushed, and the virtual clock is fed that sample or a line.
LEMMA AcceptFacts ==
    ASSUME ClientTypeInv, NEW a \in answers, Accept(a),
           NEW t2, t2 = Resolve(Stamp(a.at), pending.t1),
           NEW t3, t3 = Resolve(Stamp(a.at), wall),
           NEW off, off = (t2 - pending.t1) + (t3 - wall),
           NEW delay, delay = (wall - pending.t1) - (t3 - t2),
           NEW s, s = [t |-> mono, off |-> off, delay |-> delay, sets |-> pending.sets]
    PROVE  /\ pending \in Requests /\ a.nonce = pending.nonce
           /\ off \in Int /\ delay \in Int /\ s \in Measured
           /\ pending' = None
           /\ UNCHANGED <<mono, utc, wall, drift, built, out, answers, handed, sets>>
           /\ \/ UNCHANGED <<window, vclock>>
              \/ /\ window' = Pushed(s)
                 /\ vclock'.lone => /\ vclock' \in Clocks /\ vclock'.at = mono
                                    /\ vclock'.off = off /\ vclock'.sets = pending.sets
                                    /\ vclock'.err = delay + Twice(Floor)
<1> DEFINE lone == [lone |-> TRUE, at |-> mono, off |-> off, err |-> delay + Twice(Floor),
                    sets |-> pending.sets]
<1>1. /\ pending' = None
      /\ UNCHANGED <<mono, utc, wall, drift, built, out, answers, handed, sets>>
      /\ \/ UNCHANGED <<window, vclock>>
         \/ window' = Pushed(s) /\ vclock' \in Estimates(s, window')
  BY DEF Accept
<1>2. pending \in Requests /\ a.nonce = pending.nonce
  BY DEF Accept, Usable, ClientTypeInv
<1>3. /\ pending.t1 \in Int /\ pending.sets \in Nat /\ a.at \in Nat
  BY <1>2 DEF Requests, ClientTypeInv, Answers
<1>4. t2 \in Int /\ t3 \in Int
  <2>1. wall \in Int /\ a.at \in Int /\ pending.t1 \in Int
    BY <1>3, Numbers
  <2>2. /\ Resolve(Stamp(a.at), pending.t1) \in Int
        /\ Resolve(Stamp(a.at), wall) \in Int
    BY <2>1, ResolveIsANumber
  <2> QED BY <2>2
<1>5. off \in Int /\ delay \in Int
  BY <1>3, <1>4, Numbers
<1>6. lone \in Clocks /\ s \in Measured
  BY <1>3, <1>5 DEF Clocks, Measured, ClientTypeInv, Twice
<1>7. ASSUME NEW samples, NEW c \in Estimates(s, samples), c.lone PROVE c = lone
  <2>1. c = lone \/ ~ c.lone
    BY <1>7 DEF Estimates
  <2> QED BY <1>7, <2>1
<1>8. ASSUME vclock' \in Estimates(s, window'), vclock'.lone
      PROVE  /\ vclock' \in Clocks /\ vclock'.at = mono
             /\ vclock'.off = off /\ vclock'.sets = pending.sets
             /\ vclock'.err = delay + Twice(Floor)
  <2>1. vclock' = lone
    <3> HIDE DEF lone
    <3> QED BY <1>7, <1>8
  <2> QED BY <1>6, <2>1
<1> QED BY <1>1, <1>2, <1>5, <1>6, <1>8

LEMMA ClientTypeStep == ClientTypeInv /\ [ClientNext]_clientVars => ClientTypeInv'
<1> SUFFICES ASSUME ClientTypeInv, [ClientNext]_clientVars PROVE ClientTypeInv'
  OBVIOUS
<1>1. CASE Tick
  BY <1>1 DEF Tick, ClientTypeInv
<1>2. ASSUME NEW j \in Jumps, SetDate(j) PROVE ClientTypeInv'
  BY <1>2 DEF SetDate, ClientTypeInv
<1>3. CASE Build
  <2>1. pending' \in Requests /\ pending'.nonce = built'
    BY <1>3 DEF Build, ClientTypeInv, Requests
  <2> QED BY <1>3, <2>1 DEF Build, ClientTypeInv
<1>4. ASSUME NEW n \in out, NEW usable \in BOOLEAN, Serve(n, usable) PROVE ClientTypeInv'
  <2>1. n \in Nat
    BY DEF ClientTypeInv
  <2>2. [nonce |-> n, at |-> utc, usable |-> usable] \in Answers
    BY <2>1 DEF Answers, ClientTypeInv
  <2> QED BY <1>4, <2>2 DEF Serve, ClientTypeInv
<1>5. ASSUME NEW n \in out, Lose(n) PROVE ClientTypeInv'
  BY <1>5 DEF Lose, ClientTypeInv
<1>6. ASSUME NEW a \in answers, Accept(a) PROVE ClientTypeInv'
  <2>1. PICK s \in Measured :
            /\ pending' = None
            /\ UNCHANGED <<mono, utc, wall, drift, built, out, answers, sets>>
            /\ window' \in {window, Pushed(s)}
            /\ vclock' = vclock \/ (vclock'.lone => vclock' \in Clocks)
    BY <1>6, AcceptFacts
  <2>2. Pushed(s) \in Seq(Measured)
    BY PushedFacts DEF ClientTypeInv
  <2> QED BY <2>1, <2>2 DEF ClientTypeInv
<1>7. CASE Now
  BY <1>7 DEF Now, ClientTypeInv
<1>8. CASE UNCHANGED clientVars
  BY <1>8 DEF clientVars, ClientTypeInv
<1> QED BY <1>1, <1>2, <1>3, <1>4, <1>5, <1>6, <1>7, <1>8 DEF ClientNext, Reject

LEMMA ClientTypeInit == ClientInit => ClientTypeInv
BY DEF ClientInit, ClientTypeInv, Never

LEMMA ClientInitInv == ClientInit => ClientInv
<1> SUFFICES ASSUME ClientInit PROVE ClientInv
  OBVIOUS
<1>1. ClientTypeInv
  BY ClientTypeInit
<1>2. Requested /\ Answered /\ Honest
  BY NoneIsNoRequest DEF ClientInit, Requested, Answered, Honest, Never
<1> QED BY <1>1, <1>2 DEF ClientInv

-----------------------------------------------------------------------------
(* Lemmas about the arithmetic of an exchange.                             *)

\* A stamp is put back into the era of its time when the pivot is within half an era of
\* it (ntp_to_unix_near).
LEMMA Resolved ==
    ASSUME NEW t \in Int, NEW pivot \in Int, Twice(Abs(t - pivot)) < Era
    PROVE  Resolve(Stamp(t), pivot) = t
<1> DEFINE s == Stamp(t)
           back == IF Abs(s - Era - pivot) < Abs(s - pivot) THEN s - Era ELSE s
<1>1. Resolve(s, pivot) = IF Abs(s + Era - pivot) < Abs(back - pivot) THEN s + Era ELSE back
  BY DEF Resolve
<1>2. s = t \/ s = t - Era
  BY DEF Stamp
<1> HIDE DEF s
<1>3. CASE s = t
  <2>1. back = t
    BY <1>3 DEF Abs, Twice
  <2>2. ~ (Abs(t + Era - pivot) < Abs(t - pivot))
    BY DEF Abs, Twice
  <2> QED BY <1>1, <1>3, <2>1, <2>2 DEF s
<1>4. CASE s = t - Era
  <2>1. ~ (Abs(t - Era - Era - pivot) < Abs(t - Era - pivot))
    BY DEF Abs, Twice
  <2>2. back = t - Era
    BY <1>4, <2>1
  <2>3. Abs(t - Era + Era - pivot) < Abs(t - Era - pivot)
    BY DEF Abs, Twice
  <2> QED BY <1>1, <1>4, <2>2, <2>3 DEF s
<1> QED BY <1>2, <1>3, <1>4

\* The sample of an exchange is wrong by half its delay and what the date gained in it at
\* most: built at b of true time with the date at d, answered at a, ended at e with the
\* date at w.
LEMMA SampleIsGood ==
    ASSUME NEW b \in Int, NEW d \in Int, NEW a \in Int, NEW e \in Int, NEW w \in Int,
           b <= a, a <= e, Abs((w - d) - (e - b)) <= Floor
    PROVE  Abs(Twice(w) + ((a - d) + (a - w)) - Twice(e)) <= (w - d) + Twice(Floor)
BY DEF Abs, Twice

-----------------------------------------------------------------------------
(* The steps.                                                              *)

LEMMA TickStep == ASSUME ClientInv, Tick PROVE ClientInv'
<1> USE DEF ClientInv
<1>1. /\ mono' = mono + 1 /\ utc' = utc + Step /\ wall' = wall + Step + drift
      /\ UNCHANGED <<drift, pending, built, out, answers, window, vclock, handed, sets>>
  BY DEF Tick
<1>2. ClientTypeInv'
  BY ClientTypeStep DEF ClientNext
<1>3. Requested'
  <2>1. SUFFICES ASSUME pending \in Requests
                 PROVE  /\ pending.mono <= mono' /\ mono' <= pending.mono + Floor
                        /\ utc' - pending.utc = Step * (mono' - pending.mono)
                        /\ pending.sets <= sets
                        /\ pending.sets = sets =>
                             /\ Abs((wall' - pending.t1) - (utc' - pending.utc)) <= mono' - pending.mono
                             /\ Twice(Abs(pending.t1 - pending.utc) + Step * Floor) < Era
    <3>1. pending' = pending /\ sets' = sets
      BY <1>1
    <3> QED BY <3>1 DEF Requested
  <2>2. pending.mono \in Nat /\ pending.utc \in Nat /\ pending.t1 \in Int
    BY <2>1 DEF Requests
  <2>3. mono < pending.mono + Floor
    BY <2>1, NoneIsNoRequest DEF Tick, Young
  <2>4. mono \in Nat /\ utc \in Nat /\ mono' = mono + 1 /\ utc' = utc + Step
    BY <1>1 DEF ClientTypeInv
  <2>5. Step * (mono' - pending.mono) = Step * (mono - pending.mono) + Step
    <3> HIDE DEF ClientInv
    <3> QED BY <2>2, <2>4
  <2>6. ASSUME pending.sets = sets
        PROVE  /\ Abs((wall + Step + drift - pending.t1) - (utc + Step - pending.utc))
                     <= mono + 1 - pending.mono
               /\ Twice(Abs(pending.t1 - pending.utc) + Step * Floor) < Era
    <3>1. /\ Abs((wall - pending.t1) - (utc - pending.utc)) <= mono - pending.mono
          /\ Twice(Abs(pending.t1 - pending.utc) + Step * Floor) < Era
      BY <2>1, <2>6 DEF Requested
    <3>2. Abs((wall + Step + drift - pending.t1) - (utc + Step - pending.utc))
             <= mono + 1 - pending.mono
      <4> DEFINE x == pending.utc - pending.t1
                 e == mono - pending.mono
      <4>1. x \in Int /\ e \in Int /\ wall \in Int /\ utc \in Int /\ drift \in -1..1
        BY <2>2, Numbers
      <4>2. (wall - pending.t1) - (utc - pending.utc) = wall + x - utc
        BY <2>2, Numbers
      <4>3. /\ (wall + Step + drift - pending.t1) - (utc + Step - pending.utc)
                   = (wall + Step + drift) + x - (utc + Step)
            /\ mono + 1 - pending.mono = e + 1
        BY <2>2, Numbers
      <4> HIDE DEF x
      <4>4. Abs(wall + x - utc) <= e
        BY <3>1, <4>2
      <4> HIDE DEF e
      <4> QED BY <4>1, <4>3, <4>4, Gained
    <3> QED BY <3>1, <3>2
  <2>7. wall \in Int /\ utc \in Int /\ mono \in Int /\ drift \in Int
    BY DEF ClientTypeInv
  <2>8. /\ pending.mono <= mono' /\ mono' <= pending.mono + Floor
        /\ utc' - pending.utc = Step * (mono' - pending.mono) /\ pending.sets <= sets
    <3>1. /\ pending.mono <= mono /\ utc - pending.utc = Step * (mono - pending.mono)
          /\ pending.sets <= sets
      BY <2>1 DEF Requested
    <3>2. Step * (mono - pending.mono) \in Int
      BY <2>2, <2>4
    <3> HIDE DEF ClientInv
    <3> QED BY <2>2, <2>3, <2>4, <2>5, <3>1, <3>2
  <2>9. ASSUME pending.sets = sets
        PROVE  Abs((wall' - pending.t1) - (utc' - pending.utc)) <= mono' - pending.mono
    BY <1>1, <2>2, <2>6, <2>7, <2>9 DEF Abs
  <2> QED BY <2>6, <2>8, <2>9
<1>4. Answered'
  <2>1. ASSUME NEW a \in answers PROVE a.at \in Nat /\ a.at <= utc + Step
    BY DEF Answered, ClientTypeInv, Answers
  <2> QED BY <1>1, <2>1 DEF Answered
<1>5. ASSUME NEW x \in Int, NEW e \in Int, NEW t \in Nat, t <= mono,
             Abs(Twice(wall) + x - Twice(utc)) <= e + Twice(mono - t)
      PROVE  Abs(Twice(wall') + x - Twice(utc')) <= e + Twice(mono' - t)
  <2>1. wall \in Int /\ utc \in Int /\ mono \in Int /\ drift \in -1..1
    BY Numbers
  <2>2. /\ e + Twice(mono - t) \in Int
        /\ e + Twice(mono + 1 - t) = (e + Twice(mono - t)) + 2
    BY <2>1 DEF Twice
  <2>3. Abs(Twice(wall + Step + drift) + x - Twice(utc + Step)) <= e + Twice(mono + 1 - t)
    BY <1>5, <2>1, <2>2, GainedTwice
  <2>4. wall' = wall + Step + drift /\ utc' = utc + Step /\ mono' = mono + 1
    BY <1>1
  <2>5. /\ Twice(wall') = Twice(wall + Step + drift) /\ Twice(utc') = Twice(utc + Step)
        /\ Twice(mono' - t) = Twice(mono + 1 - t)
    BY <2>1, <2>4 DEF Twice
  <2> HIDE DEF ClientInv
  <2> QED BY <2>3, <2>5, Zenon
<1>6. ASSUME NEW i \in DOMAIN window PROVE Good(window[i])'
  <2>1. window[i] \in Measured /\ Good(window[i])
    BY DEF ClientTypeInv, Honest
  <2>2. PICK s \in Measured : s = window[i] /\ Good(s)
    BY <2>1
  <2>3. s.t \in Nat /\ s.off \in Int /\ s.delay + Twice(Floor) \in Int /\ s.t <= mono /\ s.sets <= sets
    BY <2>2 DEF Measured, Good, Twice
  <2>4. s.t <= mono'
    BY <1>1, <2>3 DEF ClientTypeInv
  <2>5. ASSUME s.sets = sets
        PROVE  Abs(Twice(wall') + s.off - Twice(utc')) <= s.delay + Twice(Floor) + Twice(mono' - s.t)
    BY <1>5, <2>2, <2>3, <2>5 DEF Good, WithinItsDelay
  <2>6. window[i]' = s /\ sets' = sets
    BY <1>1, <2>2
  <2> QED BY <2>3, <2>4, <2>5, <2>6 DEF Good, WithinItsDelay
<1>7. Honest'
  <2>1. ASSUME vclock.lone
        PROVE  /\ vclock.at <= mono' /\ vclock.sets <= sets
               /\ vclock.sets = sets => Abs(Twice(wall') + vclock.off - Twice(utc'))
                                           <= vclock.err + Twice(mono' - vclock.at)
    <3>1. vclock.at \in Nat /\ vclock.off \in Int /\ vclock.err \in Int
      BY <2>1 DEF ClientTypeInv, Clocks
    <3>2. /\ vclock.at <= mono /\ vclock.sets <= sets
          /\ vclock.sets = sets => Abs(Twice(wall) + vclock.off - Twice(utc))
                                      <= vclock.err + Twice(mono - vclock.at)
      BY <2>1 DEF Honest
    <3>3. vclock.at <= mono'
      BY <1>1, <3>1, <3>2 DEF ClientTypeInv
    <3> QED BY <1>5, <3>1, <3>2, <3>3
  <2> QED BY <1>1, <1>6, <2>1 DEF Honest
<1> QED BY <1>2, <1>3, <1>4, <1>7

\* Nothing that was built before is of the present setting any more.
LEMMA SetDateStep == ASSUME ClientInv, NEW j \in Jumps, SetDate(j) PROVE ClientInv'
<1> USE DEF ClientInv
<1>1. /\ sets' = sets + 1
      /\ UNCHANGED <<mono, utc, drift, pending, built, out, answers, window, vclock, handed>>
  BY DEF SetDate
<1>2. ClientTypeInv'
  BY ClientTypeStep DEF ClientNext
<1>3. ASSUME NEW n \in Nat, n <= sets PROVE n <= sets' /\ n # sets'
  BY <1>1, <1>3 DEF ClientTypeInv
<1>4. Requested'
  BY <1>1, <1>3 DEF Requested, Requests
<1>5. Answered'
  BY <1>1 DEF Answered
<1>6. ASSUME NEW i \in DOMAIN window PROVE Good(window[i])'
  <2>1. PICK s \in Measured : s = window[i] /\ Good(s)
    BY DEF ClientTypeInv, Honest
  <2>2. s.t <= mono /\ s.sets <= sets' /\ s.sets # sets'
    BY <1>3, <2>1 DEF Good, Measured
  <2>3. window[i]' = s /\ mono' = mono
    BY <1>1, <2>1
  <2> QED BY <2>2, <2>3 DEF Good
<1>7. Honest'
  <2>1. ASSUME vclock.lone PROVE vclock.at <= mono /\ vclock.sets <= sets' /\ vclock.sets # sets'
    BY <1>3, <2>1 DEF Honest, ClientTypeInv, Clocks
  <2> QED BY <1>1, <1>6, <2>1 DEF Honest
<1> QED BY <1>2, <1>4, <1>5, <1>7

LEMMA HonestKept ==
    ASSUME Honest, UNCHANGED <<mono, utc, wall, window, vclock, sets>>
    PROVE  Honest'
BY DEF Honest, Good, WithinItsDelay

LEMMA BuildStep == ASSUME ClientInv, DateIsNear, Build PROVE ClientInv'
<1> USE DEF ClientInv
<1>1. /\ built' = built + 1 /\ out' = out \cup {built + 1}
      /\ pending' = [nonce |-> built + 1, t1 |-> wall, mono |-> mono, utc |-> utc, sets |-> sets]
      /\ UNCHANGED <<mono, utc, wall, drift, answers, window, vclock, handed, sets>>
  BY DEF Build
<1>2. ClientTypeInv'
  BY ClientTypeStep DEF ClientNext
<1>4. Requested'
  <2>1. /\ pending'.mono = mono /\ pending'.utc = utc /\ pending'.t1 = wall
        /\ pending'.sets = sets /\ sets \in Nat
    BY <1>1 DEF ClientTypeInv
  <2>2. mono - mono = 0 /\ utc - utc = 0 /\ wall - wall = 0 /\ Step * 0 = 0
    BY DEF ClientTypeInv
  <2>3. mono <= mono /\ mono <= mono + Floor /\ Abs(0 - 0) <= 0
    BY DEF ClientTypeInv, Abs
  <2> QED BY <1>1, <2>1, <2>2, <2>3 DEF Requested, DateIsNear
<1>5. Answered'
  <2>1. ASSUME NEW a \in answers PROVE a.nonce <= built + 1 /\ a.nonce # built + 1 /\ a.at <= utc
    BY DEF Answered, ClientTypeInv, Answers
  <2> QED BY <1>1, <2>1 DEF Answered
<1>6. Honest'
  BY <1>1, HonestKept
<1> QED BY <1>2, <1>4, <1>5, <1>6

LEMMA LoseStep == ASSUME ClientInv, NEW n \in out, Lose(n) PROVE ClientInv'
<1>1. /\ out' \subseteq out
      /\ UNCHANGED <<mono, utc, wall, drift, pending, built, answers, window, vclock, handed, sets>>
  BY DEF Lose
<1> QED BY <1>1, HonestKept DEF ClientInv, ClientTypeInv, Requested, Answered

LEMMA ServeStep ==
    ASSUME ClientInv, NEW n \in out, NEW usable \in BOOLEAN, Serve(n, usable)
    PROVE  ClientInv'
<1> USE DEF ClientInv
<1> DEFINE reply == [nonce |-> n, at |-> utc, usable |-> usable]
<1>1. /\ out' \subseteq out /\ answers' = answers \cup {reply}
      /\ UNCHANGED <<mono, utc, wall, drift, pending, built, window, vclock, handed, sets>>
  BY DEF Serve
<1>2. n \in Nat /\ n <= built /\ utc \in Nat /\ utc <= utc
  BY DEF ClientTypeInv
<1>3. reply \in Answers /\ reply.nonce = n /\ reply.at = utc
  BY <1>2 DEF Answers
<1> HIDE DEF reply
<1>4. ClientTypeInv'
  BY ClientTypeStep DEF ClientNext
<1>5. Requested' /\ Honest'
  BY <1>1, HonestKept DEF Requested
<1>6. Answered'
  <2>1. pending \in Requests => pending.utc <= utc
    <3>1. SUFFICES ASSUME pending \in Requests PROVE pending.utc <= utc
      OBVIOUS
    <3>2. pending.mono \in Nat /\ pending.utc \in Nat /\ pending.mono <= mono
          /\ utc - pending.utc = Step * (mono - pending.mono)
      BY <3>1 DEF Requested, Requests
    <3>3. mono - pending.mono \in Nat
      BY <3>2 DEF ClientTypeInv
    <3>4. Step * (mono - pending.mono) \in Nat
      BY <3>3
    <3> QED BY <1>2, <3>2, <3>4
  <2> QED BY <1>1, <1>2, <1>3, <2>1 DEF Answered
<1> QED BY <1>4, <1>5, <1>6

\* The heart of it: an answer to the request in flight makes a sample that is as good as
\* its delay says.
LEMMA AcceptStep == ASSUME ClientInv, DateIsNear, NEW a \in answers, Accept(a) PROVE ClientInv'
<1> USE DEF ClientInv
<1> DEFINE t2    == Resolve(Stamp(a.at), pending.t1)
           t3    == Resolve(Stamp(a.at), wall)
           off   == (t2 - pending.t1) + (t3 - wall)
           delay == (wall - pending.t1) - (t3 - t2)
           s     == [t |-> mono, off |-> off, delay |-> delay, sets |-> pending.sets]
<1>1. /\ pending \in Requests /\ a.nonce = pending.nonce
      /\ off \in Int /\ delay \in Int /\ s \in Measured
      /\ pending' = None
      /\ UNCHANGED <<mono, utc, wall, drift, built, out, answers, handed, sets>>
      /\ \/ UNCHANGED <<window, vclock>>
         \/ /\ window' = Pushed(s)
            /\ vclock'.lone => /\ vclock' \in Clocks /\ vclock'.at = mono
                               /\ vclock'.off = off /\ vclock'.sets = pending.sets
                               /\ vclock'.err = delay + Twice(Floor)
  BY AcceptFacts
<1>2. pending \in Requests /\ a.nonce = pending.nonce
  BY <1>1
<1>3. /\ pending.t1 \in Int /\ pending.mono \in Nat /\ pending.utc \in Nat
      /\ pending.sets \in Nat /\ a.at \in Nat
  BY <1>2 DEF Requests, ClientTypeInv, Answers
<1>6. pending.sets = sets =>
        Abs(Twice(wall) + off - Twice(utc)) <= delay + Twice(Floor)
  <2>1. SUFFICES ASSUME pending.sets = sets
                 PROVE  Abs(Twice(wall) + off - Twice(utc)) <= delay + Twice(Floor)
    OBVIOUS
  <2>2. pending.utc <= a.at /\ a.at <= utc
    BY <1>2 DEF Answered
  <2>3. /\ pending.mono <= mono /\ mono <= pending.mono + Floor
        /\ utc - pending.utc = Step * (mono - pending.mono)
        /\ Abs((wall - pending.t1) - (utc - pending.utc)) <= mono - pending.mono
        /\ Twice(Abs(pending.t1 - pending.utc) + Step * Floor) < Era
    BY <1>2, <2>1 DEF Requested
  <2>4. Step * (mono - pending.mono) <= Step * Floor
    <3>1. mono - pending.mono \in Nat /\ mono - pending.mono <= Floor
      <4>1. mono \in Nat
        BY Numbers
      <4>2. pending.mono <= mono /\ mono <= pending.mono + Floor
        BY <2>3
      <4> HIDE DEF ClientInv
      <4> QED BY <1>3, <4>1, <4>2
    <3>2. ASSUME NEW k \in Nat, k <= Floor PROVE Step * k <= Step * Floor
      BY <3>2
    <3> QED BY <3>1, <3>2
  <2>5. utc - pending.utc <= Step * Floor
    BY <2>3, <2>4
  <2>6. /\ Twice(Abs(a.at - pending.t1)) < Era
        /\ Twice(Abs(a.at - wall)) < Era
    <3>1. Step * Floor \in Nat
      OBVIOUS
    <3>2. ASSUME NEW x \in Nat, utc - pending.utc <= x,
                 Twice(Abs(pending.t1 - pending.utc) + x) < Era, Twice(Abs(wall - utc) + x) < Era
          PROVE  Twice(Abs(a.at - pending.t1)) < Era /\ Twice(Abs(a.at - wall)) < Era
      <4>1. utc \in Int /\ wall \in Int
        BY Numbers
      <4> HIDE DEF ClientInv
      <4>2. ASSUME NEW p \in Int, NEW b \in Int, b <= a.at, a.at <= utc, utc - b <= x,
                   Twice(Abs(p - b) + x) < Era
            PROVE  Twice(Abs(a.at - p)) < Era
        BY <1>3, <3>2, <4>1, <4>2 DEF Twice, Abs
      <4>3. Twice(Abs(a.at - pending.t1)) < Era
        BY <1>3, <2>2, <3>2, <4>2
      <4>4. Twice(Abs(a.at - wall)) < Era
        BY <1>3, <2>2, <3>2, <4>1 DEF Twice, Abs
      <4> QED BY <4>3, <4>4
    <3> QED BY <2>3, <2>5, <3>1, <3>2 DEF DateIsNear
  <2>7. t2 = a.at /\ t3 = a.at
    BY <1>3, <2>6, Resolved DEF ClientTypeInv
  <2>8. Abs((wall - pending.t1) - (utc - pending.utc)) <= Floor
    <3>1. /\ mono <= pending.mono + Floor
          /\ Abs((wall - pending.t1) - (utc - pending.utc)) <= mono - pending.mono
      BY <2>3
    <3>2. Abs((wall - pending.t1) - (utc - pending.utc)) \in Int /\ mono \in Int
      BY <1>3, Numbers DEF Abs
    <3> HIDE DEF ClientInv
    <3> QED BY <1>3, <3>1, <3>2
  <2>9. Abs(Twice(wall) + ((a.at - pending.t1) + (a.at - wall)) - Twice(utc))
           <= (wall - pending.t1) + Twice(Floor)
    <3>1. /\ pending.utc \in Int /\ pending.t1 \in Int /\ a.at \in Int
          /\ utc \in Int /\ wall \in Int
      BY <1>3, Numbers
    <3> HIDE DEF ClientInv
    <3> QED BY <2>2, <2>8, <3>1, SampleIsGood
  <2>10. delay = wall - pending.t1
    BY <1>3, <2>7, Numbers
  <2> QED BY <2>7, <2>9, <2>10
<1>0. pending.sets <= sets /\ mono \in Nat /\ mono - mono = 0 /\ Twice(0) = 0 /\ Twice(Floor) \in Int
  BY <1>2 DEF Requested, ClientTypeInv, Twice
<1> DEFINE bound == delay + Twice(Floor)
<1>4. s.t = mono /\ s.off = off /\ s.delay = delay /\ s.sets = pending.sets
  OBVIOUS
<1>5. bound \in Int /\ bound + 0 = bound
  <2> HIDE DEF off, delay
  <2> QED BY <1>0, <1>1
<1> HIDE DEF off, delay, s
<1>7. Honest'
  <2>1. CASE UNCHANGED <<window, vclock>>
    BY <1>1, <2>1, HonestKept
  <2>2. CASE ~ UNCHANGED <<window, vclock>>
    <3>1. window' = Pushed(s) /\ UNCHANGED <<mono, utc, wall, sets>>
      BY <1>1, <2>2
    <3>2. Good(s)
      BY <1>0, <1>4, <1>5, <1>6 DEF Good, WithinItsDelay
    <3>3. ASSUME NEW i \in DOMAIN Pushed(s) PROVE Good(Pushed(s)[i])
      BY <1>1, <3>2, PushedFacts DEF Honest, ClientTypeInv
    <3>4. ASSUME NEW i \in DOMAIN window' PROVE Good(window[i])'
      BY <3>1, <3>3 DEF Good, WithinItsDelay
    <3>5. ASSUME vclock'.lone
          PROVE  /\ vclock'.at <= mono' /\ vclock'.sets <= sets'
                 /\ vclock'.sets = sets' => Abs(Twice(wall') + vclock'.off - Twice(utc'))
                                              <= vclock'.err + Twice(mono' - vclock'.at)
      BY <1>0, <1>1, <1>5, <1>6, <2>2, <3>1, <3>5
    <3> QED BY <3>4, <3>5 DEF Honest
  <2> QED BY <2>1, <2>2
<1>8. Requested' /\ Answered'
  BY <1>1, NoneIsNoRequest DEF Requested, Answered
<1>9. ClientTypeInv'
  BY ClientTypeStep DEF ClientNext
<1> QED BY <1>7, <1>8, <1>9

LEMMA StillStep == ASSUME ClientInv, Now \/ UNCHANGED clientVars PROVE ClientInv'
<1>1. UNCHANGED <<mono, utc, wall, drift, pending, built, out, answers, window, vclock, sets>>
  BY DEF Now, clientVars
<1>2. ClientTypeInv'
  BY ClientTypeStep DEF ClientInv, ClientNext
<1> QED BY <1>1, <1>2, HonestKept DEF ClientInv, Requested, Answered

LEMMA ClientStepInv == ClientInv /\ DateIsNear /\ [ClientNext]_clientVars => ClientInv'
<1> SUFFICES ASSUME ClientInv, DateIsNear, [ClientNext]_clientVars PROVE ClientInv'
  OBVIOUS
<1>1. CASE \E a \in answers : Reject(a) \/ Accept(a)
  BY <1>1, AcceptStep, StillStep DEF Reject
<1>2. CASE \E n \in out : (\E usable \in BOOLEAN : Serve(n, usable)) \/ Lose(n)
  BY <1>2, ServeStep, LoseStep
<1> QED BY <1>1, <1>2, TickStep, SetDateStep, BuildStep, StillStep DEF ClientNext

-----------------------------------------------------------------------------
\* Every sample in the register, of the first three answers or the last sixteen of many, is
\* as near to the true time as its delay says, and so is what the page is told before there
\* are three; after answers lost, late, repeated or in any order and over a change of era, for
\* as long as the date the browser keeps is within half an era (process_response,
\* ntp_to_unix_near, confidence).
THEOREM SamplesAreGood == ClientSpec /\ []DateIsNear => []SamplesAreHonest
<1>1. ClientInv => SamplesAreHonest
  <2> SUFFICES ASSUME ClientInv PROVE SamplesAreHonest
    OBVIOUS
  <2>1. ASSUME NEW i \in DOMAIN window, window[i].sets = sets PROVE WithinItsDelay(window[i])
    BY <2>1 DEF ClientInv, Honest, Good
  <2>2. ASSUME vclock.lone, vclock.sets = sets PROVE Abs(Corrected - Twice(utc)) <= Confidence
    <3>1. vclock # Never
      BY <2>2 DEF Never
    <3>2. /\ vclock.off \in Int /\ vclock.err \in Int /\ vclock.at \in Int
          /\ mono \in Int /\ wall \in Int /\ utc \in Int
      BY <2>2 DEF ClientInv, ClientTypeInv, Clocks
    <3>3. Corrected = Twice(wall) + vclock.off
      BY <3>1 DEF Corrected
    <3>4. Abs(Twice(wall) + vclock.off - Twice(utc)) <= vclock.err + Twice(mono - vclock.at)
      <4>1. Honest
        BY DEF ClientInv
      <4> QED BY <2>2, <4>1 DEF Honest
    <3> QED BY <3>2, <3>3, <3>4 DEF Confidence, Abs, Twice
  <2> QED BY <2>1, <2>2 DEF SamplesAreHonest
<1> QED BY <1>1, ClientInitInv, ClientStepInv, PTL DEF ClientSpec

HIDE TimeAssumption

-----------------------------------------------------------------------------
(***************************************************************************)
(* The report on the control socket, for any poll interval, offsets, error *)
(* bounds and rate of the drain, and for any number of polls and           *)
(* connections.                                                            *)
(***************************************************************************)
USE TrackingAssumption

-----------------------------------------------------------------------------
(* What every step keeps.  While a drain is in force the clock may be off by
   all that is still owed, so the property is inductive only with the error
   that will be left when the drain is over (Accounted): it is that error
   which the published bound and the age bound.                            *)

Reports == [synchronized : BOOLEAN, offset : Int, bound : Nat]

ReportTypeInv ==
    /\ error \in Int /\ drain \in {-1, 0, 1} /\ owed \in Nat
    /\ report \in Reports /\ age \in Nat
    /\ stalled \in BOOLEAN /\ overrun \in BOOLEAN /\ poisoned \in BOOLEAN

\* What the clock will be off by once what is owed is paid.
Settled == IF drain = 0 THEN error ELSE IF drain = 1 THEN error + owed ELSE error - owed

Trusted == ~ poisoned /\ ~ overrun /\ report.synchronized

Accounted ==
    Trusted => /\ Size(error) <= Size(report.offset) + report.bound + age
               /\ drain # 0 => /\ Size(Settled) <= report.bound + age
                               /\ owed <= Size(report.offset)

ReportInv == ReportTypeInv /\ Accounted

LEMMA ReportInitInv == ReportInit => ReportInv
<1> SUFFICES ASSUME ReportInit PROVE ReportInv
  OBVIOUS
<1>1. report \in Reports /\ report.synchronized = FALSE
  BY DEF ReportInit, Unsynchronized, Reports
<1>2. ReportTypeInv
  BY <1>1 DEF ReportInit, ReportTypeInv
<1>3. Accounted
  BY <1>1 DEF Accounted, Trusted
<1> QED BY <1>2, <1>3 DEF ReportInv

\* A poll: it publishes what it has measured, and moves the clock or starts to.
LEMMA SteerStep ==
    ASSUME ReportInv, NEW offset \in Offsets, NEW bound \in Bounds, NEW reached \in BOOLEAN,
           Steer(offset, bound, reached)
    PROVE  ReportInv'
<1>1. offset \in Int /\ bound \in Nat /\ Size(error - offset) <= bound
  BY DEF Steer
<1>2. UNCHANGED <<stalled, poisoned>> /\ overrun' = (overrun /\ poisoned)
  BY DEF Steer
<1>3. /\ poisoned  => UNCHANGED <<report, age>>
      /\ ~ poisoned => /\ report' = [synchronized |-> reached, offset |-> offset, bound |-> bound]
                       /\ age' = 0
  BY DEF Steer, Publish
<1>4. \/ reached /\ error' = error - offset /\ drain' = 0 /\ owed' = 0
      \/ reached /\ error' = error /\ owed' = Size(offset)
                 /\ drain' = (IF offset > 0 THEN -1 ELSE IF offset < 0 THEN 1 ELSE 0)
      \/ ~ reached /\ error' = error /\ drain' = 0 /\ owed' = 0
      \/ ~ reached /\ UNCHANGED <<error, drain, owed>>
  BY DEF Steer, Correction
<1>5. ReportTypeInv'
  <2>1. report' \in Reports /\ age' \in Nat
    BY <1>1, <1>3 DEF ReportInv, ReportTypeInv, Reports
  <2>2. error' \in Int /\ drain' \in {-1, 0, 1} /\ owed' \in Nat
    BY <1>1, <1>4 DEF ReportInv, ReportTypeInv, Size
  <2> QED BY <1>2, <2>1, <2>2 DEF ReportInv, ReportTypeInv
<1>6. Accounted'
  <2>1. SUFFICES ASSUME Trusted'
                 PROVE  /\ Size(error') <= Size(report'.offset) + report'.bound + age'
                        /\ drain' # 0 => /\ Size(Settled') <= report'.bound + age'
                                         /\ owed' <= Size(report'.offset)
    BY DEF Accounted, Size
  <2>2. reached /\ report'.offset = offset /\ report'.bound = bound /\ age' = 0
    BY <1>2, <1>3, <2>1 DEF Trusted
  <2>3. CASE error' = error - offset /\ drain' = 0 /\ owed' = 0
    BY <1>1, <2>2, <2>3 DEF Size, ReportInv, ReportTypeInv
  <2>4. CASE error' = error /\ owed' = Size(offset)
             /\ drain' = (IF offset > 0 THEN -1 ELSE IF offset < 0 THEN 1 ELSE 0)
    BY <1>1, <2>2, <2>4 DEF Size, Settled, ReportInv, ReportTypeInv
  <2> QED BY <1>4, <2>2, <2>3, <2>4
<1> QED BY <1>5, <1>6 DEF ReportInv

\* Paying what is owed moves the clock by no more than that.
LEMMA Triangle ==
    ASSUME NEW e \in Int, NEW o \in Nat, NEW s \in {e, e + o, e - o}
    PROVE  Size(e) <= Size(s) + o
<1>1. CASE s = e
  BY <1>1 DEF Size
<1>2. CASE s = e + o
  BY <1>2 DEF Size
<1>3. CASE s = e - o
  BY <1>3 DEF Size
<1> QED BY <1>1, <1>2, <1>3

\* A tick: the drain pays what it moves the clock by, and the oscillator wanders by no
\* more than the bound ages.
LEMMA PassStep ==
    ASSUME ReportInv, NEW wander \in -1..1, Pass(wander)
    PROVE  ReportInv'
<1> DEFINE moved == IF drain = 0 THEN 0
                    ELSE IF stalled THEN DrainRate ELSE Least(DrainRate, owed)
           rest  == IF owed > moved THEN owed - moved ELSE 0
<1>1. /\ error' = error + drain * moved + wander
      /\ owed' = rest /\ age' = age + 1
      /\ overrun' = (overrun \/ moved > owed)
      /\ drain' = (IF rest = 0 /\ ~ stalled THEN 0 ELSE drain)
      /\ UNCHANGED <<report, stalled, poisoned>>
  BY DEF Pass
<1>2. moved \in Nat /\ rest \in Nat
  BY DEF ReportInv, ReportTypeInv, Least
<1>3. drain = 0 => moved = 0
  OBVIOUS
<1> HIDE DEF moved, rest
<1>4. /\ drain = 0  => error' = error + wander
      /\ drain = 1  => error' = error + moved + wander
      /\ drain = -1 => error' = error - moved + wander
  BY <1>1, <1>2, <1>3 DEF ReportInv, ReportTypeInv
<1>5. ReportTypeInv'
  <2>1. error' \in Int
    BY <1>2, <1>4 DEF ReportInv, ReportTypeInv
  <2> QED BY <1>1, <1>2, <2>1 DEF ReportInv, ReportTypeInv
<1>6. Accounted'
  <2>1. SUFFICES ASSUME Trusted'
                 PROVE  /\ Size(error') <= Size(report'.offset) + report'.bound + age'
                        /\ drain' # 0 => /\ Size(Settled') <= report'.bound + age'
                                         /\ owed' <= Size(report'.offset)
    BY DEF Accounted, Size
  <2>2. /\ Trusted /\ moved <= owed /\ owed' = owed - moved
    <3>1. Trusted /\ ~ (moved > owed)
      BY <1>1, <2>1 DEF Trusted
    <3>2. rest = owed - moved
      BY <1>2, <3>1 DEF rest, ReportInv, ReportTypeInv
    <3> QED BY <1>1, <1>2, <3>1, <3>2 DEF ReportInv, ReportTypeInv
  <2>3. report.offset \in Int /\ report.bound \in Nat
    BY DEF ReportInv, ReportTypeInv, Reports
  <2>4. CASE drain = 0
    BY <1>1, <1>4, <2>2, <2>3, <2>4 DEF ReportInv, ReportTypeInv, Accounted, Size
  <2>5. CASE drain # 0
    <3>1. drain' = drain \/ (drain' = 0 /\ owed' = 0)
      BY <1>1
    <3>2. Size(Settled) <= report.bound + age /\ owed <= Size(report.offset)
      BY <2>2, <2>5 DEF ReportInv, Accounted
    <3>3. Settled' = Settled + wander
      BY <1>2, <1>4, <2>2, <2>5, <3>1 DEF ReportInv, ReportTypeInv, Settled
    <3>4. Settled \in Int /\ Size(Settled') <= report.bound + age + 1
      BY <2>3, <3>2, <3>3 DEF ReportInv, ReportTypeInv, Settled, Size
    <3>5. Size(error') <= Size(Settled') + owed'
      <4>1. error' \in Int /\ owed' \in Nat /\ drain' \in {-1, 0, 1}
        BY <1>5 DEF ReportTypeInv
      <4>2. Settled' \in {error', error' + owed', error' - owed'}
        BY <4>1 DEF Settled
      <4> QED BY <4>1, <4>2, Triangle
    <3>6. owed' <= Size(report.offset)
      BY <1>2, <2>2, <2>3, <3>2 DEF ReportInv, ReportTypeInv, Size
    <3>7. Settled' \in Int
      BY <3>3, <3>4
    <3> QED BY <1>1, <1>5, <2>3, <3>4, <3>5, <3>6, <3>7 DEF ReportInv, ReportTypeInv, Size
  <2> QED BY <2>4, <2>5
<1> QED BY <1>5, <1>6 DEF ReportInv

\* Hold ends a drain, a stall and a panic leave it, and the connections only read.
LEMMA OtherStep ==
    ASSUME ReportInv, \/ Hold \/ Stall \/ Panic \/ UNCHANGED reportVars
                \/ \E c \in Clients : (\E op \in Ops : Request(c, op)) \/ Respond(c) \/ Leave(c)
    PROVE  ReportInv'
<1>1. CASE Hold
  <2>1. ReportTypeInv'
    BY <1>1 DEF Hold, ReportInv, ReportTypeInv
  <2>2. Accounted'
    BY <1>1 DEF Hold, ReportInv, Accounted, Trusted, Size
  <2> QED BY <2>1, <2>2 DEF ReportInv
<1>2. CASE Stall
  BY <1>2 DEF Stall, ReportInv, ReportTypeInv, Accounted, Trusted, Settled, Size
<1>3. CASE Panic
  BY <1>3 DEF Panic, ReportInv, ReportTypeInv, Accounted, Trusted
<1>4. CASE UNCHANGED reportVars
  BY <1>4 DEF reportVars, ReportInv, ReportTypeInv, Accounted, Trusted, Settled, Size
<1>5. CASE \E c \in Clients : (\E op \in Ops : Request(c, op)) \/ Respond(c) \/ Leave(c)
  <2>1. UNCHANGED <<error, drain, owed, report, age, stalled, overrun, steers, poisoned>>
    BY <1>5 DEF Request, Respond, Leave
  <2> QED BY <2>1 DEF ReportInv, ReportTypeInv, Accounted, Trusted, Settled, Size
<1> QED BY <1>1, <1>2, <1>3, <1>4, <1>5

LEMMA ReportStepInv == ReportInv /\ [ReportNext]_reportVars => ReportInv'
BY SteerStep, PassStep, OtherStep DEF ReportNext

-----------------------------------------------------------------------------
\* Whoever asks while the report says that the clock is synchronized is told no less than
\* the clock is off by, unless the loop got stuck with a drain in force: for any poll
\* interval, rate of the drain and age of the report (snapshot, STALE_DRIFT_PPM).
THEOREM ReportsAreHonest == ReportSpec => []ReportIsHonest
<1>1. ReportInv => ReportIsHonest
  <2> SUFFICES ASSUME ReportInv, AnswerTo("Tracking").kind = "Tracking", ~ overrun,
                      AnswerTo("Tracking").report.synchronized
               PROVE  Size(error) <= Size(AnswerTo("Tracking").report.offset)
                                     + AnswerTo("Tracking").report.bound
    BY DEF ReportIsHonest
  <2>1. ~ poisoned /\ AnswerTo("Tracking") = [kind |-> "Tracking", report |-> Snapshot]
    BY DEF AnswerTo
  <2>2. /\ Snapshot.synchronized => report.synchronized
        /\ Snapshot.offset = report.offset /\ Snapshot.bound = report.bound + age
    BY DEF Snapshot, ReportInv, ReportTypeInv, Reports
  <2>3. Trusted
    BY <2>1, <2>2 DEF Trusted
  <2>4. Size(error) <= Size(report.offset) + report.bound + age
    BY <2>3 DEF ReportInv, Accounted
  <2>5. Size(report.offset) \in Int /\ report.bound \in Nat /\ age \in Nat
    BY DEF ReportInv, ReportTypeInv, Reports, Size
  <2> QED BY <2>1, <2>2, <2>4, <2>5
<1> QED BY <1>1, ReportInitInv, ReportStepInv, PTL DEF ReportSpec

HIDE TrackingAssumption

-----------------------------------------------------------------------------
(***************************************************************************)
(* Positions: the elements that pass a test, in their order.               *)
(***************************************************************************)

\* There is an i-th position for every i up to the number of them, and two are not the same.
LEMMA NthFacts ==
    ASSUME NEW S \in SUBSET Int, IsFiniteSet(S), NEW i \in 1..Cardinality(S)
    PROVE  Nth(S, i) \in S /\ Cardinality({j \in S : j <= Nth(S, i)}) = i
<1> DEFINE upTo(k) == {j \in S : j <= k}
           rank(k) == Cardinality(upTo(k))
           ranks   == {rank(k) : k \in S}
<1>0. Cardinality(S) \in Nat /\ \A z \in S : z \in Int
  BY FS_CardinalityType
<1>1. ASSUME NEW k \in S PROVE rank(k) \in 1..Cardinality(S)
  <2>1. upTo(k) \subseteq S /\ k \in upTo(k)
    BY <1>0
  <2> HIDE DEF upTo
  <2>2. IsFiniteSet(upTo(k)) /\ rank(k) <= Cardinality(S)
    BY <2>1, FS_Subset
  <2>3. rank(k) \in Nat /\ rank(k) # 0
    BY <2>1, <2>2, FS_CardinalityType, FS_EmptySet
  <2> HIDE DEF rank
  <2> QED BY <1>0, <2>2, <2>3
<1>2. ASSUME NEW k \in S, NEW l \in S, k < l PROVE rank(k) # rank(l)
  <2>1. upTo(k) \subseteq upTo(l) /\ l \in upTo(l) /\ l \notin upTo(k) /\ upTo(l) \subseteq S
    <3>1. k \in Int /\ l \in Int /\ l <= l /\ ~ (l <= k)
      BY <1>0, <1>2
    <3>2. \A j \in S : j <= k => j <= l
      BY <1>0, <1>2, <3>1
    <3> QED BY <3>1, <3>2
  <2> HIDE DEF upTo
  <2>2. IsFiniteSet(upTo(l))
    BY <2>1, FS_Subset
  <2> QED BY <2>1, <2>2, FS_Subset
<1> HIDE DEF rank
<1>3. [k \in S |-> rank(k)] \in Bijection(S, ranks)
  <2>1. \A k, l \in S : rank(k) = rank(l) => k = l
    BY <1>2
  <2> QED BY <2>1 DEF Bijection, Injection, Surjection, IsInjective
<1>4. Cardinality(ranks) = Cardinality(S)
  <2> HIDE DEF ranks
  <2> QED BY <1>3, FS_Bijection DEF ExistsBijection
<1>5. ranks \subseteq 1..Cardinality(S)
  BY <1>1
<1>6. IsFiniteSet(1..Cardinality(S)) /\ Cardinality(1..Cardinality(S)) = Cardinality(S)
  <2> DEFINE n == Cardinality(S)
  <2> HIDE DEF n
  <2>1. n \in Nat => IsFiniteSet(1..n) /\ Cardinality(1..n) = n
    BY FS_Interval
  <2> QED BY <1>0, <2>1 DEF n
<1>7. ranks = 1..Cardinality(S)
  <2> HIDE DEF ranks
  <2> QED BY <1>4, <1>5, <1>6, FS_Subset
<1>8. \E k \in S : rank(k) = i
  BY <1>7
<1> QED BY <1>8 DEF Nth, rank

LEMMA NthIsOneOf ==
    ASSUME NEW S \in SUBSET Int, IsFiniteSet(S)
    PROVE  /\ \A i \in 1..Cardinality(S) : Nth(S, i) \in S
           /\ \A i, j \in 1..Cardinality(S) : Nth(S, i) = Nth(S, j) => i = j
<1>1. ASSUME NEW i \in 1..Cardinality(S)
      PROVE  Nth(S, i) \in S /\ Cardinality({k \in S : k <= Nth(S, i)}) = i
  BY NthFacts
<1>2. ASSUME NEW i \in 1..Cardinality(S), NEW j \in 1..Cardinality(S), Nth(S, i) = Nth(S, j)
      PROVE  i = j
  <2>1. /\ Cardinality({k \in S : k <= Nth(S, i)}) = i
        /\ Cardinality({k \in S : k <= Nth(S, j)}) = j
    BY <1>1
  <2> QED BY <1>2, <2>1
<1> QED BY <1>1, <1>2

\* Of an interval, the first is its lower end and so on.
LEMMA NthOfInterval ==
    ASSUME NEW a \in Int, NEW b \in Int, NEW i \in 1..(b - a + 1)
    PROVE  Nth(a..b, i) = a + i - 1
<1> DEFINE rank(k) == Cardinality({j \in a..b : j <= k})
<1>1. ASSUME NEW k \in a..b PROVE rank(k) = k - a + 1
  <2>1. {j \in a..b : j <= k} = a..k
    OBVIOUS
  <2>2. Cardinality(a..k) = k - a + 1
    BY FS_Interval
  <2> QED BY <2>1, <2>2
<1> HIDE DEF rank
<1>2. a + i - 1 \in a..b /\ \A k \in a..b : rank(k) = i <=> k = a + i - 1
  BY <1>1
<1> QED BY <1>2 DEF Nth, rank

LEMMA IntervalFacts ==
    ASSUME NEW n \in Nat
    PROVE  IsFiniteSet(1..n) /\ Cardinality(1..n) = n /\ \A i \in 1..n : Nth(1..n, i) = i
<1>1. IsFiniteSet(1..n) /\ Cardinality(1..n) = n
  BY FS_Interval
<1> QED BY <1>1, NthOfInterval

-----------------------------------------------------------------------------
(***************************************************************************)
(* The server's socket, for batches of any size and any number of clients   *)
(* and datagrams.                                                           *)
(***************************************************************************)
USE DatagramsAssumption

(* What every step keeps.  AnswersGoHome speaks of what left; it is inductive only with
   what is on its way: the datagrams in the socket, in the buffers of the batch and in
   the replies built are different ones and none of them was answered. *)

Packets == [peer : Peers, nr : Nat]
NetReplies == [to : Peers, request : Packets]

NetTypeInv ==
    /\ way \in Ways /\ arrived \in Nat /\ counted \in Nat /\ noted \subseteq Nat
    /\ queue \in Seq(Packets)
    /\ bufs \in [1..BatchSize -> Packets \cup {NoPacket}]
    /\ addrs \in [1..BatchSize -> Peers \cup {Nobody}]
    /\ received \in Seq(Peers) /\ Len(received) <= BatchSize
    /\ replies \in Seq(NetReplies) /\ left \in Seq(NetReplies)
    /\ loop \in {"receive", "build", "send", "note"}

Queued == {queue[i].nr : i \in 1..Len(queue)}
Sent   == {left[i].request.nr : i \in 1..Len(left)}
InHand == IF loop = "build" THEN {bufs[i].nr : i \in 1..Len(received)}
          ELSE IF loop = "send" THEN {replies[i].request.nr : i \in 1..Len(replies)} ELSE {}

\* A datagram is in one place.
OnceInv ==
    /\ \A i, j \in 1..Len(queue) : queue[i].nr = queue[j].nr => i = j
    /\ \A i, j \in 1..Len(left) : left[i].request.nr = left[j].request.nr => i = j
    /\ loop = "build" => \A i, j \in 1..Len(received) : bufs[i].nr = bufs[j].nr => i = j
    /\ loop = "send"  => \A i, j \in 1..Len(replies) :
                            replies[i].request.nr = replies[j].request.nr => i = j
    /\ Queued \subseteq 0..arrived /\ InHand \subseteq 0..arrived /\ Sent \subseteq 0..arrived
    /\ Queued \cap InHand = {} /\ Queued \cap Sent = {} /\ InHand \cap Sent = {}

\* The addresses reported are those of the buffers, and a reply keeps the two together.
HomeInv ==
    /\ loop = "build" => \A i \in 1..Len(received) : bufs[i] \in Packets /\ received[i] = bufs[i].peer
    /\ \A i \in 1..Len(replies) : replies[i].to = replies[i].request.peer
    /\ \A i \in 1..Len(left) : left[i].to = left[i].request.peer

\* What left was noted, or is about to be; without batches there is one reply at most.
NotedInv ==
    /\ loop # "note" => noted = Sent
    /\ loop = "note" => /\ counted <= Len(replies)
                        /\ noted \cup {replies[i].request.nr : i \in 1..counted} = Sent
    /\ way = "other" => /\ loop = "build" => Len(received) <= 1
                        /\ loop = "send" => Len(replies) <= 1

NetInv == NetTypeInv /\ OnceInv /\ HomeInv /\ NotedInv

LEMMA NetInitInv == NetInit => NetInv
<1> SUFFICES ASSUME NetInit PROVE NetInv
  OBVIOUS
<1> USE DEF NetInit
<1>1. NetTypeInv
  BY DEF NetTypeInv
<1>2. Queued = {} /\ Sent = {} /\ InHand = {}
  BY DEF Queued, Sent, InHand
<1> QED BY <1>1, <1>2 DEF NetInv, OnceInv, HomeInv, NotedInv

LEMMA DatagramInv ==
    ASSUME NetInv, NEW p \in Peers, Datagram(p)
    PROVE  NetInv'
<1> USE DEF NetInv
<1> DEFINE d == [peer |-> p, nr |-> arrived + 1]
<1>1. /\ arrived' = arrived + 1 /\ queue' = Append(queue, d)
      /\ UNCHANGED <<way, bufs, addrs, received, replies, left, counted, noted, loop>>
  BY DEF Datagram
<1>2. d \in Packets /\ d.nr = arrived + 1 /\ arrived \in Nat
  BY DEF NetTypeInv, Packets
<1> HIDE DEF d
<1>3. NetTypeInv'
  BY <1>1, <1>2 DEF NetTypeInv
<1>4. /\ Len(queue') = Len(queue) + 1 /\ Len(queue) \in Nat
      /\ queue'[Len(queue) + 1] = d /\ \A i \in 1..Len(queue) : queue'[i] = queue[i]
  BY <1>1, <1>2 DEF NetTypeInv
<1>5. Queued' = Queued \cup {arrived + 1}
  BY <1>2, <1>4 DEF Queued
<1>6. Sent' = Sent /\ InHand' = InHand
  BY <1>1 DEF Sent, InHand
<1>7. OnceInv'
  <2>1. \A i \in 1..Len(queue) : queue[i].nr # arrived + 1
    <3>1. Queued \subseteq 0..arrived
      BY DEF OnceInv
    <3>2. \A i \in 1..Len(queue) : queue[i].nr \in Queued
      BY DEF Queued
    <3> HIDE DEF NetInv
    <3> QED BY <1>2, <3>1, <3>2
  <2>2. \A i, j \in 1..Len(queue') : queue'[i].nr = queue'[j].nr => i = j
    BY <1>2, <1>4, <2>1 DEF OnceInv
  <2>3. arrived + 1 \notin InHand /\ arrived + 1 \notin Sent
    BY <1>2 DEF OnceInv
  <2> QED BY <1>1, <1>2, <1>5, <1>6, <2>2, <2>3 DEF OnceInv
<1>8. HomeInv' /\ NotedInv'
  BY <1>1, <1>6 DEF HomeInv, NotedInv
<1> QED BY <1>3, <1>7, <1>8

LEMMA FillInv ==
    ASSUME NetInv, loop = "receive", NEW n \in Nat, n >= 1, n <= BatchSize, n <= Len(queue),
           way = "other" => n <= 1, Fill(n)
    PROVE  NetInv'
<1> USE DEF NetInv
<1>1. /\ bufs'  = [i \in 1..BatchSize |-> IF i <= n THEN queue[i] ELSE bufs[i]]
      /\ addrs' = [i \in 1..BatchSize |-> IF i <= n THEN queue[i].peer ELSE addrs[i]]
      /\ queue' = SubSeq(queue, n + 1, Len(queue))
      /\ received' = Pick(addrs', {i \in 1..n : addrs'[i] # Nobody})
      /\ loop' = "build"
      /\ UNCHANGED <<way, arrived, replies, left, counted, noted>>
  BY DEF Fill, Report
<1>2. Len(queue) \in Nat /\ \A i \in 1..Len(queue) : queue[i] \in Packets
  BY DEF NetTypeInv
<1>3. \A i \in 1..n : /\ bufs'[i] = queue[i] /\ bufs'[i] \in Packets
                      /\ addrs'[i] = bufs'[i].peer /\ addrs'[i] \in Peers
  BY <1>1, <1>2 DEF Packets
<1>4. received' = [i \in 1..n |-> addrs'[i]]
  <2>1. {i \in 1..n : addrs'[i] # Nobody} = 1..n
    BY <1>3
  <2>2. received' = [i \in 1..Cardinality(1..n) |-> addrs'[Nth(1..n, i)]]
    <3>1. received' = Pick(addrs', 1..n)
      BY <1>1, <2>1
    <3> QED BY <3>1 DEF Pick
  <2>3. Cardinality(1..n) = n /\ \A i \in 1..n : Nth(1..n, i) = i
    BY IntervalFacts
  <2> QED BY <2>2, <2>3
<1>5. Len(received') = n /\ received' \in Seq(Peers) /\ \A i \in 1..n : received'[i] = bufs'[i].peer
  BY <1>3, <1>4
<1>6. /\ queue' \in Seq(Packets) /\ Len(queue') = Len(queue) - n
      /\ \A i \in 1..Len(queue') : queue'[i] = queue[n + i]
  BY <1>1, <1>2 DEF NetTypeInv
<1>7. NetTypeInv'
  <2>1. ASSUME NEW i \in 1..BatchSize
        PROVE  bufs'[i] \in Packets \cup {NoPacket} /\ addrs'[i] \in Peers \cup {Nobody}
    <3>1. CASE i <= n
      BY <1>3, <3>1
    <3>2. CASE ~ (i <= n)
      BY <1>1, <3>2 DEF NetTypeInv
    <3> QED BY <3>1, <3>2
  <2>2. bufs' \in [1..BatchSize -> Packets \cup {NoPacket}] /\ addrs' \in [1..BatchSize -> Peers \cup {Nobody}]
    BY <1>1, <2>1
  <2> QED BY <1>1, <1>5, <1>6, <2>2 DEF NetTypeInv
<1>8. InHand' = {queue[i].nr : i \in 1..n} /\ Sent' = Sent
  <2>1. InHand' = {bufs'[i].nr : i \in 1..n}
    BY <1>1, <1>5 DEF InHand
  <2>2. {bufs'[i].nr : i \in 1..n} = {queue[i].nr : i \in 1..n}
    BY <1>3
  <2>3. Sent' = Sent
    BY <1>1 DEF Sent
  <2> QED BY <2>1, <2>2, <2>3
<1>9. Queued' = {queue[n + i].nr : i \in 1..(Len(queue) - n)}
  BY <1>6 DEF Queued
<1>10. OnceInv'
  <2>1. InHand' \subseteq Queued /\ Queued' \subseteq Queued
    <3>1. /\ \A i \in 1..n : i \in 1..Len(queue)
          /\ \A i \in 1..(Len(queue) - n) : n + i \in 1..Len(queue)
      BY <1>2
    <3> QED BY <1>8, <1>9, <3>1 DEF Queued
  <2>0. \A i, j \in 1..Len(queue) : queue[i].nr = queue[j].nr => i = j
    BY DEF OnceInv
  <2>2. Queued' \cap InHand' = {}
    <3> HIDE DEF NetInv
    <3> SUFFICES ASSUME NEW i \in 1..(Len(queue) - n), NEW j \in 1..n, queue[n + i].nr = queue[j].nr
                 PROVE  FALSE
      BY <1>8, <1>9
    <3>1. n + i \in 1..Len(queue) /\ j \in 1..Len(queue) /\ n + i # j
      BY <1>2
    <3> QED BY <2>0, <3>1
  <2>3. \A i, j \in 1..Len(queue') : queue'[i].nr = queue'[j].nr => i = j
    <3> HIDE DEF NetInv
    <3> SUFFICES ASSUME NEW i \in 1..Len(queue'), NEW j \in 1..Len(queue'), queue'[i].nr = queue'[j].nr
                 PROVE  i = j
      OBVIOUS
    <3>1. n + i \in 1..Len(queue) /\ n + j \in 1..Len(queue) /\ queue[n + i].nr = queue[n + j].nr
      BY <1>2, <1>6
    <3>2. n + i = n + j
      BY <2>0, <3>1
    <3> QED BY <3>2
  <2>4. \A i, j \in 1..Len(received') : bufs'[i].nr = bufs'[j].nr => i = j
    BY <1>2, <1>3, <1>5 DEF OnceInv
  <2> QED BY <1>1, <1>8, <2>1, <2>2, <2>3, <2>4 DEF OnceInv
<1>11. HomeInv' /\ NotedInv'
  BY <1>1, <1>3, <1>5, <1>8 DEF HomeInv, NotedInv
<1> QED BY <1>7, <1>10, <1>11

LEMMA BuildRepliesInv ==
    ASSUME NetInv, BuildReplies
    PROVE  NetInv'
<1> USE DEF NetInv
<1> DEFINE asBuilt == [i \in 1..Len(received) |-> [to |-> received[i], request |-> bufs[i]]]
<1>1. PICK answered \in SUBSET (1..Len(received)) : replies' = Pick(asBuilt, answered)
  <2>1. DOMAIN received = 1..Len(received)
    BY DEF NetTypeInv
  <2> QED BY <2>1 DEF BuildReplies
<1>2. /\ loop = "build" /\ loop' \in {"receive", "send"}
      /\ UNCHANGED <<way, queue, arrived, bufs, addrs, received, left, counted, noted>>
  BY DEF BuildReplies
<1> DEFINE m == Cardinality(answered)
<1>3. /\ IsFiniteSet(answered) /\ m \in Nat /\ m <= Len(received) /\ answered \in SUBSET Int
      /\ Len(received) \in Nat
  <2>1. Len(received) \in Nat
    BY DEF NetTypeInv
  <2>2. IsFiniteSet(1..Len(received)) /\ Cardinality(1..Len(received)) = Len(received)
    BY <2>1, IntervalFacts
  <2>3. IsFiniteSet(answered) /\ Cardinality(answered) <= Len(received)
    BY <2>2, FS_Subset
  <2> QED BY <2>1, <2>3, FS_CardinalityType
<1>4. /\ \A i \in 1..m : Nth(answered, i) \in 1..Len(received)
      /\ \A i, j \in 1..m : Nth(answered, i) = Nth(answered, j) => i = j
  BY <1>3, NthIsOneOf
<1> HIDE DEF m
<1>5. replies' = [i \in 1..m |-> asBuilt[Nth(answered, i)]]
  BY <1>1 DEF Pick, m
<1>6. ASSUME NEW k \in 1..Len(received)
      PROVE  /\ asBuilt[k] \in NetReplies /\ asBuilt[k].to = asBuilt[k].request.peer
             /\ asBuilt[k].request = bufs[k]
  BY <1>2 DEF HomeInv, NetTypeInv, NetReplies
<1> HIDE DEF asBuilt
<1>7. replies' \in Seq(NetReplies) /\ Len(replies') = m
  BY <1>3, <1>4, <1>5, <1>6
<1>8. ASSUME NEW i \in 1..m
      PROVE  /\ replies'[i].to = replies'[i].request.peer
             /\ replies'[i].request = bufs[Nth(answered, i)]
             /\ replies'[i].request.nr \in InHand
  <2>1. replies'[i] = asBuilt[Nth(answered, i)]
    BY <1>5
  <2> QED BY <1>2, <1>4, <1>6, <2>1 DEF InHand
<1>9. NetTypeInv'
  BY <1>2, <1>7 DEF NetTypeInv
<1>10. Sent' = Sent /\ Queued' = Queued /\ InHand' \subseteq InHand
  BY <1>2, <1>7, <1>8 DEF Sent, Queued, InHand
<1>11. \A i, j \in 1..m : replies'[i].request.nr = replies'[j].request.nr => i = j
  BY <1>2, <1>4, <1>8 DEF OnceInv
<1>12. OnceInv'
  BY <1>2, <1>7, <1>10, <1>11 DEF OnceInv
<1>13. HomeInv'
  BY <1>2, <1>7, <1>8 DEF HomeInv
<1>14. NotedInv'
  BY <1>2, <1>3, <1>7, <1>10 DEF NotedInv
<1> QED BY <1>9, <1>12, <1>13, <1>14

LEMMA DepartInv ==
    ASSUME NetInv, loop = "send", NEW n \in 0..Len(replies), Depart(n, n)
    PROVE  NetInv'
<1> USE DEF NetInv
<1>1. /\ left' = left \o First(replies, n) /\ counted' = n
      /\ loop' = IF n = 0 THEN "receive" ELSE "note"
      /\ UNCHANGED <<way, queue, arrived, bufs, addrs, received, replies, noted>>
  BY DEF Depart
<1>2. /\ Len(replies) \in Nat /\ Len(left) \in Nat /\ n \in Nat
      /\ First(replies, n) \in Seq(NetReplies) /\ Len(First(replies, n)) = n
      /\ \A i \in 1..n : First(replies, n)[i] = replies[i]
  BY DEF NetTypeInv, First
<1>3. /\ left' \in Seq(NetReplies) /\ Len(left') = Len(left) + n
      /\ \A i \in 1..Len(left) : left'[i] = left[i]
      /\ \A i \in 1..n : left'[Len(left) + i] = replies[i]
  <2> DEFINE more == First(replies, n)
  <2>1. left \in Seq(NetReplies) /\ more \in Seq(NetReplies) /\ Len(more) = n /\ left' = left \o more
    BY <1>1, <1>2 DEF NetTypeInv
  <2> HIDE DEF more
  <2>2. left' \in Seq(NetReplies) /\ Len(left') = Len(left) + n
    BY <2>1, ConcatProperties
  <2>3. \A i \in 1..Len(left) : left'[i] = left[i]
    BY <1>2, <2>1
  <2>4. \A i \in 1..n : left'[Len(left) + i] = more[i]
    BY <1>2, <2>1
  <2> QED BY <1>2, <2>2, <2>3, <2>4 DEF more
<1>4. NetTypeInv'
  BY <1>1, <1>2, <1>3 DEF NetTypeInv
<1>5. \A i \in 1..Len(left') : \/ i \in 1..Len(left)
                               \/ i - Len(left) \in 1..n /\ left'[i] = replies[i - Len(left)]
  <2>1. ASSUME NEW i \in 1..Len(left'), i \notin 1..Len(left)
        PROVE  i - Len(left) \in 1..n /\ i = Len(left) + (i - Len(left))
    BY <1>2, <1>3, <2>1
  <2> QED BY <1>3, <2>1
<1>6. Sent' = Sent \cup {replies[i].request.nr : i \in 1..n}
  <2>1. Sent' \subseteq Sent \cup {replies[i].request.nr : i \in 1..n}
    BY <1>3, <1>5 DEF Sent
  <2>2. Sent \subseteq Sent'
    BY <1>2, <1>3 DEF Sent
  <2>3. ASSUME NEW i \in 1..n PROVE replies[i].request.nr \in Sent'
    <3>1. Len(left) + i \in 1..Len(left')
      BY <1>2, <1>3
    <3> QED BY <1>3, <3>1 DEF Sent
  <2> QED BY <2>1, <2>2, <2>3
<1>7. Queued' = Queued /\ InHand' = {} /\ {replies[i].request.nr : i \in 1..n} \subseteq InHand
  BY <1>1, <1>2 DEF Queued, InHand
<1>8. OnceInv'
  <2>1. \A i, j \in 1..Len(left') : left'[i].request.nr = left'[j].request.nr => i = j
    <3> SUFFICES ASSUME NEW i \in 1..Len(left'), NEW j \in 1..Len(left'),
                        left'[i].request.nr = left'[j].request.nr
                 PROVE  i = j
      OBVIOUS
    <3>1. ASSUME NEW k \in 1..Len(left) PROVE left'[k] = left[k] /\ left[k].request.nr \notin InHand
      BY <1>3 DEF OnceInv, Sent
    <3>2. ASSUME NEW k \in 1..n PROVE k \in 1..Len(replies) /\ replies[k].request.nr \in InHand
      BY <1>2, <1>7
    <3>3. CASE i \in 1..Len(left) /\ j \in 1..Len(left)
      BY <3>1, <3>3 DEF OnceInv
    <3>4. CASE i \notin 1..Len(left) /\ j \notin 1..Len(left)
      <4> DEFINE k == i - Len(left)
                 m == j - Len(left)
      <4>1. /\ k \in 1..n /\ m \in 1..n /\ left'[i] = replies[k] /\ left'[j] = replies[m]
        BY <1>5, <3>4
      <4>2. k = m
        <5>1. \A x, y \in 1..Len(replies) : replies[x].request.nr = replies[y].request.nr => x = y
          BY DEF OnceInv
        <5> HIDE DEF k, m
        <5>2. k \in 1..Len(replies) /\ m \in 1..Len(replies)
          BY <3>2, <4>1
        <5> QED BY <4>1, <5>1, <5>2
      <4> QED BY <1>2, <1>3, <4>2
    <3> QED BY <1>5, <3>1, <3>2, <3>3, <3>4
  <2> QED BY <1>1, <1>6, <1>7, <2>1 DEF OnceInv
<1>9. HomeInv'
  <2>1. /\ \A i \in 1..Len(left) : left[i].to = left[i].request.peer
        /\ \A i \in 1..n : replies[i].to = replies[i].request.peer
    BY <1>2 DEF HomeInv
  <2> HIDE DEF NetInv
  <2>2. \A i \in 1..Len(left') : left'[i].to = left'[i].request.peer
    BY <1>3, <1>5, <2>1
  <2> USE DEF NetInv
  <2> QED BY <1>1, <2>2 DEF HomeInv
<1>10. NotedInv'
  BY <1>1, <1>2, <1>6 DEF NotedInv
<1> QED BY <1>4, <1>8, <1>9, <1>10

LEMMA NetStepInv == NetInv /\ [NetNext]_netVars => NetInv'
<1> SUFFICES ASSUME NetInv, [NetNext]_netVars PROVE NetInv'
  OBVIOUS
<1> USE DEF NetInv
<1>1. ASSUME NEW p \in Peers, Datagram(p) PROVE NetInv'
  BY <1>1, DatagramInv
<1>2. CASE RecvBatch \/ RecvFrom
  <2>1. PICK n \in 1..Fewer(BatchSize, Len(queue)) : Fill(n) /\ (way = "other" => n = 1)
    <3>1. Len(queue) \in Nat
      BY DEF NetTypeInv
    <3> QED BY <1>2, <3>1 DEF RecvBatch, RecvFrom, Takes, Fewer
  <2>2. n \in Nat /\ n >= 1 /\ n <= BatchSize /\ n <= Len(queue) /\ loop = "receive"
    <3>1. Len(queue) \in Nat
      BY DEF NetTypeInv
    <3> QED BY <1>2, <3>1 DEF RecvBatch, RecvFrom, Fewer
  <2> QED BY <2>1, <2>2, FillInv
<1>3. CASE BuildReplies
  BY <1>3, BuildRepliesInv
<1>4. CASE SendBatch \/ SendTo
  <2>1. loop = "send" /\ \E n \in 0..Len(replies) : Depart(n, n)
    <3>1. Len(replies) \in Nat
      BY DEF NetTypeInv
    <3>2. CASE SendBatch
      BY <3>1, <3>2 DEF SendBatch, Fewer
    <3>3. CASE SendTo
      \* there is one reply: what fails has sent none
      BY <3>1, <3>3 DEF SendTo, NotedInv
    <3> QED BY <1>4, <3>2, <3>3
  <2> QED BY <2>1, DepartInv
<1>5. CASE NoteSent
  <2>1. /\ loop = "note" /\ loop' = "receive"
        /\ noted' = noted \cup {replies[i].request.nr : i \in 1..counted}
        /\ UNCHANGED <<way, queue, arrived, bufs, addrs, received, replies, left, counted>>
    BY <1>5 DEF NoteSent
  <2>2. Sent' = Sent /\ Queued' = Queued /\ InHand' = {} /\ noted' = Sent
    BY <2>1 DEF Sent, Queued, InHand, NotedInv
  <2>3. Sent \subseteq Nat
    BY DEF OnceInv, NetTypeInv
  <2> QED BY <2>1, <2>2, <2>3 DEF NetTypeInv, OnceInv, HomeInv, NotedInv
<1>6. CASE UNCHANGED netVars
  <2>1. Sent' = Sent /\ Queued' = Queued /\ InHand' = InHand
    BY <1>6 DEF netVars, Sent, Queued, InHand
  <2>2. NetTypeInv'
    BY <1>6 DEF netVars, NetTypeInv
  <2>3. HomeInv' /\ NotedInv'
    BY <1>6, <2>1 DEF netVars, HomeInv, NotedInv
  <2>4. OnceInv'
    BY <1>6, <2>1 DEF netVars, OnceInv
  <2> QED BY <2>2, <2>3, <2>4
<1> QED BY <1>1, <1>2, <1>3, <1>4, <1>5, <1>6 DEF NetNext

\* Every reply leaves for the sender of the datagram it answers, none is answered twice,
\* and the transmit times noted are those of the replies that left, with batches of any
\* size and without (recv_batch, send_batch_by, ntp_serve_loop).
THEOREM RepliesGoHome == NetSpec => []AnswersGoHome
<1>1. NetInv => AnswersGoHome
  <2> SUFFICES ASSUME NetInv PROVE AnswersGoHome
    OBVIOUS
  <2>1. DOMAIN left = 1..Len(left)
    BY DEF NetInv, NetTypeInv
  <2>2. \A i, j \in DOMAIN left : left[i].request = left[j].request => i = j
    BY <2>1 DEF NetInv, OnceInv
  <2>3. loop = "receive" => noted = {left[i].request.nr : i \in DOMAIN left}
    BY <2>1 DEF NetInv, NotedInv, Sent
  <2> QED BY <2>1, <2>2, <2>3 DEF AnswersGoHome, NetInv, HomeInv
<1> QED BY <1>1, NetInitInv, NetStepInv, PTL DEF NetSpec

HIDE DatagramsAssumption

-----------------------------------------------------------------------------
(***************************************************************************)
(* NTS key establishment, for any number of addresses, cookies and          *)
(* connections and for streams that are cut anywhere.                       *)
(***************************************************************************)
USE KeAssumption

(* What the server's thread may have written when the client has read what it has: nothing
   yet, the refusal of a bad request, or the whole answer; and of these the client has a
   part.  What the property says of a session is then a fact about the prefixes of the
   answer: the cookies come last but for the end of the message. *)

Lead    == IF peer.port = DefaultPort THEN 2 ELSE 3   \* records before the first cookie
Refusal == <<Record("error", 1), Record("end", 0)>>
Cookies == [i \in 1..CookieCount |-> CookieRecord(i)]
Answer  == <<Record("proto", TRUE), Record("aead", TRUE)>> \o PortRecord \o Cookies
           \o <<Record("end", 0)>>

KeInv ==
    /\ peer.port \in NtpPorts /\ conns \in Nat
    /\ handler \in {"reading", "gone"}
    /\ down = [sent |-> down.sent, got |-> down.got, end |-> down.end]
    /\ handler = "reading" => down.sent = <<>>
    /\ peer.answer = Ours => /\ down.sent \in {<<>>, Refusal, Answer}
                            /\ down.got \in Nat /\ down.got <= 2 * Len(down.sent)
    /\ dialling.at \in {"idle", "connecting"} => handler = "gone"
    /\ EstablishedIsAgreed

LEMMA RecordFacts ==
    ASSUME NEW type, NEW b
    PROVE  Record(type, b).type = type /\ Record(type, b).body = b
BY DEF Record

\* Where each record of the answer stands.
LEMMA AnswerFacts ==
    /\ Lead \in {2, 3} /\ Len(Answer) = Lead + CookieCount + 1
    /\ Answer[1] = Record("proto", TRUE) /\ Answer[2] = Record("aead", TRUE)
    /\ Lead = 3 => Answer[3] = Record("port", peer.port)
    /\ \A i \in 1..CookieCount : Answer[Lead + i] = CookieRecord(i)
    /\ Answer[Lead + CookieCount + 1] = Record("end", 0)
<1> DEFINE a == <<Record("proto", TRUE), Record("aead", TRUE)>>
           b == PortRecord
           z == <<Record("end", 0)>>
           Any == {Record("proto", TRUE), Record("aead", TRUE), Record("port", peer.port),
                   Record("end", 0)} \cup {CookieRecord(i) : i \in 1..CookieCount}
<1>1. a \in Seq(Any) /\ Len(a) = 2 /\ a[1] = Record("proto", TRUE) /\ a[2] = Record("aead", TRUE)
  OBVIOUS
<1>2. b \in Seq(Any) /\ Len(b) = Lead - 2 /\ (Lead = 3 => b[1] = Record("port", peer.port))
      /\ Lead \in {2, 3}
  <2>1. CASE peer.port = DefaultPort
    BY <2>1 DEF PortRecord, Lead
  <2>2. CASE peer.port # DefaultPort
    <3>1. b = <<Record("port", peer.port)>> /\ Lead = 3 /\ Record("port", peer.port) \in Any
      BY <2>2 DEF PortRecord, Lead
    <3> HIDE DEF b, Any
    <3> QED BY <3>1
  <2> QED BY <2>1, <2>2
<1>3. Cookies \in Seq(Any) /\ Len(Cookies) = CookieCount
      /\ \A i \in 1..CookieCount : Cookies[i] = CookieRecord(i)
  <2>1. \A i \in 1..CookieCount : CookieRecord(i) \in Any
    OBVIOUS
  <2> HIDE DEF Any
  <2> QED BY <2>1 DEF Cookies
<1>4. z \in Seq(Any) /\ Len(z) = 1 /\ z[1] = Record("end", 0)
  OBVIOUS
<1> DEFINE ab  == a \o b
           abc == ab \o Cookies
           all == abc \o z
<1>5. Answer = all
  BY DEF Answer
<1> HIDE DEF a, b, z, Any
<1>6. /\ ab \in Seq(Any) /\ Len(ab) = Len(a) + Len(b)
      /\ \A i \in 1..(Len(a) + Len(b)) : ab[i] = IF i <= Len(a) THEN a[i] ELSE b[i - Len(a)]
  BY <1>1, <1>2, ConcatProperties
<1> HIDE DEF ab
<1>7. /\ abc \in Seq(Any) /\ Len(abc) = Len(ab) + Len(Cookies)
      /\ \A i \in 1..(Len(ab) + Len(Cookies)) :
            abc[i] = IF i <= Len(ab) THEN ab[i] ELSE Cookies[i - Len(ab)]
  BY <1>3, <1>6, ConcatProperties
<1> HIDE DEF abc
<1>8. /\ Len(all) = Len(abc) + Len(z)
      /\ \A i \in 1..(Len(abc) + Len(z)) : all[i] = IF i <= Len(abc) THEN abc[i] ELSE z[i - Len(abc)]
  BY <1>4, <1>7, ConcatProperties
<1> HIDE DEF all
<1>9. Len(ab) = Lead /\ \A i \in 1..Lead : ab[i] = IF i <= 2 THEN a[i] ELSE b[i - 2]
  BY <1>1, <1>2, <1>6
<1>10. /\ Len(abc) = Lead + CookieCount
       /\ \A i \in 1..(Lead + CookieCount) : abc[i] = IF i <= Lead THEN ab[i] ELSE Cookies[i - Lead]
  BY <1>3, <1>7, <1>9
<1>11. /\ Len(all) = Lead + CookieCount + 1
       /\ \A i \in 1..(Lead + CookieCount + 1) :
             all[i] = IF i <= Lead + CookieCount THEN abc[i] ELSE z[i - (Lead + CookieCount)]
  BY <1>4, <1>8, <1>10
<1>12. \A i \in 1..Lead : all[i] = IF i <= 2 THEN a[i] ELSE b[i - 2]
  BY <1>2, <1>9, <1>10, <1>11
<1>13. ASSUME NEW i \in 1..CookieCount PROVE all[Lead + i] = CookieRecord(i)
  <2> DEFINE k == Lead + i
  <2>1. /\ k \in 1..(Lead + CookieCount) /\ k \in 1..(Lead + CookieCount + 1)
        /\ ~ (k <= Lead) /\ k <= Lead + CookieCount /\ k - Lead = i
    BY <1>2
  <2> HIDE DEF k
  <2>2. all[k] = abc[k]
    BY <1>11, <2>1
  <2>3. abc[k] = Cookies[k - Lead]
    BY <1>10, <2>1
  <2>4. all[k] = CookieRecord(i)
    BY <1>3, <2>1, <2>2, <2>3
  <2> QED BY <2>4 DEF k
<1>14. all[Lead + CookieCount + 1] = z[1]
  <2> DEFINE m == Lead + CookieCount
             k == m + 1
  <2>1. k \in 1..(m + 1) /\ ~ (k <= m) /\ k - m = 1
    BY <1>2
  <2>2. \A i \in 1..(m + 1) : all[i] = IF i <= m THEN abc[i] ELSE z[i - m]
    BY <1>11
  <2> HIDE DEF m, k
  <2>3. all[k] = z[1]
    BY <2>1, <2>2
  <2> QED BY <2>3 DEF m, k
<1>15. all[1] = a[1] /\ all[2] = a[2] /\ (Lead = 3 => all[3] = b[1])
  BY <1>2, <1>12
<1> QED BY <1>1, <1>2, <1>4, <1>5, <1>11, <1>13, <1>14, <1>15

\* What the client takes of a stream is the records up to some place.
LEMMA HeardFacts ==
    ASSUME down.got \in Nat, down.got <= 2 * Len(down.sent), Len(down.sent) \in Nat
    PROVE  \E k \in 0..Len(down.sent) : /\ Heard(down) = SubSeq(down.sent, 1, k)
                                        /\ DOMAIN Heard(down) = 1..k /\ Len(Heard(down)) = k
                                        /\ \A i \in 1..k : Heard(down)[i] = down.sent[i]
<1> DEFINE half == down.got \div 2
           k == IF HasEnd(down) THEN (CHOOSE i \in 1..half : down.sent[i].type = "end") ELSE half
<1>1. half \in 0..Len(down.sent)
  <2>1. ASSUME NEW g \in Nat, NEW l \in Nat, g <= 2 * l PROVE g \div 2 \in 0..l
    BY <2>1
  <2> QED BY <2>1
<1> HIDE DEF half
<1>2. HasEnd(down) <=> \E i \in 1..half : down.sent[i].type = "end"
  BY DEF HasEnd, half
<1>3. k \in 0..Len(down.sent)
  BY <1>1, <1>2
<1>4. Heard(down) = SubSeq(down.sent, 1, k)
  BY DEF Heard, half
<1> HIDE DEF k
<1>5. Len(Heard(down)) = k /\ DOMAIN Heard(down) = 1..k
      /\ \A i \in 1..k : Heard(down)[i] = down.sent[i]
  BY <1>3, <1>4
<1> QED BY <1>3, <1>4, <1>5

\* A type that one place has decides there; one that no place has leaves the default.
LEMMA SaidFacts ==
    ASSUME NEW records, NEW type, NEW default
    PROVE  /\ (\A i \in DOMAIN records : records[i].type # type) => Said(records, type, default) = default
           /\ \A a \in Int : Where(records, type) = {a} => Said(records, type, default) = records[a].body
<1>1. ASSUME \A i \in DOMAIN records : records[i].type # type
      PROVE  Said(records, type, default) = default
  BY <1>1 DEF Said, Where
<1>2. ASSUME NEW a \in Int, Where(records, type) = {a}
      PROVE  Said(records, type, default) = records[a].body
  <2>1. a..a = {a} /\ 1 \in 1..(a - a + 1) /\ a + 1 - 1 = a
    OBVIOUS
  <2>2. Nth(a..a, 1) = a + 1 - 1
    BY <2>1, NthOfInterval
  <2>3. Nth({a}, 1) = a /\ Cardinality({a}) = 1
    BY <2>1, <2>2, FS_Singleton
  <2> QED BY <1>2, <2>3 DEF Said
<1> QED BY <1>1, <1>2

\* The answer of this program, cut anywhere, is agreed to only with a cookie, and what
\* the session then gets is what the server meant.
LEMMA AgreedIsMeant ==
    ASSUME KeInv, peer.answer = Ours, Agreed(down)
    PROVE  /\ KeResult(down).conn = conns /\ KeResult(down).host = "host"
           /\ KeResult(down).port = peer.port
           /\ Len(KeResult(down).cookies) \in 1..CookieCount
           /\ \A i \in DOMAIN KeResult(down).cookies :
                 KeResult(down).cookies[i] = [keys |-> conns, nr |-> i]
<1> DEFINE heard == Heard(down)
           sent  == down.sent
<1> USE RecordFacts
<1>1. Len(sent) \in Nat
  <2>1. Len(Refusal) = 2
    BY DEF Refusal
  <2> QED BY <2>1, AnswerFacts DEF KeInv
<1>2. PICK k \in 0..Len(sent) : /\ DOMAIN heard = 1..k /\ Len(heard) = k
                                /\ \A i \in 1..k : heard[i] = sent[i]
  BY <1>1, HeardFacts DEF KeInv
<1>3. /\ \A i \in 1..k : heard[i].type # "error"
      /\ All(heard, "cookie") # <<>>
  BY <1>2 DEF Agreed
<1> HIDE DEF heard
<1>4. Where(heard, "cookie") # {}
  <2>1. SUFFICES ASSUME Where(heard, "cookie") = {} PROVE FALSE
    OBVIOUS
  <2>2. Cardinality({}) = 0
    BY FS_EmptySet
  <2>3. All(heard, "cookie") = [i \in 1..Cardinality({}) |-> heard[Nth({}, i)]]
    BY <2>1 DEF All, Pick
  <2>4. All(heard, "cookie") = <<>>
    BY <2>2, <2>3
  <2> QED BY <1>3, <2>4
<1>5. PICK c \in 1..k : sent[c].type = "cookie"
  BY <1>2, <1>4 DEF Where
<1>6. sent = Answer
  <2>1. CASE sent = <<>>
    BY <1>5, <2>1
  <2>2. CASE sent = Refusal
    <3>1. sent[1].type = "error" /\ Len(sent) = 2 /\ sent[2].type = "end"
      BY <2>2 DEF Refusal
    <3> QED BY <1>2, <1>3, <1>5, <3>1
  <2> QED BY <2>1, <2>2 DEF KeInv
<1>7. /\ sent[1].type = "proto" /\ sent[2].type = "aead"
      /\ Lead = 3 => sent[3].type = "port" /\ sent[3].body = peer.port
      /\ \A i \in 1..CookieCount : sent[Lead + i].type = "cookie"
                                   /\ sent[Lead + i].body = [keys |-> conns, nr |-> i]
      /\ sent[Lead + CookieCount + 1].type = "end"
      /\ Len(sent) = Lead + CookieCount + 1 /\ Lead \in {2, 3}
  <2> HIDE DEF sent
  <2>1. /\ Lead \in {2, 3} /\ Len(sent) = Lead + CookieCount + 1
        /\ sent[1] = Record("proto", TRUE) /\ sent[2] = Record("aead", TRUE)
        /\ Lead = 3 => sent[3] = Record("port", peer.port)
        /\ \A i \in 1..CookieCount : sent[Lead + i] = CookieRecord(i)
        /\ sent[Lead + CookieCount + 1] = Record("end", 0)
    BY <1>6, AnswerFacts
  <2>2. \A i \in 1..CookieCount : CookieRecord(i).type = "cookie" /\ CookieRecord(i).body = [keys |-> conns, nr |-> i]
    BY DEF CookieRecord
  <2>3. \A i \in 1..CookieCount : sent[Lead + i].type = "cookie"
                                 /\ sent[Lead + i].body = [keys |-> conns, nr |-> i]
    BY <2>1, <2>2
  <2>4. /\ sent[1].type = "proto" /\ sent[2].type = "aead"
        /\ Lead = 3 => sent[3].type = "port" /\ sent[3].body = peer.port
        /\ sent[Lead + CookieCount + 1].type = "end"
    <3>1. /\ Record("proto", TRUE).type = "proto" /\ Record("aead", TRUE).type = "aead"
          /\ Record("port", peer.port).type = "port" /\ Record("port", peer.port).body = peer.port
          /\ Record("end", 0).type = "end"
      OBVIOUS
    <3> HIDE RecordFacts
    <3> QED BY <2>1, <3>1
  <2> QED BY <2>1, <2>3, <2>4
<1> HIDE DEF sent
<1>8. \A i \in 1..k : /\ i <= Lead => sent[i].type \in {"proto", "aead", "port"}
                      /\ i > Lead /\ i <= Lead + CookieCount => sent[i].type = "cookie"
                      /\ i > Lead + CookieCount => sent[i].type = "end"
  <2> SUFFICES ASSUME NEW i \in 1..k
               PROVE  /\ i <= Lead => sent[i].type \in {"proto", "aead", "port"}
                      /\ i > Lead /\ i <= Lead + CookieCount => sent[i].type = "cookie"
                      /\ i > Lead + CookieCount => sent[i].type = "end"
    OBVIOUS
  <2>1. CASE i <= Lead
    <3>1. i = 1 \/ i = 2 \/ (i = 3 /\ Lead = 3)
      BY <1>7, <2>1
    <3> QED BY <1>7, <2>1, <3>1
  <2>2. CASE i > Lead /\ i <= Lead + CookieCount
    <3>1. PICK j \in 1..CookieCount : i = Lead + j
      <4>1. i - Lead \in 1..CookieCount /\ i = Lead + (i - Lead)
        BY <1>7, <2>2
      <4> QED BY <4>1
    <3>2. sent[i].type = "cookie"
      BY <1>7, <3>1
    <3> QED BY <1>7, <2>2, <3>2
  <2>3. CASE i > Lead + CookieCount
    <3>1. i = Lead + CookieCount + 1
      BY <1>2, <1>7, <2>3
    <3> QED BY <1>7, <2>3, <3>1
  <2> QED BY <1>7, <2>1, <2>2, <2>3
<1>9. k > Lead
  BY <1>5, <1>7, <1>8
<1> DEFINE last == IF k > Lead + CookieCount THEN Lead + CookieCount ELSE k
           n    == last - Lead
<1>10. n \in 1..CookieCount /\ last \in Int /\ Lead + 1 \in Int
  BY <1>7, <1>9
<1>11. Where(heard, "cookie") = (Lead + 1)..last
  <2>1. \A i \in 1..k : heard[i].type = "cookie" <=> i \in (Lead + 1)..last
    BY <1>2, <1>7, <1>8
  <2>2. \A i \in (Lead + 1)..last : i \in 1..k
    BY <1>7
  <2> QED BY <1>2, <2>1, <2>2 DEF Where
<1> HIDE DEF last
<1>12. /\ Cardinality((Lead + 1)..last) = n
       /\ \A i \in 1..n : Nth((Lead + 1)..last, i) = Lead + i
  <2> DEFINE low == Lead + 1
  <2>1. low \in Int /\ low <= last /\ last - low + 1 = n
    BY <1>7, <1>10
  <2> HIDE DEF low, n
  <2>2. Cardinality(low..last) = n
    BY <1>10, <2>1, FS_Interval
  <2>3. \A i \in 1..n : Nth(low..last, i) = low + i - 1
    BY <1>10, <2>1, NthOfInterval
  <2> QED BY <1>7, <2>2, <2>3 DEF low
<1>13. /\ Len(All(heard, "cookie")) = n /\ DOMAIN All(heard, "cookie") = 1..n
       /\ \A i \in 1..n : All(heard, "cookie")[i].body = [keys |-> conns, nr |-> i]
  <2> HIDE DEF n
  <2>1. All(heard, "cookie") = [i \in 1..n |-> heard[Nth((Lead + 1)..last, i)]]
    BY <1>11, <1>12 DEF All, Pick
  <2>2. \A i \in 1..n : All(heard, "cookie")[i] = sent[Lead + i]
    <3>1. \A i \in 1..n : Lead + i \in 1..k
      <4>1. last <= k /\ last = Lead + n
        BY <1>7, <1>10 DEF n, last
      <4> QED BY <1>7, <1>10, <4>1
    <3> SUFFICES ASSUME NEW i \in 1..n PROVE All(heard, "cookie")[i] = sent[Lead + i]
      OBVIOUS
    <3>2. Nth((Lead + 1)..last, i) = Lead + i
      BY <1>12
    <3>3. Lead + i \in 1..k
      BY <3>1
    <3>4. heard[Lead + i] = sent[Lead + i]
      BY <1>2, <3>3
    <3>5. All(heard, "cookie")[i] = heard[Nth((Lead + 1)..last, i)]
      BY <2>1
    <3> QED BY <3>2, <3>4, <3>5
  <2>3. n \in Nat
    BY <1>10
  <2>4. \A i \in 1..n : sent[Lead + i].body = [keys |-> conns, nr |-> i]
    BY <1>7, <1>10
  <2> QED BY <2>1, <2>2, <2>3, <2>4
<1>14. Said(heard, "server", "host") = "host"
  BY <1>2, <1>7, <1>8, SaidFacts
<1>15. Said(heard, "port", DefaultPort) = peer.port
  <2>1. CASE Lead = 2
    <3>1. \A i \in DOMAIN heard : heard[i].type # "port"
      <4>1. \A i \in 1..k : i <= Lead => i = 1 \/ i = 2
        BY <2>1
      <4> QED BY <1>2, <1>7, <1>8, <4>1
    <3>2. peer.port = DefaultPort
      BY <2>1 DEF Lead
    <3> QED BY <3>1, <3>2, SaidFacts
  <2>2. CASE Lead = 3
    <3>1. Where(heard, "port") = {3}
      <4>1. \A i \in 1..k : i <= Lead => i = 1 \/ i = 2 \/ i = 3
        BY <2>2
      <4>2. 3 \in 1..k /\ heard[3] = sent[3]
        BY <1>2, <1>9, <2>2
      <4>3. \A i \in 1..k : heard[i].type = "port" => i = 3
        BY <1>2, <1>7, <1>8, <4>1
      <4> QED BY <1>2, <1>7, <2>2, <4>2, <4>3 DEF Where
    <3>2. heard[3].body = peer.port
      BY <1>2, <1>7, <1>9, <2>2
    <3> QED BY <3>1, <3>2, SaidFacts
  <2> QED BY <1>7, <2>1, <2>2
<1> HIDE DEF n
<1>16. /\ KeResult(down).conn = conns
       /\ KeResult(down).host = Said(heard, "server", "host")
       /\ KeResult(down).port = Said(heard, "port", DefaultPort)
       /\ KeResult(down).cookies = [i \in 1..n |-> All(heard, "cookie")[i].body]
  BY <1>13 DEF KeResult, heard
<1>17. Len(KeResult(down).cookies) = n /\ DOMAIN KeResult(down).cookies = 1..n
       /\ \A i \in 1..n : KeResult(down).cookies[i] = [keys |-> conns, nr |-> i]
  BY <1>10, <1>13, <1>16
<1> QED BY <1>10, <1>14, <1>15, <1>16, <1>17

\* Nothing that the answer is made of changes but with a new connection.
LEMMA AnswerKept == ASSUME UNCHANGED <<peer, conns>> PROVE Answer' = Answer /\ Refusal' = Refusal
BY DEF Answer, Refusal, PortRecord, Cookies, CookieRecord, Record

LEMMA AnswerIsOneOfTwo == ASSUME NEW request PROVE KeAnswer(request) \in {Answer, Refusal}
BY DEF KeAnswer, Answer, Refusal, Cookies

LEMMA KeInitInv == KeInit => KeInv
<1> SUFFICES ASSUME KeInit PROVE KeInv
  OBVIOUS
<1>1. Len(<<>>) = 0
  OBVIOUS
<1> QED BY <1>1 DEF KeInit, KeInv, Stream, AtRest, EstablishedIsAgreed

LEMMA KeStepInv == KeInv /\ [KeNext]_keVars => KeInv'
<1> SUFFICES ASSUME KeInv, [KeNext]_keVars PROVE KeInv'
  OBVIOUS
<1>0. Len(down.sent) \in Nat \/ peer.answer # Ours
  <2>1. Len(Refusal) = 2 /\ Len(<<>>) = 0
    BY DEF Refusal
  <2> QED BY <2>1, AnswerFacts DEF KeInv
\* A step that leaves the connection and the session alone keeps what is said of them.
<1>same. UNCHANGED <<peer, session>> => EstablishedIsAgreed'
  BY DEF KeInv, EstablishedIsAgreed
<1>1. CASE Establish
  <2>1. Answer' = Answer /\ Refusal' = Refusal
    BY <1>1, AnswerKept DEF Establish
  <2> QED BY <1>1, <1>same, <2>1 DEF Establish, KeInv, AtRest
<1>2. CASE Unreachable
  <2>1. Answer' = Answer /\ Refusal' = Refusal
    BY <1>2, AnswerKept DEF Unreachable
  <2> QED BY <1>2, <1>same, <2>1 DEF Unreachable, KeInv, AtRest
<1>3. CASE Connect
  <2>1. Len(<<>>) = 0
    OBVIOUS
  <2>2. down' = [sent |-> <<>>, got |-> 0, end |-> "open"]
    BY <1>3 DEF Connect, Stream
  <2> QED BY <1>3, <1>same, <2>1, <2>2 DEF Connect, KeInv
<1>4. CASE Deliver
  <2>1. Answer' = Answer /\ Refusal' = Refusal
    BY <1>4, AnswerKept DEF Deliver
  <2>2. down' = down \/ \E n \in 1..(2 * (CookieCount + 4)) : down' = Arrives(down, n)
    BY <1>4 DEF Deliver
  <2>3. ASSUME NEW n \in 1..(2 * (CookieCount + 4)), down' = Arrives(down, n), down' # down
        PROVE  /\ down' = [sent |-> down.sent, got |-> down.got + n, end |-> down.end]
               /\ down.got + n <= 2 * Len(down.sent)
    BY <2>3 DEF Arrives, KeInv
  <2>4. CASE down' = down
    BY <1>4, <1>same, <2>1, <2>4 DEF Deliver, KeInv
  <2>5. CASE down' # down
    <3>1. PICK n \in 1..(2 * (CookieCount + 4)) :
                 /\ down' = [sent |-> down.sent, got |-> down.got + n, end |-> down.end]
                 /\ down.got + n <= 2 * Len(down.sent)
      BY <2>2, <2>3, <2>5
    <3>2. /\ down'.sent = down.sent /\ down'.got = down.got + n
          /\ down' = [sent |-> down'.sent, got |-> down'.got, end |-> down'.end]
      BY <3>1
    <3>3. peer.answer = Ours => down'.got \in Nat /\ down'.got <= 2 * Len(down'.sent)
      BY <1>0, <3>1, <3>2 DEF KeInv
    <3> QED BY <1>4, <1>same, <2>1, <3>2, <3>3 DEF Deliver, KeInv
  <2> QED BY <2>4, <2>5
<1>5. CASE CutOff
  <2>1. Answer' = Answer /\ Refusal' = Refusal
    BY <1>5, AnswerKept DEF CutOff
  <2>2. /\ down'.sent = down.sent /\ down'.got = down.got
        /\ down' = [sent |-> down'.sent, got |-> down'.got, end |-> down'.end]
    BY <1>5 DEF CutOff, KeInv
  <2> QED BY <1>5, <1>same, <2>1, <2>2 DEF CutOff, KeInv
<1>6. CASE HandleKe
  <2>1. Answer' = Answer /\ Refusal' = Refusal
    BY <1>6, AnswerKept DEF HandleKe
  <2>2. /\ down'.sent = (IF peer.answer # Ours THEN peer.answer
                         ELSE IF Truncated(up) THEN <<>> ELSE KeAnswer(Heard(up)))
        /\ down'.got = down.got
        /\ down' = [sent |-> down'.sent, got |-> down'.got, end |-> down'.end]
    BY <1>6 DEF HandleKe, KeInv
  <2>3. peer.answer = Ours => down'.sent \in {<<>>, Refusal, Answer}
    BY <2>2, AnswerIsOneOfTwo
  <2>4. peer.answer = Ours => down'.got \in Nat /\ down'.got <= 2 * Len(down'.sent)
    <3>1. Len(<<>>) = 0 /\ Len(Refusal) = 2 /\ Len(Answer) \in Nat
      BY AnswerFacts DEF Refusal
    <3>2. peer.answer = Ours => down.got = 0
      BY <1>6, <3>1 DEF HandleKe, KeInv
    <3> QED BY <2>2, <2>3, <3>1, <3>2
  <2> QED BY <1>6, <1>same, <2>1, <2>2, <2>3, <2>4 DEF HandleKe, KeInv
<1>7. CASE HandlerFails
  <2>1. Answer' = Answer /\ Refusal' = Refusal
    BY <1>7, AnswerKept DEF HandlerFails
  <2>2. /\ down'.sent = down.sent /\ down'.got = down.got
        /\ down' = [sent |-> down'.sent, got |-> down'.got, end |-> down'.end]
    BY <1>7 DEF HandlerFails, KeInv
  <2> QED BY <1>7, <1>same, <2>1, <2>2 DEF HandlerFails, KeInv
<1>8. CASE FinishKe
  <2>1. Answer' = Answer /\ Refusal' = Refusal
    BY <1>8, AnswerKept DEF FinishKe
  <2>2. EstablishedIsAgreed'
    <3>1. CASE session' = session
      BY <1>8, <1>same, <3>1 DEF FinishKe
    <3>2. CASE Agreed(down) /\ session' = KeResult(down) /\ peer.answer = Ours
      <4> DEFINE result == KeResult(down)
      <4>1. /\ result.conn = conns /\ result.host = "host" /\ result.port = peer.port
            /\ Len(result.cookies) \in 1..CookieCount
            /\ \A i \in DOMAIN result.cookies : result.cookies[i] = [keys |-> conns, nr |-> i]
        BY <3>2, AgreedIsMeant
      <4> HIDE DEF result
      <4>2. session' = result /\ peer' = peer
        BY <1>8, <3>2 DEF FinishKe, result
      <4> QED BY <4>1, <4>2 DEF EstablishedIsAgreed
    <3>3. CASE peer.answer # Ours
      BY <1>8, <3>3 DEF FinishKe, EstablishedIsAgreed
    <3> QED BY <1>8, <3>1, <3>2, <3>3 DEF FinishKe
  <2> QED BY <1>8, <2>1, <2>2 DEF FinishKe, KeInv
<1>9. CASE GivesUp
  <2>1. Answer' = Answer /\ Refusal' = Refusal
    BY <1>9, AnswerKept DEF GivesUp
  <2> QED BY <1>9, <1>same, <2>1 DEF GivesUp, KeInv
<1>10. CASE UNCHANGED keVars
  <2>1. Answer' = Answer /\ Refusal' = Refusal
    BY <1>10, AnswerKept DEF keVars
  <2> QED BY <1>10, <1>same, <2>1 DEF keVars, KeInv
<1> QED
  BY <1>1, <1>2, <1>3, <1>4, <1>5, <1>6, <1>7, <1>8, <1>9, <1>10 DEF KeNext

\* What a session made with this program's server holds is what that server agreed to,
\* wherever the streams were cut and however often it was dialled before: the host, the
\* NTP port and cookies of this connection (KeyEstablishment.EstablishedIsAgreed;
\* establish_with_config, handle_ke).
THEOREM SessionsAreAgreed == KeSpec => []EstablishedIsAgreed
<1>1. KeInv => EstablishedIsAgreed
  BY DEF KeInv
<1> QED BY <1>1, KeInitInv, KeStepInv, PTL DEF KeSpec

HIDE KeAssumption

-----------------------------------------------------------------------------
(***************************************************************************)
(* The drivers of the clock, for any units and resolutions.  What a driver  *)
(* set its platform to was computed by divisions that cut off or round;     *)
(* TruncFacts and RoundFacts bound what each leaves behind, LinuxDelivers,  *)
(* WindowsDelivers and MacDelivers what is left of a plan.                  *)
(***************************************************************************)

\* What the divisors and the constants are.
LEMMA Units ==
    /\ Freqs \subseteq Int /\ Drains \subseteq Int /\ Rates \subseteq Nat /\ Adds \subseteq Int
    /\ Ppm \in Nat \ {0} /\ FreqScale \in Nat \ {0} /\ Increment \in Nat \ {0}
    /\ Second \in Nat \ {0} /\ Milli \in Nat \ {0} /\ MaxGap \in Nat /\ MaxCommands \in Nat
BY DriverAssumption, SMT

\* Division by a divisor that is not a literal.
LEMMA Divided ==
    ASSUME NEW n \in Int, NEW d \in Nat \ {0}
    PROVE  n \div d \in Int /\ d * (n \div d) <= n /\ n < d * (n \div d) + d
OBVIOUS

\* Trunc leaves less than the divisor behind.
LEMMA TruncFacts ==
    ASSUME NEW n \in Int, NEW d \in Nat \ {0}
    PROVE  Trunc(n, d) \in Int /\ n - d * Trunc(n, d) \in -(d - 1)..d - 1
<1> DEFINE q == n \div d
           m == (-n) \div d
<1>1. CASE n < 0
  <2>1. m \in Int /\ d * m <= -n /\ -n < d * m + d
    BY Divided
  <2>2. Trunc(n, d) = -m
    BY <1>1 DEF Trunc
  <2> HIDE DEF m
  <2>3. d * (-m) = -(d * m)
    BY <2>1
  <2> QED BY <2>1, <2>2, <2>3
<1>2. CASE ~ n < 0
  <2>1. q \in Int /\ d * q <= n /\ n < d * q + d
    BY Divided
  <2>2. Trunc(n, d) = q
    BY <1>2 DEF Trunc
  <2> HIDE DEF q
  <2> QED BY <2>1, <2>2
<1> QED BY <1>1, <1>2

\* Round is never further from the quotient than half of the divisor.
LEMMA RoundFacts ==
    ASSUME NEW n \in Int, NEW d \in Nat \ {0}
    PROVE  /\ Round(n, d) \in Int
           /\ 2 * (n - d * Round(n, d)) \in -d..d
<1> DEFINE q == (d + 2 * n) \div (2 * d)
           m == (d - 2 * n) \div (2 * d)
<1>0. 2 * d \in Nat \ {0} /\ d + 2 * n \in Int /\ d - 2 * n \in Int
  OBVIOUS
<1>1. CASE n < 0
  <2>1. m \in Int /\ (2 * d) * m <= d - 2 * n /\ d - 2 * n < (2 * d) * m + 2 * d
    BY <1>0, Divided
  <2>2. Round(n, d) = -m
    BY <1>1 DEF Round
  <2> HIDE DEF m
  <2>3. (2 * d) * m = 2 * (d * m) /\ d * (-m) = -(d * m) /\ d * m \in Int
    BY <2>1
  <2>4. d * Round(n, d) = -(d * m)
    BY <2>2, <2>3
  <2> QED BY <2>1, <2>2, <2>3, <2>4
<1>2. CASE ~ n < 0
  <2>1. q \in Int /\ (2 * d) * q <= d + 2 * n /\ d + 2 * n < (2 * d) * q + 2 * d
    BY <1>0, Divided
  <2>2. Round(n, d) = q
    BY <1>2 DEF Round
  <2> HIDE DEF q
  <2>3. (2 * d) * q = 2 * (d * q) /\ d * q \in Int
    BY <2>1
  <2> QED BY <2>1, <2>2, <2>3
<1> QED BY <1>1, <1>2

\* A tick of the kernel is no more than what the frequency trims two ways, and there are
\* ticks enough.
LEMMA TickFacts ==
    /\ Million \in Nat \ {0} /\ MaxAdjFreq \in Nat /\ TickRange \in Nat
    /\ PpmPerTick \in Nat \ {0} /\ PpmPerTick <= 2 * MaxAdjFreq
<1>1. /\ NominalTick \in Nat \ {0} /\ NominalTick >= 1000
      /\ Million \in Nat \ {0} /\ MaxAdjFreq \in Nat /\ NominalTick <= Million
      /\ Million = 2000 * MaxAdjFreq
  <2>1. NominalTick \in Int /\ 1000 <= NominalTick /\ NominalTick <= Million
    BY DriverAssumption, SMT
  <2>2. Ppm \in Int /\ Ppm >= 1
    BY Units
  <2>3. Million = 1000000 * Ppm /\ MaxAdjFreq = 500 * Ppm
    BY SMT DEF Million, MaxAdjFreq
  <2> QED BY <2>1, <2>2, <2>3, SMT
<1>3. TickRange \in Nat
  BY <1>1 DEF TickRange
<1>4. PICK p \in Int : p = PpmPerTick /\ NominalTick * p <= Million /\ Million < NominalTick * p + NominalTick
  BY <1>1, Divided DEF PpmPerTick
<1>5. p > 0
  <2>1. SUFFICES ASSUME p <= 0 PROVE FALSE
    BY <1>4
  <2>2. NominalTick * p <= 0
    BY <1>1, <1>4, <2>1
  <2> QED BY <1>1, <1>4, <2>2
<1>6. 1000 * p <= NominalTick * p
  BY <1>1, <1>4, <1>5
<1>7. p <= 2 * MaxAdjFreq
  BY <1>1, <1>4, <1>5, <1>6
<1> QED BY <1>1, <1>3, <1>4, <1>5, <1>7

\* What is left for the frequency to trim is within what the kernel lets it.
LEMMA LeftOver ==
    ASSUME NEW n \in Int, Magnitude(n) <= TickRange * PpmPerTick + MaxAdjFreq
    PROVE  /\ TickFor(n) \in Int
           /\ n - TickFor(n) * PpmPerTick \in -MaxAdjFreq..MaxAdjFreq
<1> DEFINE P == PpmPerTick
           R == TickRange
           M == MaxAdjFreq
           t == Round(n, P)
<1>1. P \in Nat \ {0} /\ R \in Nat /\ M \in Nat /\ P <= 2 * M
  BY TickFacts
<1>2. t \in Int /\ 2 * (n - P * t) \in -P..P
  BY <1>1, RoundFacts
<1>3. -(R * P) - M <= n /\ n <= R * P + M
  BY <1>1 DEF Magnitude
<1>4. R * P \in Int /\ P * t \in Int /\ t * P = P * t
  BY <1>1, <1>2
<1>5. TickFor(n) = IF Magnitude(n) > M THEN Clamp(t, -R, R) ELSE 0
  BY DEF TickFor
<1> HIDE DEF P, R, M, t
<1>6. CASE ~ Magnitude(n) > M
  <2>1. TickFor(n) = 0 /\ 0 * P = 0
    BY <1>1, <1>5, <1>6
  <2>2. n \in -M..M
    BY <1>1, <1>6 DEF Magnitude
  <2> QED BY <2>1, <2>2 DEF P, M
<1>7. CASE Magnitude(n) > M /\ t \in -R..R
  <2>1. TickFor(n) = t
    BY <1>1, <1>2, <1>5, <1>7 DEF Clamp
  <2>2. n - t * P \in -M..M
    BY <1>1, <1>2, <1>4
  <2> QED BY <1>2, <2>1, <2>2 DEF P, M
<1>8. CASE Magnitude(n) > M /\ t > R
  <2>1. TickFor(n) = R
    BY <1>1, <1>2, <1>5, <1>8 DEF Clamp
  <2>2. P * t >= R * P + P
    <3>1. P * (t - R - 1) >= 0
      BY <1>1, <1>2, <1>8
    <3>2. P * (t - R - 1) = P * t - R * P - P
      BY <1>1, <1>2
    <3> QED BY <1>1, <1>4, <3>1, <3>2
  <2>3. n - R * P \in -M..M
    BY <1>1, <1>2, <1>3, <1>4, <2>2
  <2> QED BY <1>1, <2>1, <2>3 DEF P, M
<1>9. CASE Magnitude(n) > M /\ t < -R
  <2>1. TickFor(n) = -R
    BY <1>1, <1>2, <1>5, <1>9 DEF Clamp
  <2>2. P * t <= -(R * P) - P
    <3>1. P * (-t - R - 1) >= 0
      BY <1>1, <1>2, <1>9
    <3>2. P * (-t - R - 1) = -(P * t) - R * P - P
      BY <1>1, <1>2
    <3> QED BY <1>1, <1>4, <3>1, <3>2
  <2>3. (-R) * P = -(R * P)
    BY <1>1
  <2>4. n - (-R) * P \in -M..M
    BY <1>1, <1>2, <1>3, <1>4, <2>2, <2>3
  <2> QED BY <1>1, <2>1, <2>4 DEF P, M
<1> QED BY <1>1, <1>2, <1>6, <1>7, <1>8, <1>9

-----------------------------------------------------------------------------
\* What every step keeps: besides what the property says, what the values are and how far
\* the clock of a step under way may have run on.
Plans == [freq : Int, drain : Int, rate : Nat]
DriverTypeInv ==
    /\ platform \in {"linux", "windows", "macos", "virtual"}
    /\ plan \in Plans /\ clock \in Int
    /\ stepping \in [target : Int, gap : -1..MaxGap]
    /\ stepping # Walking => platform \in {"windows", "macos"} /\ stepping.gap \in 0..MaxGap
DriverInv == DriverTypeInv /\ CommandsAreObeyed

\* total_ppm leaves of a plan what the platform can do of it.
LEMMA TotalIsPromised ==
    ASSUME NEW p \in Plans, platform \in {"linux", "windows"}
    PROVE  /\ Promised(p) \in Int /\ TotalRate(p) = Promised(p)
           /\ Magnitude(Promised(p)) <= MaxSlew /\ MaxSlew \in Nat
<1>1. NetRate(p) \in Int
  BY DEF NetRate, Plans
<1>2. MaxSlew \in Nat
  <2>1. CASE platform = "linux"
    BY <2>1, TickFacts DEF MaxSlew
  <2>2. CASE platform = "windows"
    <3>1. MaxSlew = 100000 * Ppm
      BY <2>2 DEF MaxSlew
    <3> QED BY <3>1, Units, SMT
  <2> QED BY <2>1, <2>2
<1>3. /\ Promised(p) \in Int /\ TotalRate(p) = Promised(p)
      /\ Magnitude(Promised(p)) <= MaxSlew
  BY <1>1, <1>2 DEF Promised, TotalRate, Clamp, Magnitude
<1> QED BY <1>2, <1>3

\* linux_tick_and_freq splits a rate without losing any, but for what the unit of the
\* frequency cannot say.
LEMMA LinuxDelivers ==
    ASSUME NEW p \in Plans, platform = "linux"
    PROVE  Magnitude((Promised(p) - LinuxKnob(p).tick * PpmPerTick) * FreqScale - LinuxKnob(p).freq * Ppm) < Ppm
<1> DEFINE n == Promised(p)
           t == TickFor(n)
           residual == n - t * PpmPerTick
           f == Trunc(residual * FreqScale, Ppm)
<1>1. n \in Int /\ TotalRate(p) = n /\ Magnitude(n) <= TickRange * PpmPerTick + MaxAdjFreq
  BY TotalIsPromised DEF MaxSlew
<1>2. t \in Int /\ residual \in -MaxAdjFreq..MaxAdjFreq
  BY <1>1, LeftOver
<1>3. residual \in Int /\ MaxAdjFreq \in Nat /\ FreqScale \in Int
  BY <1>2, TickFacts, Units
<1>4. Clamp(residual, -MaxAdjFreq, MaxAdjFreq) = residual
  <2> HIDE DEF residual
  <2> QED BY <1>2, <1>3 DEF Clamp
<1>5. LinuxKnob(p) = [tick |-> t, freq |-> f]
  BY <1>1, <1>4 DEF LinuxKnob
<1>6. residual * FreqScale \in Int
  <2> HIDE DEF residual
  <2> QED BY <1>3
<1>7. f \in Int /\ residual * FreqScale - Ppm * f \in -(Ppm - 1)..Ppm - 1
  <2> HIDE DEF residual
  <2> QED BY <1>6, TruncFacts, Units
<1>8. Magnitude(residual * FreqScale - f * Ppm) < Ppm
  <2> HIDE DEF residual, f
  <2>1. Ppm * f = f * Ppm /\ f * Ppm \in Int
    BY <1>7, Units
  <2> QED BY <1>6, <1>7, <2>1, Units DEF Magnitude
<1>9. LinuxKnob(p).tick = t /\ LinuxKnob(p).freq = f
  BY <1>5
<1> HIDE DEF f, t
<1> QED BY <1>8, <1>9

\* windows_adjustment rounds the increment down, and a clock is never slowed to a stop.
LEMMA WindowsDelivers ==
    ASSUME NEW p \in Plans, platform = "windows"
    PROVE  Increment * (Million + Promised(p)) - WindowsKnob(p).adjustment * Million \in 0..Million-1
<1> DEFINE n == Promised(p)
           s == Increment * (Million + n)
           a == s \div Million
<1>1. n \in Int /\ TotalRate(p) = n /\ Magnitude(n) <= 100000 * Ppm
  BY TotalIsPromised, SMT DEF MaxSlew
<1>2. Million \in Nat \ {0} /\ Increment \in Nat \ {0} /\ Ppm \in Nat \ {0}
  BY TickFacts, Units
<1>3. Million + n > 0
  <2>1. -(100000 * Ppm) <= n
    BY <1>1, <1>2, SMT DEF Magnitude
  <2> QED BY <1>1, <1>2, <2>1, SMT DEF Million
<1>4. s \in Int /\ s > 0
  <2> HIDE DEF n
  <2> QED BY <1>1, <1>2, <1>3
<1>5. WindowsKnob(p) = [adjustment |-> a]
  <2>1. WindowsKnob(p) = [adjustment |-> IF s <= 0 THEN 0 ELSE a]
    BY <1>1 DEF WindowsKnob
  <2> HIDE DEF s, a
  <2> QED BY <1>4, <2>1
<1>6. a \in Int /\ Million * a <= s /\ s < Million * a + Million
  <2> HIDE DEF s
  <2> QED BY <1>2, <1>4, Divided
<1>7. WindowsKnob(p).adjustment = a
  BY <1>5
<1>8. s - a * Million \in 0..Million-1
  <2> HIDE DEF s, a
  <2>1. Million * a = a * Million /\ a * Million \in Int
    BY <1>2, <1>6
  <2> QED BY <1>2, <1>4, <1>6, <2>1
<1> HIDE DEF a
<1> QED BY <1>7, <1>8

LEMMA MagnitudeFacts ==
    ASSUME NEW m \in Int
    PROVE  Magnitude(m) \in Nat /\ -Magnitude(m) <= m /\ m <= Magnitude(m)
BY DEF Magnitude

LEMMA MagnitudeOfProduct ==
    ASSUME NEW m \in Int, NEW n \in Int
    PROVE  Magnitude(m * n) = Magnitude(m) * Magnitude(n)
<1>1. CASE m >= 0 /\ n >= 0
  <2>1. m * n >= 0
    BY <1>1
  <2> QED BY <1>1, <2>1 DEF Magnitude
<1>2. CASE m < 0 /\ n < 0
  <2>1. m * n = (-m) * (-n) /\ (-m) * (-n) >= 0
    BY <1>2
  <2> QED BY <1>2, <2>1 DEF Magnitude
<1>3. CASE m >= 0 /\ n < 0
  <2>1. m * n = -(m * (-n)) /\ m * (-n) >= 0 /\ m * (-n) \in Int
    BY <1>3
  <2> QED BY <1>3, <2>1 DEF Magnitude
<1>4. CASE m < 0 /\ n >= 0
  <2>1. m * n = -((-m) * n) /\ (-m) * n >= 0 /\ (-m) * n \in Int
    BY <1>4
  <2> QED BY <1>4, <2>1 DEF Magnitude
<1> QED BY <1>1, <1>2, <1>3, <1>4

\* A bound that holds of multiples holds.
LEMMA Cancelled ==
    ASSUME NEW c \in Nat \ {0}, NEW y \in Int, NEW b \in Int, c * y <= c * b
    PROVE  y <= b
<1> SUFFICES ASSUME y >= b + 1 PROVE FALSE
  OBVIOUS
<1>1. c * (y - b - 1) >= 0
  OBVIOUS
<1>2. c * (y - b - 1) = c * y - c * b - c /\ c * y \in Int /\ c * b \in Int
  OBVIOUS
<1> QED BY <1>1, <1>2

\* macos_adjtime_amount: what is armed is off the drain by the frequency over the time the
\* drain takes, or over a shorter one, and by less than a microsecond.
LEMMA MacDelivers ==
    ASSUME NEW p \in Plans, p.rate > 0
    PROVE  Magnitude((MacAmount(p) - p.drain) * p.rate) <= Magnitude(p.freq * p.drain) + p.rate
<1>1. PICK f \in Int, d \in Int, r \in Nat \ {0} : f = p.freq /\ d = p.drain /\ r = p.rate
  BY DEF Plans
<1>2. PICK F \in Nat, D \in Nat : F = Magnitude(f) /\ D = Magnitude(d) /\ -F <= f /\ f <= F
  BY MagnitudeFacts
<1>3. Magnitude(f * d) = F * D /\ F * D \in Nat
  <2>1. Magnitude(f * d) = Magnitude(f) * Magnitude(d)
    BY MagnitudeOfProduct
  <2>2. F * D \in Nat
    OBVIOUS
  <2> QED BY <1>2, <2>1, <2>2
<1>4. CASE D * Ppm > Horizon * r
  <2>1. MacAmount(p) = Trunc(d * Ppm + f * Horizon, Ppm)
    BY <1>1, <1>2, <1>4 DEF MacAmount
  <2>2. Ppm \in Nat \ {0} /\ Horizon \in Nat /\ d * Ppm \in Int /\ f * Horizon \in Int
    BY Units DEF Horizon
  <2>3. PICK a \in Int, x \in -(Ppm - 1)..Ppm - 1 :
            a = MacAmount(p) /\ x = d * Ppm + f * Horizon - Ppm * a
    BY <2>1, <2>2, TruncFacts
  <2> DEFINE y == (a - d) * r
             b == F * D + r
  <2>4. y \in Int /\ b \in Int /\ -b \in Int
    BY <1>3, <2>3
  <2>5. Ppm * y = (f * Horizon - x) * r
    <3>1. Ppm * (a - d) = f * Horizon - x
      BY <2>2, <2>3
    <3>2. Ppm * y = (Ppm * (a - d)) * r
      BY <2>2, <2>3
    <3> QED BY <3>1, <3>2
  <2>6. f * Horizon - x <= F * Horizon + Ppm /\ -(F * Horizon + Ppm) <= f * Horizon - x
    <3>1. f * Horizon <= F * Horizon /\ -(F * Horizon) <= f * Horizon
      BY <1>2, <2>2 DEF Horizon
    <3> QED BY <1>2, <2>2, <2>3, <3>1
  <2>7. (F * Horizon + Ppm) * r <= Ppm * b
    <3>1. F * (Horizon * r) <= F * (D * Ppm)
      <4>1. PICK g \in Int, h \in Int : g = Horizon * r /\ h = D * Ppm /\ g <= h
        BY <1>4, <2>2
      <4>2. F * g <= F * h
        BY <1>2, <4>1
      <4> QED BY <4>1, <4>2
    <3>2. (F * Horizon + Ppm) * r = F * (Horizon * r) + Ppm * r
      BY <1>2, <2>2
    <3>3. Ppm * b = F * (D * Ppm) + Ppm * r
      BY <1>2, <2>2
    <3>4. {F * (Horizon * r), F * (D * Ppm), Ppm * r} \subseteq Int
      BY <2>2
    <3> QED BY <3>1, <3>2, <3>3, <3>4
  <2>8. (f * Horizon - x) * r <= (F * Horizon + Ppm) * r
    <3>1. PICK g \in Int, h \in Int : g = f * Horizon - x /\ h = F * Horizon + Ppm /\ g <= h
      BY <2>2, <2>3, <2>6
    <3>2. g * r <= h * r
      BY <3>1
    <3> QED BY <3>1, <3>2
  <2>9. -((F * Horizon + Ppm) * r) <= (f * Horizon - x) * r
    <3>1. PICK g \in Int, h \in Int : g = f * Horizon - x /\ h = F * Horizon + Ppm /\ -h <= g
      BY <2>2, <2>3, <2>6
    <3>2. (-h) * r <= g * r /\ (-h) * r = -(h * r)
      BY <3>1
    <3> QED BY <3>1, <3>2
  <2>10. Ppm * y <= Ppm * b /\ Ppm * (-b) <= Ppm * y
    <3>1. PICK v \in Int, w \in Int : v = (F * Horizon + Ppm) * r /\ w = (f * Horizon - x) * r
      BY <2>2, <2>3
    <3>2. Ppm * (-b) = -(Ppm * b) /\ Ppm * b \in Int
      BY <2>2, <2>4
    <3> HIDE DEF y, b
    <3> QED BY <2>5, <2>7, <2>8, <2>9, <3>1, <3>2
  <2>11. y <= b /\ -b <= y
    <3> HIDE DEF y, b
    <3> QED BY <2>2, <2>4, <2>10, Cancelled
  <2>12. Magnitude(y) <= b
    <3> HIDE DEF y, b
    <3> QED BY <2>4, <2>11 DEF Magnitude
  <2> QED BY <1>1, <1>3, <2>3, <2>12
<1>5. CASE ~ D * Ppm > Horizon * r
  <2>1. MacAmount(p) = Trunc(d * r + f * D, r)
    BY <1>1, <1>2, <1>5 DEF MacAmount
  <2>2. d * r \in Int /\ f * D \in Int
    OBVIOUS
  <2>3. PICK a \in Int, x \in -(r - 1)..r - 1 : a = MacAmount(p) /\ x = d * r + f * D - r * a
    BY <2>1, <2>2, TruncFacts
  <2>4. (a - d) * r = f * D - x
    BY <2>2, <2>3
  <2>5. f * D <= F * D /\ -(F * D) <= f * D
    BY <1>2
  <2>6. Magnitude(f * D - x) <= F * D + r
    <3>1. PICK g \in Int, h \in Nat : g = f * D /\ h = F * D /\ g <= h /\ -h <= g
      BY <1>3, <2>2, <2>5
    <3>2. Magnitude(g - x) <= h + r
      BY <2>3, <3>1 DEF Magnitude
    <3> QED BY <3>1, <3>2
  <2> QED BY <1>1, <1>3, <2>3, <2>4, <2>6
<1> QED BY <1>2, <1>4, <1>5, Units

-----------------------------------------------------------------------------
LEMMA DriverInitInv == DriverInit => DriverInv
<1> SUFFICES ASSUME DriverInit PROVE DriverInv
  OBVIOUS
<1> USE DEF DriverInit
<1>1. DriverTypeInv
  BY DriverAssumption, SMT DEF DriverTypeInv, Plans, Unplanned, Walking
<1>2. StepsLand
  BY Units DEF StepsLand
<1>3. platform \in {"linux", "windows"} => Promised(plan) = 0
  <2> SUFFICES ASSUME platform \in {"linux", "windows"} PROVE Promised(plan) = 0
    OBVIOUS
  <2>1. NetRate(plan) = 0
    BY DEF NetRate, Unplanned
  <2>2. MaxSlew \in Nat
    BY <1>1, TotalIsPromised DEF DriverTypeInv
  <2> QED BY <2>1, <2>2 DEF Promised, Magnitude
<1>4. CASE platform = "linux"
  <2>1. knob.tick = 0 /\ knob.freq = 0
    BY <1>4
  <2>2. (0 - 0 * PpmPerTick) * FreqScale - 0 * Ppm = 0
    BY TickFacts, Units
  <2> QED BY <1>2, <1>1, <1>3, <1>4, <2>1, <2>2, Units DEF DriverInv, CommandsAreObeyed, PlanIsInForce, Magnitude
<1>5. CASE platform = "windows"
  <2>1. knob.adjustment = Increment
    BY <1>5
  <2>2. Increment * (Million + 0) - Increment * Million = 0
    BY TickFacts, Units
  <2>3. 0 \in 0..Million - 1
    BY TickFacts
  <2> QED BY <1>2, <1>1, <1>3, <1>5, <2>1, <2>2, <2>3 DEF DriverInv, CommandsAreObeyed, PlanIsInForce
<1>6. CASE platform = "macos"
  BY <1>1, <1>2, <1>6 DEF DriverInv, CommandsAreObeyed, PlanIsInForce, Unplanned
<1>7. CASE platform = "virtual"
  BY <1>1, <1>2, <1>7 DEF DriverInv, CommandsAreObeyed, PlanIsInForce, Unplanned
<1> QED BY <1>1, <1>4, <1>5, <1>6, <1>7 DEF DriverTypeInv

\* apply of a plan.
LEMMA SlewObeyed == ASSUME DriverInv, NEW p \in Plans, Slew(p) PROVE DriverInv'
<1>1. /\ plan' = p /\ platform' = platform /\ clock' = clock
      /\ stepping' = stepping /\ landed' = landed
  BY DEF Slew
<1>2. DriverTypeInv'
  BY <1>1 DEF DriverInv, DriverTypeInv
<1>3. StepsLand'
  BY <1>1 DEF DriverInv, CommandsAreObeyed, StepsLand
<1>4. Promised(plan)' = Promised(p)
  <2>1. NetRate(plan)' = NetRate(p) /\ MaxSlew' = MaxSlew
    BY <1>1 DEF NetRate, MaxSlew
  <2> QED BY <2>1 DEF Promised
<1>5. CASE platform = "linux"
  <2>1. knob' = LinuxKnob(p)
    BY <1>5 DEF Slew
  <2>2. PlanIsInForce'
    BY <1>1, <1>4, <1>5, <2>1, LinuxDelivers DEF PlanIsInForce
  <2> QED BY <1>2, <1>3, <2>2 DEF DriverInv, CommandsAreObeyed
<1>6. CASE platform = "windows"
  <2>1. knob' = WindowsKnob(p)
    BY <1>6 DEF Slew
  <2>2. PlanIsInForce'
    BY <1>1, <1>4, <1>6, <2>1, WindowsDelivers DEF PlanIsInForce
  <2> QED BY <1>2, <1>3, <2>2 DEF DriverInv, CommandsAreObeyed
<1>7. CASE platform = "macos"
  <2>1. knob' = IF MacAmount(p) = 0 THEN knob ELSE [armed |-> MacAmount(p), by |-> p]
    BY <1>7 DEF Slew
  <2>2. CASE MacAmount(p) = 0
    <3>1. PlanIsInForce'
      BY <1>1, <1>7, <2>1, <2>2 DEF DriverInv, CommandsAreObeyed, PlanIsInForce
    <3> QED BY <1>2, <1>3, <3>1 DEF DriverInv, CommandsAreObeyed
  <2>3. CASE MacAmount(p) # 0
    <3>1. knob'.armed = MacAmount(p) /\ knob'.by = p
      BY <2>1, <2>3
    <3>2. PlanIsInForce'
      BY <1>1, <1>7, <3>1, MacDelivers DEF PlanIsInForce
    <3> QED BY <1>2, <1>3, <3>2 DEF DriverInv, CommandsAreObeyed
  <2> QED BY <2>2, <2>3
<1>8. CASE platform = "virtual"
  <2>1. knob' = [freq |-> p.freq]
    BY <1>8 DEF Slew
  <2>2. PlanIsInForce'
    BY <1>1, <1>8, <2>1 DEF PlanIsInForce
  <2> QED BY <1>2, <1>3, <2>2 DEF DriverInv, CommandsAreObeyed
<1> QED BY <1>5, <1>6, <1>7, <1>8 DEF DriverInv, DriverTypeInv

\* A step leaves the plan in force.
LEMMA PlanKept ==
    ASSUME DriverInv, UNCHANGED <<platform, knob, plan>>
    PROVE  PlanIsInForce'
<1>1. Promised(plan)' = Promised(plan)
  <2>1. NetRate(plan)' = NetRate(plan) /\ MaxSlew' = MaxSlew
    BY DEF NetRate, MaxSlew
  <2> QED BY <2>1 DEF Promised
<1> QED BY <1>1 DEF DriverInv, CommandsAreObeyed, PlanIsInForce

\* ADJ_SETOFFSET: the seconds and the part of one come to what was to be added.
LEMMA LinuxStepObeyed == ASSUME DriverInv, NEW add \in Int, LinuxStep(add) PROVE DriverInv'
<1> DEFINE q == Trunc(add, Second)
           tv == Normalised(add)
<1>1. Second \in Nat \ {0} /\ q \in Int
  BY Units, TruncFacts
<1>2. tv.sec \in Int /\ tv.part \in Int /\ tv.sec * Second + tv.part = add
  <2> DEFINE part == add - Second * q
  <2>1. part \in Int /\ (q - 1) * Second = q * Second - Second /\ Second * q = q * Second /\ q * Second \in Int
    BY <1>1
  <2>2. CASE part < 0
    <3>1. tv.sec = q - 1 /\ tv.part = part + Second
      BY <2>2 DEF Normalised
    <3> HIDE DEF q, tv
    <3> QED BY <1>1, <2>1, <3>1
  <2>3. CASE ~ part < 0
    <3>1. tv.sec = q /\ tv.part = part
      BY <2>3 DEF Normalised
    <3> HIDE DEF q, tv
    <3> QED BY <1>1, <2>1, <3>1
  <2> QED BY <2>2, <2>3
<1>3. /\ clock' = clock + tv.sec * Second + tv.part /\ landed' = clock + add - clock'
      /\ platform = "linux" /\ UNCHANGED <<platform, knob, plan, stepping>>
  BY DEF LinuxStep
<1>4. clock' \in Int /\ landed' = 0
  <2>1. clock \in Int /\ tv.sec * Second \in Int
    BY <1>1, <1>2 DEF DriverInv, DriverTypeInv
  <2> HIDE DEF tv
  <2> QED BY <1>2, <1>3, <2>1
<1>5. DriverTypeInv'
  BY <1>3, <1>4 DEF DriverInv, DriverTypeInv
<1>6. StepsLand'
  BY <1>3, <1>4 DEF StepsLand
<1> QED BY <1>3, <1>5, <1>6, PlanKept DEF DriverInv, CommandsAreObeyed

LEMMA StepReadsObeyed == ASSUME DriverInv, NEW add \in Int, StepReads(add) PROVE DriverInv'
<1>1. /\ platform \in {"windows", "macos"} /\ stepping' = [target |-> clock + add, gap |-> 0]
      /\ UNCHANGED <<platform, knob, plan, clock, landed>>
  BY DEF StepReads
<1>2. clock + add \in Int /\ 0 \in -1..MaxGap /\ 0 \in 0..MaxGap
  BY Units DEF DriverInv, DriverTypeInv
<1>3. DriverTypeInv'
  BY <1>1, <1>2 DEF DriverInv, DriverTypeInv
<1>4. StepsLand'
  BY <1>1 DEF DriverInv, CommandsAreObeyed, StepsLand
<1> QED BY <1>1, <1>3, <1>4, PlanKept DEF DriverInv, CommandsAreObeyed

LEMMA ElapseObeyed == ASSUME DriverInv, Elapse PROVE DriverInv'
<1>1. /\ stepping # Walking /\ stepping.gap < MaxGap
      /\ stepping' = [stepping EXCEPT !.gap = @ + 1] /\ clock' = clock + 1
      /\ UNCHANGED <<platform, knob, plan, landed>>
  BY DEF Elapse
<1>2. stepping.gap \in 0..MaxGap /\ stepping \in [target : Int, gap : -1..MaxGap] /\ MaxGap \in Nat
      /\ platform \in {"windows", "macos"}
  BY <1>1, Units DEF DriverInv, DriverTypeInv
<1>3. stepping' \in [target : Int, gap : -1..MaxGap] /\ stepping'.gap \in 0..MaxGap
  BY <1>1, <1>2
<1>4. DriverTypeInv'
  BY <1>1, <1>2, <1>3 DEF DriverInv, DriverTypeInv
<1>5. StepsLand'
  BY <1>1 DEF DriverInv, CommandsAreObeyed, StepsLand
<1> QED BY <1>1, <1>4, <1>5, PlanKept DEF DriverInv, CommandsAreObeyed

\* A step that is late by what went by, and early by no more than what SYSTEMTIME cuts off.
LEMMA StepSetsObeyed == ASSUME DriverInv, StepSets PROVE DriverInv'
<1>1. /\ stepping # Walking /\ stepping' = Walking
      /\ clock' = IF platform = "windows" THEN Milli * (stepping.target \div Milli) ELSE stepping.target
      /\ landed' = stepping.target + stepping.gap - clock'
      /\ UNCHANGED <<platform, knob, plan>>
  BY DEF StepSets
<1>2. /\ stepping.gap \in 0..MaxGap /\ stepping.target \in Int /\ platform \in {"windows", "macos"}
      /\ MaxGap \in Nat /\ Milli \in Nat \ {0}
  BY <1>1, Units DEF DriverInv, DriverTypeInv
<1>3. Walking \in [target : Int, gap : -1..MaxGap]
  BY Units DEF Walking
<1>4. CASE platform = "windows"
  <2>1. PICK q \in Int : q = stepping.target \div Milli /\ Milli * q <= stepping.target /\ stepping.target < Milli * q + Milli
    BY <1>2, Divided
  <2>2. clock' = Milli * q /\ Milli * q \in Int
    BY <1>1, <1>2, <1>4, <2>1
  <2>3. landed' \in 0..MaxGap + Milli - 1
    BY <1>1, <1>2, <2>1, <2>2
  <2>4. StepsLand'
    BY <1>1, <1>4, <2>3 DEF StepsLand
  <2>5. DriverTypeInv'
    BY <1>1, <1>3, <2>2 DEF DriverInv, DriverTypeInv
  <2> QED BY <1>1, <2>4, <2>5, PlanKept DEF DriverInv, CommandsAreObeyed
<1>5. CASE platform = "macos"
  <2>1. clock' = stepping.target /\ landed' = stepping.gap
    BY <1>1, <1>2, <1>5
  <2>2. StepsLand'
    BY <1>1, <1>2, <1>5, <2>1 DEF StepsLand
  <2>3. DriverTypeInv'
    BY <1>1, <1>2, <1>3, <2>1 DEF DriverInv, DriverTypeInv
  <2> QED BY <1>1, <2>2, <2>3, PlanKept DEF DriverInv, CommandsAreObeyed
<1> QED BY <1>2, <1>4, <1>5

\* What is refused, and what the virtual clock does of a step, changes nothing.
LEMMA NothingObeyed ==
    ASSUME DriverInv, UNCHANGED <<platform, knob, plan, clock, landed>>, stepping' \in {stepping, Walking}
    PROVE  DriverInv'
<1>1. Walking \in [target : Int, gap : -1..MaxGap]
  BY Units DEF Walking
<1>2. DriverTypeInv'
  <2>1. CASE stepping' = stepping
    BY <2>1 DEF DriverInv, DriverTypeInv
  <2>2. CASE stepping' = Walking
    BY <1>1, <2>2 DEF DriverInv, DriverTypeInv
  <2> QED BY <2>1, <2>2
<1>3. StepsLand'
  BY DEF DriverInv, CommandsAreObeyed, StepsLand
<1> QED BY <1>2, <1>3, PlanKept DEF DriverInv, CommandsAreObeyed

LEMMA DriverStepInv == DriverInv /\ [DriverNext]_driverVars => DriverInv'
<1> SUFFICES ASSUME DriverInv, [DriverNext]_driverVars PROVE DriverInv'
  OBVIOUS
<1>1. ASSUME NEW f \in Freqs, NEW d \in Drains, NEW r \in Rates, Slew([freq |-> f, drain |-> d, rate |-> r])
      PROVE  DriverInv'
  <2>1. [freq |-> f, drain |-> d, rate |-> r] \in Plans
    BY Units DEF Plans
  <2> QED BY <1>1, <2>1, SlewObeyed
<1>2. CASE Refuse
  BY <1>2, NothingObeyed DEF Refuse
<1>3. CASE Elapse
  BY <1>3, ElapseObeyed
<1>4. CASE StepSets
  BY <1>4, StepSetsObeyed
<1>5. CASE StepRefused
  BY <1>5, NothingObeyed DEF StepRefused
<1>6. ASSUME NEW add \in Adds, LinuxStep(add) \/ StepReads(add) \/ VirtualStep(add) PROVE DriverInv'
  <2>1. add \in Int
    BY Units
  <2>2. CASE VirtualStep(add)
    BY <2>2, NothingObeyed DEF VirtualStep
  <2> QED BY <1>6, <2>1, <2>2, LinuxStepObeyed, StepReadsObeyed
<1>7. CASE UNCHANGED driverVars
  BY <1>7, NothingObeyed DEF driverVars
<1> QED BY <1>1, <1>2, <1>3, <1>4, <1>5, <1>6, <1>7 DEF DriverNext

\* What a driver accepted is in force as far as the platform can do it, for every plan the
\* loop makes under any ceiling it was configured with, the ones beyond capabilities() too,
\* and for any resolution of the kernel's frequency, tick, interrupt and SYSTEMTIME:
\* linux_tick_and_freq and windows_adjustment deliver the rate, or their own ceiling when it
\* is beyond that, to less than a unit; what adjtime was armed with is the drain of the last
\* plan that came to a microsecond and the frequency over no more than the time the plan
\* gives it; and a step misses its target by no more than what went by and a millisecond.
THEOREM PlansAreDelivered == DriverSpec => []CommandsAreObeyed
<1>1. DriverInv => CommandsAreObeyed
  BY DEF DriverInv
<1> QED BY <1>1, DriverInitInv, DriverStepInv, PTL DEF DriverSpec
=============================================================================
