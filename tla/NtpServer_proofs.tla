--------------------------- MODULE NtpServer_proofs ---------------------------
(***************************************************************************)
(* What the NTP server and its table of clients keep, proved for every      *)
(* capacity, every seed of the hasher, every limit and any number of        *)
(* clients.                                                                 *)
(*                                                                          *)
(* The limiters: the answers since any tick and the tokens left never       *)
(* exceed the burst and what was earned (LimiterInv); every kiss of death   *)
(* was paid for by a leak's worth of drops (KissInv).                       *)
(*                                                                          *)
(* The table: some order of slots is the recency list, the other slots are  *)
(* free, and the index holds just those on the list, every bucket from an   *)
(* entry's ideal one to its own being occupied (TableIsSound).  From it a   *)
(* scan finds every client, and the list implements the order of use.       *)
(*                                                                          *)
(* The server: a handle is its client's still or stale, so that what is     *)
(* noted lands on nobody else (OwnInv); and from the receipt of a batch to  *)
(* the noting of its replies, a record that has a transmit time holds the   *)
(* receive time of the batch (TimesInv, HeldInv, TrueInv), which is what    *)
(* makes an interleaved reply true.                                         *)
(***************************************************************************)
EXTENDS NtpServer, FiniteSetTheorems, SequenceTheorems, TLAPS

-----------------------------------------------------------------------------
\* The ceiling on what is answered.

Stats == [requests : Nat, responses : Nat, dropped : Nat, kisses : Nat, evicted : Nat]

\* The part of the type invariant that the limiter depends on.
LimiterTypeOK ==
    /\ now \in Nat \ {0}
    /\ globalTokens \in Int
    /\ globalLast \in Nat \cup {Never}
    /\ stats \in Stats
    /\ answered \in [1..MaxTime -> Nat]

\* Nothing has been refilled, hence nothing answered, since tick t began.
QuietSince(t) == globalLast = Never \/ globalLast < t

Since(t) == stats.responses - answered[t]

Budget ==
    GlobalRate > 0 =>
        /\ globalTokens >= 0 /\ globalTokens <= GlobalBurst
        /\ globalLast # Never => globalLast <= now
        /\ \A t \in 1..now :
              IF QuietSince(t) THEN Since(t) = 0
              ELSE Since(t) + globalTokens <= GlobalBurst + GlobalRate * (globalLast - t)

LimiterInv == LimiterTypeOK /\ now <= MaxTime /\ Budget

\* Earnings add up.
LEMMA Distributes ==
    ASSUME NEW r \in Nat, NEW a \in Int, NEW b \in Int
    PROVE  /\ r * a \in Int /\ r * b \in Int
           /\ r * a + r * b = r * (a + b)
  BY SMT

\* Nothing is earned backwards.
LEMMA Earned ==
    ASSUME NEW r \in Nat, NEW a \in Nat
    PROVE  r * a \in Nat
  BY SMT

\* The bucket starts full.
LEMMA LimiterInit == TableInit => LimiterInv
  <1> SUFFICES ASSUME TableInit PROVE LimiterInv
    OBVIOUS
  <1> USE LimitsAssumption, TableAssumption DEF TableInit, Never
  <1>1. LimiterTypeOK
    BY DEF LimiterTypeOK, Stats
  <1>2. now <= MaxTime
    BY SMT
  <1>3. Budget
    BY SMT DEF Budget, QuietSince, Since
  <1> QED BY <1>1, <1>2, <1>3 DEF LimiterInv

\* Time alone earns nothing: a refill waits for a request.
LEMMA TickKeepsLimiter == LimiterInv /\ TableTick => LimiterInv'
  <1> SUFFICES ASSUME LimiterInv, TableTick PROVE LimiterInv'
    OBVIOUS
  <1>0. /\ LimiterTypeOK /\ now \in Nat \ {0} /\ now' = now + 1 /\ now < MaxTime
        /\ stats' = stats /\ globalTokens' = globalTokens /\ globalLast' = globalLast
        /\ answered' = [answered EXCEPT ![now'] = stats.responses]
        /\ MaxTime \in Nat /\ stats.responses \in Nat
    BY LimitsAssumption DEF LimiterInv, LimiterTypeOK, TableTick, limits, Stats
  <1>1. LimiterTypeOK'
    BY <1>0 DEF LimiterTypeOK
  <1>2. now' <= MaxTime
    BY <1>0
  <1>3. Budget'
    <2> SUFFICES ASSUME GlobalRate > 0 PROVE Budget'
      BY DEF Budget
    <2>1. globalTokens' >= 0 /\ globalTokens' <= GlobalBurst /\ (globalLast' # Never => globalLast' <= now')
      BY <1>0 DEF LimiterInv, Budget, LimiterTypeOK
    <2>2. ASSUME NEW t \in 1..now', t # now'
          PROVE  /\ t \in 1..now /\ Since(t)' = Since(t) /\ QuietSince(t)' = QuietSince(t)
      BY <1>0, <2>2 DEF Since, QuietSince, LimiterTypeOK
    <2>3. ASSUME NEW t, t = now' PROVE QuietSince(t)' /\ Since(t)' = 0
      <3>1. QuietSince(t)'
        BY <1>0, <2>3 DEF LimiterInv, Budget, QuietSince, LimiterTypeOK
      <3>2. now' \in 1..MaxTime
        BY <1>0
      <3>3. answered'[t] = stats.responses
        BY <1>0, <2>3, <3>2 DEF LimiterTypeOK
      <3> QED BY <1>0, <3>1, <3>3 DEF Since
    <2>4. ASSUME NEW t \in 1..now'
          PROVE  IF QuietSince(t)' THEN Since(t)' = 0
                 ELSE Since(t)' + globalTokens' <= GlobalBurst + GlobalRate * (globalLast' - t)
      <3>1. CASE t = now'
        BY <3>1, <2>3
      <3>2. CASE t # now'
        BY <3>2, <2>2, <1>0 DEF LimiterInv, Budget
      <3> QED BY <3>1, <3>2
    <2> QED BY <2>1, <2>4 DEF Budget, QuietSince, Since
  <1> QED BY <1>1, <1>2, <1>3 DEF LimiterInv

\* A refill earns at most the rate for the time that passed, up to the burst.
LEMMA RefillIsEarned ==
    ASSUME LimiterInv, GlobalRate > 0
    PROVE  /\ GlobalRefill \in Nat /\ GlobalRefill <= GlobalBurst
           /\ globalLast # Never =>
                 GlobalRefill <= globalTokens + GlobalRate * (now - globalLast)
           /\ \A t \in 1..now : Since(t) + GlobalRefill <= GlobalBurst + GlobalRate * (now - t)
  <1>0. /\ now \in Nat \ {0} /\ globalTokens \in Nat /\ globalTokens <= GlobalBurst
        /\ globalLast \in Nat \cup {Never} /\ (globalLast # Never => globalLast <= now)
        /\ GlobalRate \in Nat /\ GlobalBurst \in Nat
        /\ stats.responses \in Nat /\ answered \in [1..MaxTime -> Nat] /\ now <= MaxTime /\ MaxTime \in Nat
    BY LimitsAssumption DEF LimiterInv, LimiterTypeOK, Budget, Stats
  <1> DEFINE spell  == IF globalLast = Never THEN 0 ELSE now - globalLast
             earned == GlobalRate * spell
  <1>1. spell \in Nat
    BY <1>0 DEF Never
  <1>2. earned \in Nat
    BY <1>0, <1>1, Earned
  <1>3. GlobalRefill = Least(globalTokens + earned, GlobalBurst)
    BY <1>0, <1>1 DEF GlobalRefill
  <1>4. GlobalRefill \in Nat /\ GlobalRefill <= GlobalBurst /\ GlobalRefill <= globalTokens + earned
    <2> HIDE DEF earned
    <2> QED BY <1>0, <1>2, <1>3 DEF Least
  <1>5. ASSUME globalLast # Never PROVE GlobalRefill <= globalTokens + GlobalRate * (now - globalLast)
    BY <1>4, <1>5
  <1>6. ASSUME NEW t \in 1..now
        PROVE  Since(t) + GlobalRefill <= GlobalBurst + GlobalRate * (now - t)
    <2>0. t \in Int /\ answered[t] \in Nat /\ Since(t) \in Int
      BY <1>0 DEF Since
    <2>1. CASE QuietSince(t)
      <3>1. Since(t) = 0
        BY <2>1, <1>0 DEF LimiterInv, Budget
      <3>2. now - t \in Nat
        BY <1>0
      <3>3. GlobalRate * (now - t) \in Nat
        BY <1>0, <3>2, Earned
      <3> DEFINE since == GlobalRate * (now - t)
      <3> HIDE DEF since
      <3>4. Since(t) + GlobalRefill <= GlobalBurst + since
        BY <3>1, <3>3, <1>4, <1>0 DEF since
      <3> QED BY <3>4 DEF since
    <2>2. CASE ~QuietSince(t)
      <3>1. globalLast \in Nat /\ globalLast # Never /\ globalLast - t \in Nat
        BY <2>2, <1>0, <2>0 DEF QuietSince, Never
      <3>2. Since(t) + globalTokens <= GlobalBurst + GlobalRate * (globalLast - t)
        BY <2>2, <1>0 DEF LimiterInv, Budget
      <3> DEFINE a == globalLast - t
                 b == now - globalLast
                 ra == GlobalRate * a
                 rb == GlobalRate * b
                 rc == GlobalRate * (now - t)
      <3>3. a \in Int /\ b \in Int /\ a + b = now - t
        BY <3>1, <1>0, <2>0
      <3>4. ra \in Int /\ rb \in Int /\ ra + rb = rc
        <4> HIDE DEF a, b
        <4>1. GlobalRate * a + GlobalRate * b = GlobalRate * (a + b)
          BY <1>0, <3>3, Distributes
        <4> QED BY <4>1, <3>3, <1>0, Distributes
      <3>5. GlobalRefill <= globalTokens + rb
        BY <1>5, <3>1
      <3>6. Since(t) + globalTokens <= GlobalBurst + ra
        BY <3>2
      <3> HIDE DEF a, b, ra, rb, rc
      <3>7. Since(t) + GlobalRefill <= GlobalBurst + rc
        BY <3>4, <3>5, <3>6, <1>0, <1>4, <2>0
      <3> QED BY <3>7 DEF rc
    <2> QED BY <2>1, <2>2
  <1> QED BY <1>4, <1>5, <1>6

\* What the two outcomes of a request do to the counters.
LEMMA Counted ==
    ASSUME NEW s \in Stats
    PROVE  LET c == [s EXCEPT !.requests = @ + 1, !.responses = @ + 1]
           IN  c \in Stats /\ c.responses = s.responses + 1
  <1>1. s.requests + 1 \in Nat /\ s.responses + 1 \in Nat
    BY DEF Stats
  <1> QED BY <1>1 DEF Stats

\* A refusal answers nothing.
LEMMA Refused ==
    ASSUME NEW s \in Stats, NEW drops
    PROVE  StatsRefused(s, drops) \in Stats /\ StatsRefused(s, drops).responses = s.responses
  <1> DEFINE kiss == IF KissIsDue(drops) THEN 1 ELSE 0
  <1>1. kiss \in Nat
    BY Zenon
  <1>2. StatsRefused(s, drops) =
            [s EXCEPT !.requests = @ + 1, !.dropped = @ + 1, !.kisses = @ + kiss]
    BY DEF StatsRefused
  <1> HIDE DEF kiss
  <1>3. s.requests + 1 \in Nat /\ s.dropped + 1 \in Nat /\ s.kisses + kiss \in Nat
    BY <1>1 DEF Stats
  <1> QED BY <1>2, <1>3 DEF Stats

\* Both outcomes of a request past the ceiling keep the books of the limiter: what is
\* answered is spent.
LEMMA AdmitSpends ==
    ASSUME LimiterInv, NEW k \in Keys, AdmitClient(k)
    PROVE  /\ stats' \in Stats
           /\ \E spent \in {0, 1} :
                 /\ stats'.responses = stats.responses + spent
                 /\ globalTokens' = (IF GlobalRate > 0 THEN GlobalRefill ELSE globalTokens) - spent
           /\ globalLast' = (IF GlobalRate > 0 THEN now ELSE globalLast)
           /\ answered' = answered
           /\ GlobalRate > 0 => GlobalRefill >= 1
  <1> DEFINE i      == Find(table', k)
             isNew  == Find(table, k) = NIL
             before == IF isNew THEN NewRecord ELSE records[i]
             tokens == Refill(before)
             counted == [stats EXCEPT !.evicted = @ + (IF isNew /\ IsFull THEN 1 ELSE 0)]
             spent   == IF tokens >= TokenTicks THEN 1 ELSE 0
  <1>1. /\ ~OverCeiling
        /\ globalTokens' = (IF GlobalRate > 0 THEN GlobalRefill ELSE globalTokens) - spent
        /\ globalLast' = IF GlobalRate > 0 THEN now ELSE globalLast
        /\ answered' = answered
        /\ IF tokens >= TokenTicks
           THEN stats' = [counted EXCEPT !.requests = @ + 1, !.responses = @ + 1]
           ELSE stats' = StatsRefused(counted, before.drops)
    BY DEF AdmitClient
  <1>2. stats \in Stats
    BY DEF LimiterInv, LimiterTypeOK
  <1>3. counted \in Stats /\ counted.responses = stats.responses
    <2> HIDE DEF isNew
    <2> QED BY <1>2 DEF Stats
  <1>4. /\ stats' \in Stats
        /\ stats'.responses = stats.responses + spent
    <2>1. CASE tokens >= TokenTicks
      <3> HIDE DEF tokens, counted
      <3> QED BY <1>1, <1>3, <2>1, Counted
    <2>2. CASE ~(tokens >= TokenTicks)
      <3> HIDE DEF tokens, counted, before
      <3>1. stats'.responses = stats.responses /\ stats' \in Stats
        BY <1>1, <1>3, <2>2, Refused
      <3>2. spent = 0 /\ stats.responses \in Nat
        BY <1>2, <2>2 DEF Stats
      <3> QED BY <3>1, <3>2
    <2> QED BY <2>1, <2>2
  <1>5. spent \in {0, 1}
    BY Zenon
  <1>6. ASSUME GlobalRate > 0 PROVE GlobalRefill >= 1
    BY <1>1, <1>6, RefillIsEarned DEF OverCeiling
  <1> HIDE DEF spent
  <1> QED BY <1>1, <1>4, <1>5, <1>6

\* A request keeps the budget, whether it is answered or refused.
LEMMA AdmitKeepsLimiter ==
    ASSUME LimiterInv, NEW k \in Keys, Admit(k)
    PROVE  LimiterInv'
  <1>0. /\ now \in Nat \ {0} /\ now' = now /\ now <= MaxTime /\ MaxTime \in Nat
        /\ globalTokens \in Int /\ globalLast \in Nat \cup {Never}
        /\ stats \in Stats /\ stats.responses \in Nat /\ answered \in [1..MaxTime -> Nat]
        /\ GlobalRate \in Nat /\ GlobalBurst \in Nat
    BY LimitsAssumption DEF LimiterInv, LimiterTypeOK, Admit, Stats
  <1>1. CASE RefuseGlobally
    <2>1. /\ GlobalRate > 0
          /\ globalTokens' = GlobalRefill /\ globalLast' = now /\ answered' = answered
          /\ stats' = StatsRefused(stats, globalDrops)
      BY <1>1 DEF RefuseGlobally, OverCeiling
    <2>2. stats' \in Stats /\ stats'.responses = stats.responses
      BY <2>1, <1>0, Refused
    <2>3. LimiterTypeOK'
      BY <2>1, <2>2, <1>0, RefillIsEarned DEF LimiterTypeOK
    <2>4. ASSUME NEW t \in 1..now'
          PROVE  /\ ~QuietSince(t)'
                 /\ Since(t)' + globalTokens' <= GlobalBurst + GlobalRate * (globalLast' - t)
      <3>1. ~QuietSince(t)'
        BY <2>1, <1>0 DEF QuietSince, Never
      <3>2. Since(t)' = Since(t)
        BY <2>1, <2>2 DEF Since
      <3>3. Since(t) + GlobalRefill <= GlobalBurst + GlobalRate * (now - t)
        BY <2>1, <1>0, RefillIsEarned
      <3> QED BY <3>1, <3>2, <3>3, <2>1
    <2>5. globalTokens' >= 0 /\ globalTokens' <= GlobalBurst /\ globalLast' <= now'
      BY <2>1, <1>0, RefillIsEarned
    <2> QED BY <2>3, <2>4, <2>5, <1>0 DEF LimiterInv, Budget
  <1>2. CASE AdmitClient(k)
    <2>1. PICK spent \in {0, 1} :
              /\ stats'.responses = stats.responses + spent
              /\ globalTokens' = (IF GlobalRate > 0 THEN GlobalRefill ELSE globalTokens) - spent
      BY <1>2, AdmitSpends
    <2>2. /\ stats' \in Stats /\ answered' = answered
          /\ globalLast' = (IF GlobalRate > 0 THEN now ELSE globalLast)
          /\ (GlobalRate > 0 => GlobalRefill >= 1)
      BY <1>2, AdmitSpends
    <2>3. LimiterTypeOK'
      <3>1. GlobalRate > 0 => GlobalRefill \in Int
        BY RefillIsEarned
      <3> QED BY <2>1, <2>2, <3>1, <1>0 DEF LimiterTypeOK
    <2>4. Budget'
      <3> SUFFICES ASSUME GlobalRate > 0 PROVE Budget'
        BY DEF Budget
      <3>1. globalTokens' = GlobalRefill - spent /\ globalLast' = now
            /\ GlobalRefill \in Nat /\ GlobalRefill <= GlobalBurst /\ GlobalRefill >= 1
        BY <2>1, <2>2, RefillIsEarned
      <3>2. globalTokens' >= 0 /\ globalTokens' <= GlobalBurst /\ globalLast' <= now'
        BY <3>1, <1>0
      <3>3. ASSUME NEW t \in 1..now'
            PROVE  /\ ~QuietSince(t)'
                   /\ Since(t)' + globalTokens' <= GlobalBurst + GlobalRate * (globalLast' - t)
        <4>1. ~QuietSince(t)'
          BY <3>1, <1>0 DEF QuietSince, Never
        <4>2. Since(t)' = Since(t) + spent /\ Since(t) \in Int
          BY <2>1, <2>2, <1>0 DEF Since
        <4>3. Since(t) + GlobalRefill <= GlobalBurst + GlobalRate * (now - t)
          BY <1>0, RefillIsEarned
        <4>4. Since(t)' + globalTokens' = Since(t) + GlobalRefill
          BY <4>2, <3>1
        <4> QED BY <4>1, <4>3, <4>4, <3>1
      <3> QED BY <3>2, <3>3 DEF Budget
    <2> QED BY <2>3, <2>4, <1>0 DEF LimiterInv
  <1> QED BY <1>1, <1>2 DEF Admit

\* The invariant bounds the answers since every tick.
LEMMA LimiterInvBounds == LimiterInv => ResponsesAreBounded
  <1> SUFFICES ASSUME LimiterInv, GlobalRate > 0, NEW t \in 1..now
               PROVE  Since(t) <= GlobalBurst + GlobalRate * (now - t)
    BY DEF ResponsesAreBounded, Since
  <1>1. Since(t) + GlobalRefill <= GlobalBurst + GlobalRate * (now - t) /\ GlobalRefill \in Nat
    BY RefillIsEarned
  <1>2. Since(t) \in Int /\ GlobalBurst \in Nat /\ GlobalRate * (now - t) \in Nat
    <2>1. now - t \in Nat /\ stats.responses \in Nat /\ answered[t] \in Nat
      BY LimitsAssumption DEF LimiterInv, LimiterTypeOK, Stats
    <2> QED BY <2>1, LimitsAssumption, Earned DEF Since
  <1> DEFINE earned == GlobalRate * (now - t)
  <1> HIDE DEF earned
  <1>3. Since(t) <= GlobalBurst + earned
    BY <1>1, <1>2 DEF earned
  <1> QED BY <1>3 DEF earned

\* Every step keeps what the limiters count on (server.rs, admit_handle).
LEMMA StepKeepsLimiter == LimiterInv /\ [TableNext]_tableVars => LimiterInv'
  <1> SUFFICES ASSUME LimiterInv, [TableNext]_tableVars PROVE LimiterInv'
    OBVIOUS
  <1>1. CASE TableTick
    BY <1>1, TickKeepsLimiter
  <1>2. CASE \E k \in Keys : Admit(k)
    BY <1>2, AdmitKeepsLimiter
  <1>3. CASE UNCHANGED tableVars
    BY <1>3 DEF tableVars, limits, LimiterInv, LimiterTypeOK, Budget, QuietSince, Since
  <1> QED BY <1>1, <1>2, <1>3 DEF TableNext

\* However the requests are spread over addresses and over time, and whatever the table
\* evicts, no window of time sees more answers than the global burst and what the
\* global rate allows in it (server.rs, ClientTable::admit_handle).
THEOREM OutputIsBounded == TableSpec => []ResponsesAreBounded
  BY LimiterInit, StepKeepsLimiter, LimiterInvBounds, PTL DEF TableSpec

-----------------------------------------------------------------------------
\* Numbers, loops and buckets.

\* A set of numbers has a least one.
LEMMA LeastOf ==
    ASSUME NEW T \in SUBSET Nat, T # {}
    PROVE  \E m \in T : \A k \in T : m <= k
<1> DEFINE Below(m) == 0..(m - 1)
           R == StrictSubsetOrdering(Nat)
           Segments == {Below(m) : m \in T}
<1>1. \A m \in T : Below(m) \in FiniteSubsetsOf(Nat)
  BY FS_Interval DEF FiniteSubsetsOf
<1>2. Segments \subseteq FiniteSubsetsOf(Nat) /\ Segments # {}
  BY <1>1
<1>3. PICK x \in Segments : \A y \in Segments : ~ (<<y, x>> \in R)
  <2> HIDE DEF R, Segments
  <2> QED BY <1>2, FS_StrictSubsetOrderingWellFounded, WFMin DEF R
<1>4. PICK m \in T : x = Below(m)
  OBVIOUS
<1>5. ASSUME NEW k \in T, k < m PROVE FALSE
  <2>1. Below(k) \in Segments /\ <<Below(k), x>> \notin R
    BY <1>3
  <2>2. Below(k) \subseteq Below(m) /\ k \in Below(m) /\ k \notin Below(k)
    BY <1>5
  <2>3. Below(k) \in SUBSET Nat /\ Below(m) \in SUBSET Nat
    OBVIOUS
  <2> HIDE DEF Below, Segments
  <2> QED BY <2>1, <2>2, <2>3, <1>4 DEF StrictSubsetOrdering
<1> QED BY <1>4, <1>5

\* What a loop of m passes makes of a, pass by pass, when the n-th makes G[n][x] of x.
History(f, S, a, m, G) ==
    f \in [0..m -> S] /\ f[0] = a /\ \A n \in 1..m : f[n] = G[n][f[n - 1]]

\* The passes of a loop make one value after another, whatever each of them does.
LEMMA Iterates ==
    ASSUME NEW S, NEW a \in S, NEW m \in Nat, NEW G \in [1..m -> [S -> S]]
    PROVE  \E f : History(f, S, a, m, G)
<1> USE DEF History
<1> DEFINE Upto(k, f) == f \in [0..k -> S] /\ f[0] = a /\ \A n \in 1..k : f[n] = G[n][f[n - 1]]
           Missing == {k \in 0..m : ~ \E f : Upto(k, f)}
<1>1. SUFFICES ASSUME Missing # {} PROVE FALSE
  <2>1. m \in 0..m
    OBVIOUS
  <2> QED BY <2>1
<1>2. PICK k \in Missing : \A j \in Missing : k <= j
  <2>1. Missing \in SUBSET Nat
    OBVIOUS
  <2> HIDE DEF Missing
  <2> QED BY <1>1, <2>1, LeastOf
<1>3. CASE k = 0
  <2>1. Upto(0, [n \in 0..0 |-> a])
    OBVIOUS
  <2> QED BY <1>2, <1>3, <2>1
<1>4. CASE k # 0
  <2>1. k - 1 \in 0..m /\ k - 1 \notin Missing /\ k \in 1..m
    BY <1>2, <1>4
  <2>2. PICK f : Upto(k - 1, f)
    BY <2>1
  <2> DEFINE g == [n \in 0..k |-> IF n = k THEN G[k][f[k - 1]] ELSE f[n]]
  <2>3. g \in [0..k -> S] /\ g[0] = a
    BY <2>1, <2>2
  <2>4. ASSUME NEW n \in 1..k PROVE g[n] = G[n][g[n - 1]]
    <3>1. CASE n = k
      <4>1. k \in 0..k /\ k - 1 \in 0..k /\ k - 1 # k
        BY <2>1
      <4>2. g[k] = G[k][f[k - 1]] /\ g[k - 1] = f[k - 1]
        BY <4>1
      <4> QED BY <3>1, <4>2
    <3>2. CASE n # k
      BY <3>2, <2>1, <2>2
    <3> QED BY <3>1, <3>2
  <2>5. Upto(k, g)
    BY <2>3, <2>4
  <2> QED BY <2>5
<1> QED BY <1>3, <1>4

-----------------------------------------------------------------------------
(* The ring of buckets.                                                    *)

\* The buckets of the index.
Buckets == 0..(Size - 1)

\* The index has four buckets or more to a client, and there is room for one client
\* at least (core server.rs, Index::with_capacity).
LEMMA SizeFacts == Size \in Nat /\ Size > 0 /\ Size >= 4 * Capacity /\ Capacity \in Nat /\ Capacity > 0
BY TableAssumption

\* A hash has an ideal bucket (server.rs, Index::probe).
LEMMA IdealIsABucket == ASSUME NEW h \in Nat PROVE Ideal(h) \in Buckets
BY SizeFacts DEF Ideal, Buckets

\* A scan goes forward and wraps around at the end of the index (server.rs, Index::probe).
LEMMA ForwardFacts ==
    ASSUME NEW i \in Buckets, NEW n \in 0..Size
    PROVE  /\ Forward(i, n) = (IF i + n < Size THEN i + n ELSE i + n - Size)
           /\ Forward(i, n) \in Buckets
<1>1. CASE i + n < Size
  <2>1. (i + n) % Size = i + n
    BY <1>1, SizeFacts DEF Buckets
  <2> QED BY <1>1, <2>1, SizeFacts DEF Forward, Buckets
<1>2. CASE i + n >= Size
  <2>1. (i + n) % Size = i + n - Size
    BY <1>2, SizeFacts DEF Buckets
  <2> QED BY <1>2, <2>1, SizeFacts DEF Forward, Buckets
<1> QED BY <1>1, <1>2, SizeFacts DEF Buckets

\* How far one bucket is ahead of another wraps around too (server.rs, Index::remove).
LEMMA AheadFacts ==
    ASSUME NEW i \in Buckets, NEW j \in Buckets
    PROVE  /\ Ahead(i, j) = (IF i >= j THEN i - j ELSE i - j + Size)
           /\ Ahead(i, j) \in Buckets
<1>1. CASE i >= j
  <2>1. (i - j) % Size = i - j
    BY <1>1, SizeFacts DEF Buckets
  <2> QED BY <1>1, <2>1, SizeFacts DEF Ahead, Buckets
<1>2. CASE i < j
  <2>1. (i - j) % Size = i - j + Size
    BY <1>2, SizeFacts DEF Buckets
  <2> QED BY <1>2, <2>1, SizeFacts DEF Ahead, Buckets
<1> QED BY <1>1, <1>2, SizeFacts DEF Buckets

\* Going forward by as much as one is ahead arrives.
LEMMA RingFacts ==
    ASSUME NEW i \in Buckets, NEW j \in Buckets
    PROVE  /\ Forward(j, Ahead(i, j)) = i
           /\ \A n \in Buckets : Ahead(Forward(j, n), j) = n
           /\ Ahead(i, j) = 0 <=> i = j
<1>0. Size \in Nat /\ i \in 0..(Size - 1) /\ j \in 0..(Size - 1) /\ Size > 0
  BY SizeFacts DEF Buckets
<1>1. Ahead(i, j) = (IF i >= j THEN i - j ELSE i - j + Size) /\ Ahead(i, j) \in 0..Size
  BY AheadFacts, <1>0 DEF Buckets
<1>2. Forward(j, Ahead(i, j)) = i
  <2> DEFINE d == Ahead(i, j)
  <2>1. Forward(j, d) = (IF j + d < Size THEN j + d ELSE j + d - Size)
    BY <1>1, ForwardFacts
  <2> HIDE DEF d
  <2>2. d = (IF i >= j THEN i - j ELSE i - j + Size)
    BY <1>1 DEF d
  <2>3. Forward(j, d) = i
    BY <1>0, <2>1, <2>2
  <2> QED BY <2>3 DEF d
<1>3. ASSUME NEW n \in Buckets PROVE Ahead(Forward(j, n), j) = n
  <2>1. n \in 0..Size /\ n < Size
    BY <1>0 DEF Buckets
  <2>2. Forward(j, n) = (IF j + n < Size THEN j + n ELSE j + n - Size) /\ Forward(j, n) \in Buckets
    BY <2>1, ForwardFacts
  <2> DEFINE f == Forward(j, n)
  <2>3. Ahead(f, j) = (IF f >= j THEN f - j ELSE f - j + Size)
    BY <2>2, AheadFacts
  <2>4. f = (IF j + n < Size THEN j + n ELSE j + n - Size)
    BY <2>2
  <2> HIDE DEF f
  <2>5. Ahead(f, j) = n
    BY <1>0, <2>1, <2>3, <2>4
  <2> QED BY <2>5 DEF f
<1>4. Ahead(i, j) = 0 <=> i = j
  BY <1>0, <1>1
<1> QED BY <1>2, <1>3, <1>4

\* What is ahead of a bucket is told by how far both are ahead of a third.
LEMMA AheadFrom ==
    ASSUME NEW s \in Buckets, NEW p \in Buckets, NEW x \in Buckets
    PROVE  Ahead(x, p) = (IF Ahead(p, s) <= Ahead(x, s) THEN Ahead(x, s) - Ahead(p, s)
                          ELSE Ahead(x, s) - Ahead(p, s) + Size)
<1>0. Size \in Nat /\ s \in 0..(Size - 1) /\ p \in 0..(Size - 1) /\ x \in 0..(Size - 1)
  BY SizeFacts DEF Buckets
<1>1. /\ Ahead(x, p) = (IF x >= p THEN x - p ELSE x - p + Size)
      /\ Ahead(p, s) = (IF p >= s THEN p - s ELSE p - s + Size)
      /\ Ahead(x, s) = (IF x >= s THEN x - s ELSE x - s + Size)
  BY AheadFacts
<1> QED BY <1>0, <1>1

\* What lies between a bucket of a path and the end of the path is on the path.
LEMMA Between ==
    ASSUME NEW a \in Buckets, NEW p \in Buckets, NEW q \in Buckets, NEW e \in Buckets,
           Ahead(p, a) < Ahead(q, a), Ahead(e, p) < Ahead(q, p)
    PROVE  Ahead(e, a) < Ahead(q, a)
<1>0. Size \in Nat /\ a \in 0..(Size - 1) /\ p \in 0..(Size - 1) /\ q \in 0..(Size - 1)
      /\ e \in 0..(Size - 1)
  BY SizeFacts DEF Buckets
<1>1. /\ Ahead(p, a) = (IF p >= a THEN p - a ELSE p - a + Size)
      /\ Ahead(q, a) = (IF q >= a THEN q - a ELSE q - a + Size)
      /\ Ahead(e, a) = (IF e >= a THEN e - a ELSE e - a + Size)
      /\ Ahead(e, p) = (IF e >= p THEN e - p ELSE e - p + Size)
      /\ Ahead(q, p) = (IF q >= p THEN q - p ELSE q - p + Size)
  BY AheadFacts
<1> QED BY <1>0, <1>1

-----------------------------------------------------------------------------
\* What a scan of the index finds.

\* There is an empty bucket.
HasRoom(b) == \E e \in Buckets : ~ Occupied(b, e)

\* The bucket that an entry would have in an empty index.
Home(b, i) == Ideal(b[i].hash)

\* Every bucket of the path from the ideal bucket of an entry to the entry is occupied.
Reached(b, i) ==
    \A x \in Buckets : Ahead(x, Home(b, i)) < Ahead(i, Home(b, i)) => Occupied(b, x)

\* The entries are those of the slots in L, one each.
Lists(b, slots, L) ==
    /\ \A i \in Buckets : Occupied(b, i) =>
          b[i].slot \in L /\ b[i].hash = hash[slots[b[i].slot].key]
    /\ \A i, j \in Buckets : Occupied(b, i) /\ b[i].slot = b[j].slot => i = j
    /\ \A s \in L : \E i \in Buckets : b[i].slot = s

\* The clients of the slots in L are different ones.
KeysDiffer(slots, L) ==
    /\ L \subseteq Slots
    /\ \A s \in L : slots[s].key \in Keys
    /\ \A r, s \in L : slots[r].key = slots[s].key => r = s

\* A bucket holds the hash and the slot of an entry.
BucketsOK(b) == b \in [Buckets -> [hash : Nat, slot : Nat]]

\* The index holds the clients of the slots in L, and each is reached.
IndexInv(b, slots, L) ==
    /\ BucketsOK(b)
    /\ KeysDiffer(slots, L)
    /\ Lists(b, slots, L)
    /\ \A i \in Buckets : Occupied(b, i) => Reached(b, i)

\* The first numbers are as many as their last one.
LEMMA FirstNumbers == ASSUME NEW n \in Nat PROVE IsFiniteSet(1..n) /\ Cardinality(1..n) = n
<1>1. Cardinality(1..n) = IF 1 > n THEN 0 ELSE n - 1 + 1
  BY FS_Interval
<1>2. IsFiniteSet(1..n)
  BY FS_Interval
<1> QED BY <1>1, <1>2

\* As many buckets are occupied as slots are listed, and not all are.
LEMMA Room ==
    ASSUME NEW b, NEW slots, NEW L, IndexInv(b, slots, L)
    PROVE  /\ HasRoom(b)
           /\ IsFiniteSet(L) /\ Cardinality(L) <= Capacity /\ Cardinality(L) \in Nat
           /\ Cardinality({i \in DOMAIN b : Occupied(b, i)}) = Cardinality(L)
<1> DEFINE O == {i \in DOMAIN b : Occupied(b, i)}
           f == [i \in O |-> b[i].slot]
<1>1. BucketsOK(b) /\ L \subseteq Slots /\ Lists(b, slots, L) /\ DOMAIN b = Buckets
  BY DEF IndexInv, KeysDiffer, BucketsOK
<1>2. IsFiniteSet(L) /\ Cardinality(L) <= Capacity /\ Cardinality(L) \in Nat
  <2>1. IsFiniteSet(Slots) /\ Cardinality(Slots) = Capacity
    BY SizeFacts, FirstNumbers DEF Slots
  <2> QED BY <1>1, <2>1, FS_Subset, FS_CardinalityType
<1>3. f \in Bijection(O, L)
  <2>1. \A i \in O : f[i] \in L
    BY <1>1 DEF Lists
  <2>2. \A i, j \in O : f[i] = f[j] => i = j
    BY <1>1 DEF Lists
  <2>3. ASSUME NEW s \in L PROVE \E i \in O : f[i] = s
    <3>1. PICK i \in Buckets : b[i].slot = s
      BY <1>1 DEF Lists
    <3>2. s # NIL
      BY <1>1, SizeFacts DEF Slots, NIL
    <3>3. i \in O
      BY <1>1, <3>1, <3>2 DEF Occupied
    <3> QED BY <3>1, <3>3
  <2>4. f \in [O -> L]
    BY <2>1
  <2>5. f \in Injection(O, L)
    BY <2>2, <2>4 DEF Injection, IsInjective
  <2>6. f \in Surjection(O, L)
    BY <2>3, <2>4 DEF Surjection
  <2> QED BY <2>5, <2>6 DEF Bijection
<1> HIDE DEF f
<1>4. O \subseteq Buckets
  BY <1>1
<1>5. IsFiniteSet(Buckets) /\ Cardinality(Buckets) = Size
  <2>1. IsFiniteSet(Buckets) /\ Cardinality(Buckets) = IF 0 > Size - 1 THEN 0 ELSE (Size - 1) - 0 + 1
    BY SizeFacts, FS_Interval DEF Buckets
  <2> QED BY <2>1, SizeFacts
<1>6. IsFiniteSet(O) /\ Cardinality(O) = Cardinality(L)
  <2> HIDE DEF O
  <2>1. IsFiniteSet(O)
    BY <1>4, <1>5, FS_Subset
  <2> QED BY <1>3, <2>1, FS_Bijection DEF ExistsBijection
<1>7. HasRoom(b)
  <2>1. SUFFICES ASSUME O = Buckets PROVE FALSE
    BY <1>1 DEF HasRoom
  <2> HIDE DEF O
  <2> QED BY <2>1, <1>2, <1>5, <1>6, SizeFacts
<1> QED BY <1>2, <1>6, <1>7

\* A run ends at the first empty bucket.
LEMMA RunFacts ==
    ASSUME NEW b, HasRoom(b), NEW i \in Buckets
    PROVE  \E stop \in Buckets :
              /\ Len(Run(b, i)) = stop /\ DOMAIN Run(b, i) = 1..stop
              /\ \A n \in 1..stop : Run(b, i)[n] = Forward(i, n - 1)
              /\ ~ Occupied(b, Forward(i, stop))
              /\ \A m \in 0..(stop - 1) : Occupied(b, Forward(i, m))
<1> DEFINE T == {n \in Buckets : ~ Occupied(b, Forward(i, n))}
           Ends(n) == /\ ~ Occupied(b, Forward(i, n))
                      /\ \A m \in 0..(n - 1) : Occupied(b, Forward(i, m))
           stop == CHOOSE n \in 0..(Size - 1) : Ends(n)
<1>1. \E n \in 0..(Size - 1) : Ends(n)
  <2>1. PICK e \in Buckets : ~ Occupied(b, e)
    BY DEF HasRoom
  <2>2. Ahead(e, i) \in T
    BY <2>1, RingFacts, AheadFacts
  <2>3. T \in SUBSET Nat
    BY SizeFacts DEF Buckets
  <2>4. PICK n \in T : \A m \in T : n <= m
    <3> HIDE DEF T
    <3> QED BY <2>2, <2>3, LeastOf
  <2>5. n \in 0..(Size - 1) /\ ~ Occupied(b, Forward(i, n))
    BY <2>4 DEF Buckets
  <2>6. ASSUME NEW m \in 0..(n - 1) PROVE Occupied(b, Forward(i, m))
    <3>1. m \in Buckets /\ m < n
      BY <2>5, SizeFacts DEF Buckets
    <3> QED BY <3>1, <2>4, <2>5
  <2> QED BY <2>5, <2>6
<1>2. stop \in 0..(Size - 1) /\ Ends(stop)
  <2> HIDE DEF Ends
  <2> QED BY <1>1
<1>3. Run(b, i) = [n \in 1..stop |-> Forward(i, n - 1)]
  BY DEF Run
<1> HIDE DEF stop
<1>4. stop \in Buckets /\ stop \in Nat
  BY <1>2 DEF Buckets
<1>5. Len(Run(b, i)) = stop
  BY <1>3, <1>4
<1> QED BY <1>2, <1>3, <1>4, <1>5

\* A scan finds the one entry of a client.
LEMMA ProbeFinds ==
    ASSUME hash \in [Keys -> Nat], NEW t, NEW L, IndexInv(t.buckets, t.slots, L),
           NEW s \in L
    PROVE  /\ Probe(t, t.slots[s].key) \in Buckets
           /\ t.buckets[Probe(t, t.slots[s].key)].slot = s
           /\ Find(t, t.slots[s].key) = s
<1> DEFINE b == t.buckets
           k == t.slots[s].key
           a == Ideal(hash[k])
           run == Run(b, a)
           holds == {n \in DOMAIN run : /\ b[run[n]].hash = hash[k]
                                        /\ t.slots[b[run[n]].slot].key = k}
<1>1. /\ k \in Keys /\ hash[k] \in Nat /\ L \subseteq Slots /\ s # NIL
      /\ Lists(b, t.slots, L) /\ KeysDiffer(t.slots, L) /\ HasRoom(b)
  <2>1. KeysDiffer(t.slots, L) /\ Lists(b, t.slots, L) /\ HasRoom(b)
    BY Room DEF IndexInv
  <2>2. L \subseteq Slots /\ k \in Keys
    BY <2>1 DEF KeysDiffer
  <2> QED BY <2>1, <2>2 DEF Slots, NIL
<1>2. PICK i \in Buckets : b[i].slot = s
  BY <1>1 DEF Lists
<1>3. Occupied(b, i) /\ b[i].hash = hash[k] /\ Reached(b, i)
  BY <1>1, <1>2 DEF Lists, Occupied, IndexInv
<1>4. a \in Buckets
  BY <1>1, IdealIsABucket
<1>5. PICK stop \in Buckets :
              /\ Len(run) = stop /\ DOMAIN run = 1..stop
              /\ \A n \in 1..stop : run[n] = Forward(a, n - 1)
              /\ ~ Occupied(b, Forward(a, stop))
              /\ \A m \in 0..(stop - 1) : Occupied(b, Forward(a, m))
  BY <1>1, <1>4, RunFacts
<1>6. Ahead(i, a) < stop
  <2>1. Ahead(i, a) \in Buckets /\ Forward(a, stop) \in Buckets /\ Ahead(Forward(a, stop), a) = stop
        /\ Forward(a, Ahead(i, a)) = i
    <3>1. stop \in 0..Size
      BY SizeFacts DEF Buckets
    <3> QED BY <3>1, <1>4, <1>5, RingFacts, AheadFacts, ForwardFacts
  <2>2. ~ (Ahead(Forward(a, stop), a) < Ahead(i, a))
    BY <2>1, <1>3, <1>5 DEF Reached, Home
  <2>3. stop # Ahead(i, a)
    BY <2>1, <1>3, <1>5
  <2> QED BY <2>1, <2>2, <2>3, SizeFacts DEF Buckets
<1> DEFINE n0 == Ahead(i, a) + 1
<1>7. n0 \in DOMAIN run /\ run[n0] = i
  <2>1. Ahead(i, a) \in Buckets /\ Forward(a, Ahead(i, a)) = i
    BY <1>4, RingFacts, AheadFacts
  <2>2. n0 \in 1..stop /\ n0 - 1 = Ahead(i, a)
    BY <2>1, <1>6, SizeFacts DEF Buckets
  <2> QED BY <2>1, <2>2, <1>5
<1>8. n0 \in holds
  BY <1>2, <1>3, <1>7
<1>9. ASSUME NEW n \in holds PROVE n = n0
  <2>1. n \in DOMAIN run /\ t.slots[b[run[n]].slot].key = k
    OBVIOUS
  <2> HIDE DEF holds, run
  <2>2. stop \in 0..(Size - 1) /\ Size \in Nat /\ n \in 1..stop
    BY <1>5, <2>1, SizeFacts DEF Buckets
  <2> DEFINE d == n - 1
  <2>3. d \in Buckets /\ d \in 0..(stop - 1) /\ d \in 0..Size /\ n = d + 1
    BY <2>2 DEF Buckets
  <2>4. run[n] = Forward(a, d)
    BY <1>5, <2>2
  <2> HIDE DEF d
  <2>5. Occupied(b, run[n]) /\ run[n] \in Buckets
    BY <2>3, <2>4, <1>4, <1>5, ForwardFacts
  <2>6. b[run[n]].slot \in L
    BY <2>5, <1>1 DEF Lists
  <2>7. b[run[n]].slot = s
    BY <2>1, <2>6, <1>1 DEF KeysDiffer
  <2>8. run[n] = i
    BY <2>5, <2>7, <1>1, <1>2 DEF Lists
  <2>9. Ahead(i, a) = d
    <3>1. Ahead(Forward(a, d), a) = d
      <4> HIDE DEF a
      <4> QED BY <2>3, <1>4, RingFacts
    <3> QED BY <3>1, <2>4, <2>8
  <2> QED BY <2>3, <2>9
<1>10. Probe(t, k) = run[CHOOSE n \in holds : \A m \in holds : n <= m]
  <2>1. holds # {}
    BY <1>8
  <2> QED BY <2>1 DEF Probe
<1> HIDE DEF holds
<1>11. n0 <= n0
  <2>1. Ahead(i, a) \in Int
    BY <1>4, AheadFacts, SizeFacts DEF Buckets
  <2> QED BY <2>1
<1> HIDE DEF n0
<1>12. (CHOOSE n \in holds : \A m \in holds : n <= m) = n0
  <2>1. \E n \in holds : \A m \in holds : n <= m
    BY <1>8, <1>9, <1>11
  <2> QED BY <2>1, <1>9
<1>13. Probe(t, k) = i
  BY <1>7, <1>10, <1>12
<1>14. Find(t, k) = b[i].slot
  <2>1. i # Never
    BY SizeFacts DEF Buckets, Never
  <2> QED BY <1>13, <2>1 DEF Find
<1> QED BY <1>2, <1>13, <1>14

\* A scan for anyone else ends at the empty bucket.
LEMMA ProbeMisses ==
    ASSUME hash \in [Keys -> Nat], NEW t, NEW L, IndexInv(t.buckets, t.slots, L),
           NEW k \in Keys, \A s \in L : t.slots[s].key # k
    PROVE  Probe(t, k) = Never /\ Find(t, k) = NIL
<1> DEFINE b == t.buckets
           a == Ideal(hash[k])
           run == Run(b, a)
           holds == {n \in DOMAIN run : /\ b[run[n]].hash = hash[k]
                                        /\ t.slots[b[run[n]].slot].key = k}
<1>1. hash[k] \in Nat /\ Lists(b, t.slots, L) /\ HasRoom(b)
  BY Room DEF IndexInv
<1>2. a \in Buckets
  BY <1>1, IdealIsABucket
<1>3. PICK stop \in Buckets :
              /\ Len(run) = stop /\ DOMAIN run = 1..stop
              /\ \A n \in 1..stop : run[n] = Forward(a, n - 1)
              /\ ~ Occupied(b, Forward(a, stop))
              /\ \A m \in 0..(stop - 1) : Occupied(b, Forward(a, m))
  BY <1>1, <1>2, RunFacts
<1>4. ASSUME NEW n \in holds PROVE FALSE
  <2>1. n \in 1..stop /\ run[n] = Forward(a, n - 1) /\ n - 1 \in 0..(stop - 1)
    BY <1>3, SizeFacts DEF Buckets
  <2>2. Occupied(b, run[n]) /\ run[n] \in Buckets
    <3>1. n - 1 \in 0..Size
      BY <2>1, SizeFacts DEF Buckets
    <3> QED BY <2>1, <3>1, <1>2, <1>3, ForwardFacts
  <2> QED BY <2>2, <1>1 DEF Lists
<1>5. Probe(t, k) = Never
  <2>1. holds = {}
    BY <1>4
  <2> QED BY <2>1 DEF Probe
<1> QED BY <1>5 DEF Find

-----------------------------------------------------------------------------
\* Putting an entry in, and taking one out.

\* The type of a slot, and of a table.
SlotType == [key : Keys, prev : 0..Capacity, next : 0..Capacity, generation : Nat]
Tables == [slots : Seq(SlotType), free : Seq(Slots), mru : 0..Capacity, lru : 0..Capacity,
           buckets : [Buckets -> [hash : Nat, slot : Nat]]]

\* A new client's entry goes into the empty bucket that ends its scan, and the index then
\* holds it beside the others (server.rs, Index::insert).
LEMMA InsertKeeps ==
    ASSUME hash \in [Keys -> Nat], NEW t \in Tables, NEW L, IndexInv(t.buckets, t.slots, L),
           NEW k \in Keys, NEW s \in Slots \ L, t.slots[s].key = k,
           \A r \in L : t.slots[r].key # k
    PROVE  \E b \in [Buckets -> [hash : Nat, slot : Nat]] :
              /\ Insert(t, k, s) = [t EXCEPT !.buckets = b]
              /\ IndexInv(b, t.slots, L \cup {s})
<1> DEFINE a == Ideal(hash[k])
           run == Run(t.buckets, a)
           i == Forward(a, Len(run))
           new == [hash |-> hash[k], slot |-> s]
           b == [t.buckets EXCEPT ![i] = new]
<1>1. /\ hash[k] \in Nat /\ Lists(t.buckets, t.slots, L) /\ HasRoom(t.buckets)
      /\ KeysDiffer(t.slots, L) /\ t.buckets \in [Buckets -> [hash : Nat, slot : Nat]]
      /\ s \in Nat /\ s # NIL
      /\ \A j \in Buckets : Occupied(t.buckets, j) => Reached(t.buckets, j)
  <2>1. s \in Nat /\ s # NIL
    BY DEF Slots, NIL
  <2> QED BY <2>1, Room DEF IndexInv, Tables
<1>2. a \in Buckets
  BY <1>1, IdealIsABucket
<1>3. PICK stop \in Buckets :
              /\ Len(run) = stop /\ DOMAIN run = 1..stop
              /\ \A n \in 1..stop : run[n] = Forward(a, n - 1)
              /\ ~ Occupied(t.buckets, Forward(a, stop))
              /\ \A m \in 0..(stop - 1) : Occupied(t.buckets, Forward(a, m))
  BY <1>1, <1>2, RunFacts
<1>4. i \in Buckets /\ i = Forward(a, stop) /\ Ahead(i, a) = stop /\ ~ Occupied(t.buckets, i)
  <2>1. stop \in 0..Size
    BY SizeFacts DEF Buckets
  <2>2. Forward(a, stop) \in Buckets /\ Ahead(Forward(a, stop), a) = stop
    <3> HIDE DEF a
    <3> QED BY <2>1, <1>2, ForwardFacts, RingFacts
  <2> QED BY <2>2, <1>3
<1>5. Insert(t, k, s) = [t EXCEPT !.buckets = b]
  <2>1. Probe(t, k) = Never
    BY ProbeMisses
  <2>2. Insert(t, k, s) = [t EXCEPT !.buckets[i] = new]
    BY <2>1 DEF Insert
  <2> QED BY <2>2
<1>6. new \in [hash : Nat, slot : Nat] /\ b \in [Buckets -> [hash : Nat, slot : Nat]]
  BY <1>1
<1> HIDE DEF run, i
<1>7. /\ b[i] = new /\ Occupied(b, i)
      /\ \A j \in Buckets \ {i} : b[j] = t.buckets[j] /\ (Occupied(b, j) <=> Occupied(t.buckets, j))
  BY <1>1, <1>4 DEF Occupied
<1>8. \A j \in Buckets : Occupied(t.buckets, j) => Occupied(b, j)
  BY <1>7
<1> HIDE DEF b
<1>9. KeysDiffer(t.slots, L \cup {s})
  BY <1>1 DEF KeysDiffer
<1>10. Lists(b, t.slots, L \cup {s})
  <2>1. ASSUME NEW j \in Buckets, Occupied(b, j)
        PROVE  b[j].slot \in L \cup {s} /\ b[j].hash = hash[t.slots[b[j].slot].key]
    BY <2>1, <1>1, <1>7 DEF Lists
  <2>2. ASSUME NEW j \in Buckets, NEW l \in Buckets, Occupied(b, j), b[j].slot = b[l].slot PROVE j = l
    <3>1. Occupied(b, l)
      BY <2>2 DEF Occupied
    <3>2. CASE j = i
      <4>1. b[l].slot = s
        BY <2>2, <3>2, <1>7
      <4>2. CASE l # i
        <5>1. t.buckets[l].slot = s /\ Occupied(t.buckets, l)
          BY <4>1, <4>2, <3>1, <1>7
        <5> QED BY <5>1, <1>1 DEF Lists
      <4> QED BY <3>2, <4>2
    <3>3. CASE j # i
      <4>1. t.buckets[j].slot \in L /\ b[j].slot = t.buckets[j].slot /\ Occupied(t.buckets, j)
        BY <2>2, <3>3, <1>1, <1>7 DEF Lists
      <4>2. l # i
        <5>1. t.buckets[j].slot # s
          BY <4>1
        <5>2. b[i].slot = s
          BY <1>7
        <5>3. b[l].slot # s
          BY <2>2, <4>1, <5>1
        <5> QED BY <5>2, <5>3
      <4> QED BY <4>1, <4>2, <2>2, <1>1, <1>7 DEF Lists
    <3> QED BY <3>2, <3>3
  <2>3. ASSUME NEW r \in L \cup {s} PROVE \E j \in Buckets : b[j].slot = r
    <3>1. CASE r = s
      BY <3>1, <1>4, <1>7
    <3>2. CASE r \in L
      <4>1. PICK j \in Buckets : t.buckets[j].slot = r
        BY <3>2, <1>1 DEF Lists
      <4>2. r # NIL
        BY <3>2, <1>1, SizeFacts DEF KeysDiffer, Slots, NIL
      <4>3. j # i
        BY <4>1, <4>2, <1>4 DEF Occupied
      <4> QED BY <4>1, <4>3, <1>7
    <3> QED BY <3>1, <3>2
  <2> QED BY <2>1, <2>2, <2>3 DEF Lists
<1>11. ASSUME NEW j \in Buckets, Occupied(b, j) PROVE Reached(b, j)
  <2>1. CASE j = i
    <3>1. Home(b, j) = a
      BY <2>1, <1>7 DEF Home
    <3>2. ASSUME NEW x \in Buckets, Ahead(x, a) < Ahead(j, a) PROVE Occupied(b, x)
      <4> HIDE DEF a
      <4>1. Ahead(x, a) \in Buckets /\ Forward(a, Ahead(x, a)) = x
        BY <1>2, AheadFacts, RingFacts
      <4>2. Ahead(x, a) \in 0..(stop - 1)
        BY <4>1, <3>2, <2>1, <1>4, SizeFacts DEF Buckets
      <4>3. Occupied(t.buckets, x)
        BY <4>1, <4>2, <1>3
      <4> QED BY <4>3, <1>8
    <3> QED BY <3>1, <3>2 DEF Reached
  <2>2. CASE j # i
    <3>1. Reached(t.buckets, j) /\ Home(b, j) = Home(t.buckets, j)
      BY <2>2, <1>11, <1>1, <1>7 DEF Home
    <3> QED BY <3>1, <1>8 DEF Reached
  <2> QED BY <2>1, <2>2
<1>12. IndexInv(b, t.slots, L \cup {s})
  BY <1>6, <1>9, <1>10, <1>11 DEF IndexInv, BucketsOK
<1> QED BY <1>5, <1>6, <1>12

\* The buckets and the hole in them.
Shapes == [b : [Buckets -> [hash : Nat, slot : Nat]], hole : Buckets]

\* Between the passes of remove: the hole is one of the buckets passed, the entries are
\* those of the others, and only of an entry not yet passed may the hole be on the path.
Passed(s, b, start, slots, L, n) ==
    /\ s \in Shapes /\ Occupied(b, s.hole)
    /\ Ahead(s.hole, start) <= n
    /\ \A x \in Buckets : Occupied(s.b, x) <=> Occupied(b, x) /\ x # s.hole
    /\ \A x \in Buckets : Ahead(x, start) > n => s.b[x] = b[x]
    /\ Lists(s.b, slots, L)
    /\ \A i, x \in Buckets :
          Occupied(s.b, i) /\ Ahead(x, Home(s.b, i)) < Ahead(i, Home(s.b, i)) =>
              \/ Occupied(s.b, x)
              \/ x = s.hole /\ Ahead(i, start) > n

\* No bucket is ahead of another by the size of the index.
LEMMA AheadBounds ==
    ASSUME NEW i \in Buckets, NEW j \in Buckets
    PROVE  Ahead(i, j) \in Nat /\ Ahead(i, j) < Size
<1>1. Ahead(i, j) \in 0..(Size - 1) /\ Size \in Nat
  BY AheadFacts, SizeFacts DEF Buckets
<1> QED BY <1>1

\* The end of the run is a bucket the path of no entry crosses.
LEMMA PassKeeps ==
    ASSUME NEW b, NEW start \in Buckets, NEW slots, NEW L, L \subseteq Slots,
           NEW s, NEW n \in Nat, NEW i \in Buckets, NEW e \in Buckets,
           Ahead(i, start) = n + 1, Occupied(b, i),
           Ahead(e, start) > n + 1, ~ Occupied(b, e),
           Passed(s, b, start, slots, L, n)
    PROVE  Passed(Pass(s, i), b, start, slots, L, n + 1)
<1>0. /\ s \in Shapes /\ s.hole \in Buckets /\ s.b \in [Buckets -> [hash : Nat, slot : Nat]]
      /\ Ahead(s.hole, start) <= n /\ Lists(s.b, slots, L)
  BY DEF Passed, Shapes
<1>a. \A x \in Buckets : Ahead(x, start) \in Nat
  BY AheadBounds
<1>1. /\ s.b[i] = b[i] /\ Occupied(s.b, i) /\ i # s.hole
      /\ s.b[i] \in [hash : Nat, slot : Nat]
  <2>1. Ahead(i, start) > n
    OBVIOUS
  <2>2. Ahead(s.hole, start) # Ahead(i, start)
    BY <1>0, <1>a
  <2> QED BY <1>0, <2>1, <2>2 DEF Passed
<1> DEFINE a == Home(s.b, i)
           h == s.hole
<1>2. a \in Buckets /\ h \in Buckets
  BY <1>0, <1>1, IdealIsABucket DEF Home
<1>3. CASE ~ (Ahead(h, a) < Ahead(i, a))
  <2>1. Pass(s, i) = s
    BY <1>3 DEF Pass, MovesBack, Home
  <2>2. ASSUME NEW j \in Buckets, NEW x \in Buckets, Occupied(s.b, j),
               Ahead(x, Home(s.b, j)) < Ahead(j, Home(s.b, j)), ~ Occupied(s.b, x)
        PROVE  x = s.hole /\ Ahead(j, start) > n + 1
    <3>1. x = s.hole /\ Ahead(j, start) > n
      BY <2>2 DEF Passed
    <3>2. j # i
      BY <1>3, <2>2, <3>1
    <3>3. Ahead(j, start) # n + 1
      <4>1. Ahead(j, start) = Ahead(i, start) => j = i
        BY RingFacts
      <4> QED BY <3>2, <4>1
    <3> QED BY <1>a, <3>1, <3>3
  <2>3. \A x \in Buckets : Ahead(x, start) > n + 1 => Ahead(x, start) > n
    BY <1>a
  <2>4. Ahead(s.hole, start) <= n + 1
    BY <1>0, <1>a
  <2> QED BY <2>1, <2>2, <2>3, <2>4 DEF Passed
<1>4. CASE Ahead(h, a) < Ahead(i, a)
  <2> DEFINE m == [s.b EXCEPT ![h] = s.b[i], ![i] = EmptyBucket]
             p == [b |-> m, hole |-> i]
  <2>1. Pass(s, i) = p
    BY <1>4 DEF Pass, MovesBack, Home
  <2>2. /\ m[h] = s.b[i] /\ m[i] = EmptyBucket
        /\ \A x \in Buckets \ {h, i} : m[x] = s.b[x]
    BY <1>0, <1>1, <1>2
  <2>3. EmptyBucket \in [hash : Nat, slot : Nat] /\ EmptyBucket.slot = NIL
    BY DEF EmptyBucket, NIL
  <2>4. p \in Shapes /\ p.b = m /\ p.hole = i
    BY <1>0, <1>1, <2>3 DEF Shapes
  <2> HIDE DEF m, p
  <2>5. /\ Occupied(m, h) /\ ~ Occupied(m, i)
        /\ \A x \in Buckets \ {h, i} : Occupied(m, x) <=> Occupied(s.b, x)
        /\ ~ Occupied(s.b, h)
    BY <1>0, <1>1, <1>2, <2>2, <2>3 DEF Occupied, Passed
  <2>6. \A x \in Buckets : Occupied(m, x) <=> Occupied(b, x) /\ x # i
    <3>1. Occupied(b, h)
      BY <1>0 DEF Passed
    <3> QED BY <2>5, <3>1 DEF Passed
  <2>7. \A x \in Buckets : Ahead(x, start) > n + 1 => m[x] = b[x]
    <3> SUFFICES ASSUME NEW x \in Buckets, Ahead(x, start) > n + 1 PROVE m[x] = b[x]
      OBVIOUS
    <3>1. x # i /\ x # h /\ Ahead(x, start) > n
      BY <1>0, <1>a
    <3> QED BY <3>1, <2>2 DEF Passed
  <2>8. Lists(m, slots, L)
    <3>1. ASSUME NEW j \in Buckets, Occupied(m, j)
          PROVE  \E l \in Buckets : m[j] = s.b[l] /\ Occupied(s.b, l) /\ (j = h => l = i) /\ (j # h => l = j /\ l # i)
      <4>1. j # i
        BY <3>1, <2>5
      <4>2. CASE j = h
        BY <4>2, <1>1, <2>2
      <4>3. CASE j # h
        BY <4>1, <4>3, <3>1, <2>2, <2>5
      <4> QED BY <4>2, <4>3
    <3>2. ASSUME NEW j \in Buckets, Occupied(m, j)
          PROVE  m[j].slot \in L /\ m[j].hash = hash[slots[m[j].slot].key]
      BY <3>1, <3>2, <1>0 DEF Lists
    <3>3. ASSUME NEW j \in Buckets, NEW l \in Buckets, Occupied(m, j), m[j].slot = m[l].slot PROVE j = l
      <4>1. Occupied(m, l)
        BY <3>3 DEF Occupied
      <4>2. PICK j1 \in Buckets : m[j] = s.b[j1] /\ Occupied(s.b, j1) /\ (j = h => j1 = i) /\ (j # h => j1 = j /\ j1 # i)
        BY <3>1, <3>3
      <4>3. PICK l1 \in Buckets : m[l] = s.b[l1] /\ Occupied(s.b, l1) /\ (l = h => l1 = i) /\ (l # h => l1 = l /\ l1 # i)
        BY <3>1, <4>1
      <4>4. j1 = l1
        BY <4>2, <4>3, <3>3, <1>0 DEF Lists
      <4> QED BY <4>2, <4>3, <4>4
    <3>4. ASSUME NEW r \in L PROVE \E j \in Buckets : m[j].slot = r
      <4>1. PICK j \in Buckets : s.b[j].slot = r
        BY <1>0 DEF Lists
      <4>2. Occupied(s.b, j)
        BY <4>1 DEF Occupied, Slots, NIL
      <4>3. j # h
        BY <4>2, <2>5
      <4>4. CASE j = i
        BY <4>1, <4>4, <2>2, <1>2
      <4>5. CASE j # i
        BY <4>1, <4>3, <4>5, <2>2
      <4> QED BY <4>4, <4>5
    <3> QED BY <3>2, <3>3, <3>4 DEF Lists
  <2>9. ASSUME NEW j \in Buckets, NEW x \in Buckets, Occupied(m, j),
               Ahead(x, Home(m, j)) < Ahead(j, Home(m, j)), ~ Occupied(m, x)
        PROVE  x = i /\ Ahead(j, start) > n + 1
    <3>0. j # i
      BY <2>9, <2>5
    <3>1. CASE j = h
      <4>1. Home(m, j) = a
        BY <3>1, <2>2 DEF Home
      <4>2. a \in Buckets /\ Ahead(x, a) \in Nat /\ Ahead(h, a) \in Nat /\ Ahead(i, a) \in Nat
        BY <1>2, AheadBounds
      <4>3. Ahead(x, a) < Ahead(h, a) /\ Ahead(x, a) < Ahead(i, a)
        BY <4>1, <4>2, <2>9, <3>1, <1>4
      <4>4. x # h /\ x # i
        BY <4>2, <4>3
      <4>5. Occupied(s.b, x)
        BY <4>3, <4>4, <1>1 DEF Passed
      <4> QED BY <4>4, <4>5, <2>5, <2>9
    <3>2. CASE j # h
      <4>1. Occupied(s.b, j) /\ Home(m, j) = Home(s.b, j) /\ s.b[j].hash \in Nat
        BY <3>0, <3>2, <2>2, <2>5, <2>9, <1>0 DEF Home
      <4> DEFINE c == Home(s.b, j)
      <4>2. c \in Buckets
        BY <4>1, IdealIsABucket DEF Home
      <4>3. Occupied(s.b, x) \/ x = h
        BY <4>1, <2>9 DEF Passed
      <4>4. x = i
        BY <4>3, <2>5, <2>9
      <4>5. Ahead(i, c) < Ahead(j, c)
        BY <4>1, <4>4, <2>9
      <4>6. Ahead(j, start) # n + 1
        BY <3>0, RingFacts
      <4>7. ASSUME Ahead(j, start) <= n PROVE FALSE
        <5>1. /\ Ahead(e, i) = Ahead(e, start) - (n + 1)
              /\ Ahead(j, i) = Ahead(j, start) - (n + 1) + Size
          <6>1. /\ Ahead(e, i) = (IF Ahead(i, start) <= Ahead(e, start) THEN Ahead(e, start) - Ahead(i, start)
                                  ELSE Ahead(e, start) - Ahead(i, start) + Size)
                /\ Ahead(j, i) = (IF Ahead(i, start) <= Ahead(j, start) THEN Ahead(j, start) - Ahead(i, start)
                                  ELSE Ahead(j, start) - Ahead(i, start) + Size)
            BY AheadFrom
          <6>2. ~ (n + 1 <= Ahead(j, start)) /\ n + 1 <= Ahead(e, start)
            BY <4>7, <1>a
          <6> QED BY <6>1, <6>2
        <5>2. Ahead(e, start) < Size /\ Ahead(e, start) \in Nat /\ Ahead(j, start) \in Nat
          BY AheadBounds
        <5>3. Ahead(e, i) < Ahead(j, i)
          BY <5>1, <5>2, SizeFacts
        <5>4. Ahead(e, c) < Ahead(j, c)
          <6> HIDE DEF c
          <6> QED BY <5>3, <4>2, <4>5, Between
        <5>5. Occupied(s.b, e) \/ e = s.hole
          BY <5>4, <4>1 DEF Passed
        <5> QED BY <5>5 DEF Passed
      <4> QED BY <4>4, <4>6, <4>7, <1>a
    <3> QED BY <3>1, <3>2
  <2>10. Ahead(i, start) <= n + 1
    BY <1>a
  <2> QED BY <2>1, <2>4, <2>6, <2>7, <2>8, <2>9, <2>10 DEF Passed
<1> QED BY <1>3, <1>4

\* Going forward by one and then by n is going forward by n + 1.
LEMMA ForwardAdds ==
    ASSUME NEW i \in Buckets, NEW n \in Nat, n < Size
    PROVE  Forward(i, 1) \in Buckets /\ Forward(Forward(i, 1), n) = Forward(i, n + 1)
<1>0. Size \in Nat /\ Size > 1 /\ i \in 0..(Size - 1) /\ 1 \in 0..Size /\ n \in 0..Size /\ n + 1 \in 0..Size
  BY SizeFacts DEF Buckets
<1> DEFINE j == Forward(i, 1)
<1>1. j \in Buckets /\ j = (IF i + 1 < Size THEN i + 1 ELSE i + 1 - Size)
  BY <1>0, ForwardFacts
<1>2. /\ Forward(i, n + 1) = (IF i + (n + 1) < Size THEN i + (n + 1) ELSE i + (n + 1) - Size)
      /\ Forward(j, n) = (IF j + n < Size THEN j + n ELSE j + n - Size)
  <2> HIDE DEF j
  <2> QED BY <1>0, <1>1, ForwardFacts
<1> HIDE DEF j
<1>3. Forward(j, n) = Forward(i, n + 1)
  BY <1>0, <1>1, <1>2
<1> QED BY <1>1, <1>3 DEF j

\* A pass of the backward shift leaves an index and a hole in it.
LEMMA PassStaysInShape ==
    ASSUME NEW s \in Shapes, NEW i \in Buckets
    PROVE  Pass(s, i) \in Shapes
<1>1. EmptyBucket \in [hash : Nat, slot : Nat] /\ s.b \in [Buckets -> [hash : Nat, slot : Nat]]
      /\ s.hole \in Buckets /\ s.b[i] \in [hash : Nat, slot : Nat]
  BY DEF EmptyBucket, NIL, Shapes
<1> QED BY <1>1 DEF Pass, Shapes

\* The history of the passes.
LEMMA PassesFacts ==
    ASSUME NEW b \in [Buckets -> [hash : Nat, slot : Nat]], NEW start \in Buckets, NEW m \in Nat,
           Len(Run(b, Forward(start, 1))) = m,
           \A n \in 1..m : Run(b, Forward(start, 1))[n] \in Buckets
    PROVE  LET f == Passes(b, start)
           IN  /\ f[0] = [b |-> [b EXCEPT ![start] = EmptyBucket], hole |-> start]
               /\ \A n \in 1..m : f[n] = Pass(f[n - 1], Run(b, Forward(start, 1))[n])
<1> DEFINE rest == Run(b, Forward(start, 1))
           first == [b |-> [b EXCEPT ![start] = EmptyBucket], hole |-> start]
           P(f) == f = [n \in 0..Len(rest) |-> IF n = 0 THEN first ELSE Pass(f[n - 1], rest[n])]
           G == [n \in 1..m |-> [s \in Shapes |-> Pass(s, rest[n])]]
<1>1. Passes(b, start) = CHOOSE f : P(f)
  BY DEF Passes
<1>2. first \in Shapes
  BY DEF Shapes, EmptyBucket, NIL
<1> HIDE DEF first, rest
<1>3. G \in [1..m -> [Shapes -> Shapes]]
  <2>1. ASSUME NEW n \in 1..m, NEW s \in Shapes PROVE Pass(s, rest[n]) \in Shapes
    BY PassStaysInShape DEF rest
  <2> QED BY <2>1
<1>4. PICK g \in [0..m -> Shapes] : g[0] = first /\ \A n \in 1..m : g[n] = G[n][g[n - 1]]
  <2> HIDE DEF G
  <2>1. \E g : History(g, Shapes, first, m, G)
    BY <1>2, <1>3, Iterates
  <2> QED BY <2>1 DEF History
<1>5. P(g)
  <2>1. Len(rest) = m
    BY DEF rest
  <2>2. ASSUME NEW n \in 0..m PROVE g[n] = IF n = 0 THEN first ELSE Pass(g[n - 1], rest[n])
    <3>1. CASE n = 0
      BY <3>1, <1>4
    <3>2. CASE n # 0
      <4>1. n \in 1..m /\ n - 1 \in 0..m
        BY <3>2
      <4>2. g[n - 1] \in Shapes
        BY <4>1
      <4>3. G[n][g[n - 1]] = Pass(g[n - 1], rest[n])
        BY <4>1, <4>2
      <4> QED BY <4>1, <4>3, <3>2, <1>4
    <3> QED BY <3>1, <3>2
  <2>3. g = [n \in 0..m |-> g[n]]
    OBVIOUS
  <2> QED BY <2>1, <2>2, <2>3
<1>6. P(Passes(b, start))
  <2> HIDE DEF P
  <2> QED BY <1>1, <1>5
<1> DEFINE f == Passes(b, start)
<1>7. f = [n \in 0..m |-> IF n = 0 THEN first ELSE Pass(f[n - 1], rest[n])]
  BY <1>6 DEF rest
<1> HIDE DEF f
<1>8. f[0] = first /\ \A n \in 1..m : f[n] = Pass(f[n - 1], rest[n])
  BY <1>7
<1> QED BY <1>8 DEF f, first, rest

\* The backward shift takes the one entry out and leaves every other where a scan finds it,
\* so that no tombstone is needed (server.rs, Index::remove).
LEMMA RemoveKeeps ==
    ASSUME hash \in [Keys -> Nat], NEW t \in Tables, NEW L, IndexInv(t.buckets, t.slots, L),
           NEW s \in L
    PROVE  \E b \in [Buckets -> [hash : Nat, slot : Nat]] :
              /\ RemoveKey(t, t.slots[s].key) = [t EXCEPT !.buckets = b]
              /\ IndexInv(b, t.slots, L \ {s})
<1> DEFINE b == t.buckets
           k == t.slots[s].key
           start == Probe(t, k)
           next == Forward(start, 1)
           rest == Run(b, next)
           f == Passes(b, start)
           M == L \ {s}
<1>1. /\ b \in [Buckets -> [hash : Nat, slot : Nat]] /\ Lists(b, t.slots, L) /\ HasRoom(b)
      /\ KeysDiffer(t.slots, L) /\ \A j \in Buckets : Occupied(b, j) => Reached(b, j)
  BY Room DEF IndexInv, BucketsOK
<1>2. start \in Buckets /\ b[start].slot = s
  BY ProbeFinds
<1>3. s \in Slots /\ s # NIL /\ M \subseteq Slots /\ Occupied(b, start)
  BY <1>1, <1>2 DEF KeysDiffer, Slots, NIL, Occupied
<1>4. next \in Buckets /\ \A n \in Nat : n < Size => Forward(next, n) = Forward(start, n + 1)
  <2>1. 0 \in Nat /\ 0 < Size
    BY SizeFacts
  <2> QED BY <1>2, <2>1, ForwardAdds
<1> HIDE DEF next
<1>5. PICK m \in Buckets :
              /\ Len(rest) = m /\ DOMAIN rest = 1..m
              /\ \A n \in 1..m : rest[n] = Forward(next, n - 1)
              /\ ~ Occupied(b, Forward(next, m))
              /\ \A n \in 0..(m - 1) : Occupied(b, Forward(next, n))
  BY <1>1, <1>4, RunFacts
<1>6. m \in Nat /\ m < Size /\ Size \in Nat /\ Size > 0
  BY SizeFacts DEF Buckets
<1> DEFINE e == Forward(next, m)
<1>7. e \in Buckets /\ ~ Occupied(b, e) /\ Ahead(e, start) = m + 1
  <2>1. e = Forward(start, m + 1) /\ m + 1 \in 0..Size /\ e \in Buckets
    <3>1. m \in 0..Size /\ m + 1 \in 0..Size
      BY <1>6
    <3>2. e \in Buckets
      BY <3>1, <1>4, ForwardFacts
    <3> QED BY <3>1, <3>2, <1>4, <1>6
  <2>2. e # start
    BY <1>3, <1>5
  <2>3. CASE m + 1 < Size
    <3>1. m + 1 \in Buckets
      BY <2>3, <1>6 DEF Buckets
    <3> HIDE DEF e, start
    <3> QED BY <2>1, <3>1, <1>2, <1>5, RingFacts DEF e
  <2>4. CASE m + 1 = Size
    <3>1. Forward(start, m + 1) = IF start + (m + 1) < Size THEN start + (m + 1) ELSE start + (m + 1) - Size
      BY <2>1, <1>2, ForwardFacts
    <3>2. start \in 0..(Size - 1)
      BY <1>2 DEF Buckets
    <3>3. e = start
      <4> HIDE DEF e, start
      <4> QED BY <2>1, <2>4, <3>1, <3>2, <1>6
    <3> QED BY <3>3, <2>2
  <2> QED BY <2>3, <2>4, <1>6
<1>8. ASSUME NEW n \in 1..m
      PROVE  rest[n] \in Buckets /\ Ahead(rest[n], start) = n /\ Occupied(b, rest[n])
  <2>0. n \in Nat /\ n - 1 \in Nat /\ n - 1 < Size /\ n - 1 \in 0..(m - 1) /\ n \in 0..Size /\ n \in Buckets
    BY <1>6 DEF Buckets
  <2>1. rest[n] = Forward(next, n - 1) /\ Occupied(b, rest[n])
    BY <2>0, <1>5
  <2>2. Forward(next, n - 1) = Forward(start, n)
    BY <2>0, <1>4
  <2> HIDE DEF start, rest
  <2> QED BY <2>0, <2>1, <2>2, <1>2, ForwardFacts, RingFacts
<1>9. /\ f[0] = [b |-> [b EXCEPT ![start] = EmptyBucket], hole |-> start]
      /\ \A n \in 1..m : f[n] = Pass(f[n - 1], rest[n])
  <2>1. /\ Len(Run(b, Forward(start, 1))) = m
        /\ \A n \in 1..m : Run(b, Forward(start, 1))[n] \in Buckets
    BY <1>5, <1>8 DEF next
  <2>2. LET g == Passes(b, start)
        IN  /\ g[0] = [b |-> [b EXCEPT ![start] = EmptyBucket], hole |-> start]
            /\ \A n \in 1..m : g[n] = Pass(g[n - 1], Run(b, Forward(start, 1))[n])
    <3> HIDE DEF start, b, rest, f
    <3> QED BY <2>1, <1>1, <1>2, <1>6, PassesFacts, ZenonT(30)
  <2> QED BY <2>2 DEF next
<1> HIDE DEF f, rest, start, e
<1>10. Passed(f[0], b, start, t.slots, M, 0)
  <2> DEFINE c == [b EXCEPT ![start] = EmptyBucket]
  <2>1. /\ EmptyBucket \in [hash : Nat, slot : Nat] /\ EmptyBucket.slot = NIL
        /\ c[start] = EmptyBucket /\ \A x \in Buckets \ {start} : c[x] = b[x]
        /\ c \in [Buckets -> [hash : Nat, slot : Nat]]
    BY <1>1, <1>2 DEF EmptyBucket, NIL
  <2> HIDE DEF c
  <2>2. f[0] \in Shapes /\ f[0].b = c /\ f[0].hole = start
    BY <1>2, <1>9, <2>1 DEF Shapes, c
  <2>3. \A x \in Buckets : Occupied(c, x) <=> Occupied(b, x) /\ x # start
    BY <2>1 DEF Occupied
  <2>4. Ahead(start, start) = 0 /\ \A x \in Buckets : x # start => Ahead(x, start) > 0
    <3>1. \A x \in Buckets : Ahead(x, start) \in Nat /\ (Ahead(x, start) = 0 <=> x = start)
      BY <1>2, AheadBounds, RingFacts
    <3> QED BY <3>1, <1>2
  <2>5. Lists(c, t.slots, M)
    <3>1. ASSUME NEW j \in Buckets, Occupied(c, j)
          PROVE  c[j].slot \in M /\ c[j].hash = hash[t.slots[c[j].slot].key]
      <4>1. j # start /\ c[j] = b[j] /\ Occupied(b, j)
        BY <3>1, <2>1, <2>3
      <4>2. b[j].slot # s
        BY <4>1, <1>1, <1>2 DEF Lists
      <4> QED BY <4>1, <4>2, <1>1 DEF Lists
    <3>2. ASSUME NEW j \in Buckets, NEW l \in Buckets, Occupied(c, j), c[j].slot = c[l].slot PROVE j = l
      <4>1. Occupied(c, l)
        BY <3>2 DEF Occupied
      <4>2. j # start /\ l # start /\ c[j] = b[j] /\ c[l] = b[l] /\ Occupied(b, j)
        BY <4>1, <3>2, <2>1, <2>3
      <4> QED BY <4>2, <3>2, <1>1 DEF Lists
    <3>3. ASSUME NEW r \in M PROVE \E j \in Buckets : c[j].slot = r
      <4>1. PICK j \in Buckets : b[j].slot = r
        BY <1>1 DEF Lists
      <4> QED BY <4>1, <1>2, <2>1
    <3> QED BY <3>1, <3>2, <3>3 DEF Lists
  <2>6. ASSUME NEW j \in Buckets, NEW x \in Buckets, Occupied(c, j),
               Ahead(x, Home(c, j)) < Ahead(j, Home(c, j))
        PROVE  Occupied(c, x) \/ (x = start /\ Ahead(j, start) > 0)
    <3>1. j # start /\ c[j] = b[j] /\ Occupied(b, j)
      BY <2>6, <2>1, <2>3
    <3>2. Reached(b, j) /\ Home(c, j) = Home(b, j)
      BY <3>1, <1>1 DEF Home
    <3>3. Occupied(b, x)
      BY <3>2, <2>6 DEF Reached
    <3> QED BY <3>1, <3>3, <2>3, <2>4
  <2>7. \A x \in Buckets : Ahead(x, start) > 0 => c[x] = b[x]
    BY <2>1, <2>4
  <2> QED BY <1>3, <2>2, <2>3, <2>4, <2>5, <2>6, <2>7 DEF Passed
<1>11. Passed(f[m], b, start, t.slots, M, m)
  <2> DEFINE Bad == {n \in 0..m : ~ Passed(f[n], b, start, t.slots, M, n)}
  <2>1. SUFFICES ASSUME Bad # {} PROVE FALSE
    BY <1>6
  <2>2. PICK n \in Bad : \A l \in Bad : n <= l
    <3>1. Bad \in SUBSET Nat
      OBVIOUS
    <3> HIDE DEF Bad
    <3> QED BY <2>1, <3>1, LeastOf
  <2>3. n # 0
    BY <1>10, <2>2
  <2> DEFINE l == n - 1
  <2>4. l \in Nat /\ l \in 0..m /\ l + 1 = n /\ n \in 1..m /\ ~ (n <= l)
    BY <2>2, <2>3, <1>6
  <2>5. Passed(f[l], b, start, t.slots, M, l) /\ f[n] = Pass(f[l], rest[n])
    BY <2>2, <2>4, <1>9
  <2>6. rest[n] \in Buckets /\ Ahead(rest[n], start) = l + 1 /\ Occupied(b, rest[n])
    BY <2>4, <1>8
  <2>7. Ahead(e, start) > l + 1
    BY <1>6, <1>7, <2>4
  <2> HIDE DEF l, b, M
  <2>8. Passed(f[n], b, start, t.slots, M, l + 1)
    BY <2>4, <2>5, <2>6, <2>7, <1>2, <1>3, <1>7, PassKeeps
  <2> QED BY <2>2, <2>4, <2>8 DEF b, M
<1> DEFINE c == f[m].b
           h == f[m].hole
<1>12. /\ c \in [Buckets -> [hash : Nat, slot : Nat]] /\ h \in Buckets
       /\ Lists(c, t.slots, M) /\ Ahead(h, start) <= m
       /\ \A x \in Buckets : Occupied(c, x) <=> Occupied(b, x) /\ x # h
  BY <1>11 DEF Passed, Shapes
<1>13. ASSUME NEW j \in Buckets, Occupied(c, j) PROVE Reached(c, j)
  <2> SUFFICES ASSUME NEW x \in Buckets, Ahead(x, Home(c, j)) < Ahead(j, Home(c, j)), ~ Occupied(c, x)
               PROVE  FALSE
    BY DEF Reached
  <2>1. x = h /\ Ahead(j, start) > m
    BY <1>11, <1>13 DEF Passed
  <2> DEFINE a == Home(c, j)
  <2>2. a \in Buckets
    BY <1>12, IdealIsABucket DEF Home
  <2>3. j # e
    BY <1>7, <1>12, <1>13
  <2>4. Ahead(j, start) # m + 1
    BY <2>3, <1>2, <1>7, RingFacts
  <2>5. /\ Ahead(j, start) \in Nat /\ Ahead(h, start) \in Nat /\ Ahead(e, start) = m + 1
        /\ Ahead(e, h) = (IF Ahead(h, start) <= Ahead(e, start) THEN Ahead(e, start) - Ahead(h, start)
                          ELSE Ahead(e, start) - Ahead(h, start) + Size)
        /\ Ahead(j, h) = (IF Ahead(h, start) <= Ahead(j, start) THEN Ahead(j, start) - Ahead(h, start)
                          ELSE Ahead(j, start) - Ahead(h, start) + Size)
    <3> HIDE DEF c, h
    <3> QED BY <1>2, <1>7, <1>12, AheadBounds, AheadFrom
  <2>6. Ahead(e, h) < Ahead(j, h)
    <3> HIDE DEF c, h
    <3> QED BY <2>1, <2>4, <2>5, <1>6, <1>12
  <2>7. Ahead(h, a) < Ahead(j, a)
    BY <2>1
  <2>8. Ahead(e, a) < Ahead(j, a)
    <3> HIDE DEF c, h, a
    <3> QED BY <2>2, <2>6, <2>7, <1>7, <1>12, Between
  <2>9. Occupied(c, e) \/ e = h
    BY <2>8, <1>7, <1>11, <1>13 DEF Passed
  <2>10. Ahead(e, start) <= m
    BY <2>9, <1>7, <1>12
  <2> QED BY <2>10, <1>6, <1>7
<1>14. KeysDiffer(t.slots, M)
  BY <1>1 DEF KeysDiffer
<1>15. RemoveKey(t, k) = [t EXCEPT !.buckets = c]
  <2>1. start # Never
    BY <1>2 DEF Buckets, Never
  <2> QED BY <2>1, <1>5 DEF RemoveKey, start, rest, next, f
<1> HIDE DEF c, b
<1>16. IndexInv(c, t.slots, M)
  BY <1>12, <1>13, <1>14 DEF IndexInv, BucketsOK
<1> QED BY <1>12, <1>15, <1>16

-----------------------------------------------------------------------------
\* The recency list.

(* The recency list: ord holds its n slots, the most recent first.  *)
\* What stands at place p of an order of n slots, and the slots of the order.
At(ord, n, p) == IF p \in 1..n THEN ord[p] ELSE NIL
Ran(ord, n) == {ord[p] : p \in 1..n}

\* An order names each of the N slots once at most.
Ranked(ord, n, N) ==
    /\ n \in Nat /\ ord \in [1..n -> 1..N]
    /\ \A p, q \in 1..n : ord[p] = ord[q] => p = q

\* The links of the table run through the slots in this order, and both ends are known.
Linked(t, ord, n) ==
    /\ Ranked(ord, n, Len(t.slots))
    /\ t.mru = At(ord, n, 1) /\ t.lru = At(ord, n, n)
    /\ \A p \in 1..n : /\ t.slots[ord[p]].prev = At(ord, n, p - 1)
                       /\ t.slots[ord[p]].next = At(ord, n, p + 1)

\* The table is well typed and holds no more slots than fit.
TableOK(t) == t \in Tables /\ Len(t.slots) <= Capacity

\* The slots are of whom they were.
SameClients(t, u) ==
    /\ Len(u.slots) = Len(t.slots) /\ u.free = t.free /\ u.buckets = t.buckets
    /\ \A s \in 1..Len(t.slots) : /\ u.slots[s].key = t.slots[s].key
                                  /\ u.slots[s].generation = t.slots[s].generation

\* The order without its p-th slot, and with a slot in front.
Without(ord, n, p) == [q \in 1..(n - 1) |-> IF q < p THEN ord[q] ELSE ord[q + 1]]
Cons(i, ord, n)    == [q \in 1..(n + 1) |-> IF q = 1 THEN i ELSE ord[q - 1]]

\* The fields of a table have their types.
LEMMA TableFacts ==
    ASSUME NEW t, TableOK(t)
    PROVE  /\ t = [slots |-> t.slots, free |-> t.free, mru |-> t.mru, lru |-> t.lru,
                   buckets |-> t.buckets]
           /\ t.slots \in Seq(SlotType) /\ t.free \in Seq(Slots)
           /\ Len(t.slots) \in Nat /\ Len(t.slots) <= Capacity
           /\ t.mru \in 0..Capacity /\ t.lru \in 0..Capacity
           /\ t.buckets \in [Buckets -> [hash : Nat, slot : Nat]]
           /\ \A s \in 1..Len(t.slots) : t.slots[s] \in SlotType
BY DEF TableOK, Tables

\* The three fields that a change of the recency list rewrites, one by one.
LEMMA Fields ==
    ASSUME NEW t \in Tables, NEW a, NEW m, NEW l
    PROVE  /\ [t EXCEPT !.slots = a, !.mru = m, !.lru = l] =
                 [slots |-> a, free |-> t.free, mru |-> m, lru |-> l, buckets |-> t.buckets]
           /\ [t EXCEPT !.slots = a, !.lru = l, !.mru = m] =
                 [slots |-> a, free |-> t.free, mru |-> m, lru |-> l, buckets |-> t.buckets]
<1>1. t = [slots |-> t.slots, free |-> t.free, mru |-> t.mru, lru |-> t.lru,
           buckets |-> t.buckets]
  BY DEF Tables
<1> DEFINE x == [t EXCEPT !.slots = a]
           y == [x EXCEPT !.mru = m]
           z == [x EXCEPT !.lru = l]
<1>2. x = [slots |-> a, free |-> t.free, mru |-> t.mru, lru |-> t.lru, buckets |-> t.buckets]
  BY <1>1
<1>3. /\ [t EXCEPT !.slots = a, !.mru = m, !.lru = l] = [y EXCEPT !.lru = l]
      /\ [t EXCEPT !.slots = a, !.lru = l, !.mru = m] = [z EXCEPT !.mru = m]
  OBVIOUS
<1> HIDE DEF x
<1>4. /\ y = [slots |-> a, free |-> t.free, mru |-> m, lru |-> t.lru, buckets |-> t.buckets]
      /\ z = [slots |-> a, free |-> t.free, mru |-> t.mru, lru |-> l, buckets |-> t.buckets]
  BY <1>2
<1> HIDE DEF y, z
<1>5. /\ [y EXCEPT !.lru = l] = [slots |-> a, free |-> t.free, mru |-> m, lru |-> l,
                                 buckets |-> t.buckets]
      /\ [z EXCEPT !.mru = m] = [slots |-> a, free |-> t.free, mru |-> m, lru |-> l,
                                 buckets |-> t.buckets]
  BY <1>4
<1> QED BY <1>3, <1>5

\* A link that is rewritten.
SetNext(S, j, v) == IF j = NIL THEN S ELSE [S EXCEPT ![j].next = v]
SetPrev(S, j, v) == IF j = NIL THEN S ELSE [S EXCEPT ![j].prev = v]

\* Rewriting a forward link changes nothing else.
LEMMA SetNextFacts ==
    ASSUME NEW S \in Seq(SlotType), NEW j \in 0..Len(S), NEW v \in 0..Capacity
    PROVE  /\ SetNext(S, j, v) \in Seq(SlotType) /\ Len(SetNext(S, j, v)) = Len(S)
           /\ \A s \in 1..Len(S) :
                 /\ SetNext(S, j, v)[s].key = S[s].key
                 /\ SetNext(S, j, v)[s].generation = S[s].generation
                 /\ SetNext(S, j, v)[s].prev = S[s].prev
                 /\ SetNext(S, j, v)[s].next = IF s = j THEN v ELSE S[s].next
<1>0. Len(S) \in Nat /\ \A s \in 1..Len(S) : S[s] \in SlotType
  OBVIOUS
<1>1. CASE j = NIL
  <2>1. SetNext(S, j, v) = S /\ \A s \in 1..Len(S) : s # j
    BY <1>1, <1>0 DEF SetNext, NIL
  <2> QED BY <2>1
<1>2. CASE j # NIL
  <2>1. j \in 1..Len(S)
    BY <1>2 DEF NIL
  <2> DEFINE x == [S[j] EXCEPT !.next = v]
  <2>2. /\ x \in SlotType /\ x.key = S[j].key /\ x.generation = S[j].generation
        /\ x.prev = S[j].prev /\ x.next = v
    BY <2>1, <1>0 DEF SlotType
  <2>3. SetNext(S, j, v) = [S EXCEPT ![j] = x]
    BY <1>2 DEF SetNext
  <2> HIDE DEF x
  <2>4. /\ [S EXCEPT ![j] = x] \in Seq(SlotType) /\ Len([S EXCEPT ![j] = x]) = Len(S)
        /\ \A s \in 1..Len(S) : [S EXCEPT ![j] = x][s] = IF s = j THEN x ELSE S[s]
    BY <2>1, <2>2
  <2> QED BY <2>2, <2>3, <2>4
<1> QED BY <1>1, <1>2

\* Rewriting a backward link changes nothing else.
LEMMA SetPrevFacts ==
    ASSUME NEW S \in Seq(SlotType), NEW j \in 0..Len(S), NEW v \in 0..Capacity
    PROVE  /\ SetPrev(S, j, v) \in Seq(SlotType) /\ Len(SetPrev(S, j, v)) = Len(S)
           /\ \A s \in 1..Len(S) :
                 /\ SetPrev(S, j, v)[s].key = S[s].key
                 /\ SetPrev(S, j, v)[s].generation = S[s].generation
                 /\ SetPrev(S, j, v)[s].next = S[s].next
                 /\ SetPrev(S, j, v)[s].prev = IF s = j THEN v ELSE S[s].prev
<1>0. Len(S) \in Nat /\ \A s \in 1..Len(S) : S[s] \in SlotType
  OBVIOUS
<1>1. CASE j = NIL
  <2>1. SetPrev(S, j, v) = S /\ \A s \in 1..Len(S) : s # j
    BY <1>1, <1>0 DEF SetPrev, NIL
  <2> QED BY <2>1
<1>2. CASE j # NIL
  <2>1. j \in 1..Len(S)
    BY <1>2 DEF NIL
  <2> DEFINE x == [S[j] EXCEPT !.prev = v]
  <2>2. /\ x \in SlotType /\ x.key = S[j].key /\ x.generation = S[j].generation
        /\ x.next = S[j].next /\ x.prev = v
    BY <2>1, <1>0 DEF SlotType
  <2>3. SetPrev(S, j, v) = [S EXCEPT ![j] = x]
    BY <1>2 DEF SetPrev
  <2> HIDE DEF x
  <2>4. /\ [S EXCEPT ![j] = x] \in Seq(SlotType) /\ Len([S EXCEPT ![j] = x]) = Len(S)
        /\ \A s \in 1..Len(S) : [S EXCEPT ![j] = x][s] = IF s = j THEN x ELSE S[s]
    BY <2>1, <2>2
  <2> QED BY <2>2, <2>3, <2>4
<1> QED BY <1>1, <1>2

\* What stands at a place of an order that names each slot once.
LEMMA AtFacts ==
    ASSUME NEW N \in Nat, NEW n, NEW ord, Ranked(ord, n, N), NEW p \in Int
    PROVE  /\ At(ord, n, p) \in 0..N
           /\ p \in 1..n => At(ord, n, p) = ord[p] /\ At(ord, n, p) \in 1..N
           /\ p \notin 1..n => At(ord, n, p) = NIL
           /\ \A q \in 1..n : At(ord, n, p) = ord[q] <=> p = q
<1>1. /\ n \in Nat /\ \A q \in 1..n : ord[q] \in 1..N /\ ord[q] # 0
      /\ \A q, r \in 1..n : ord[q] = ord[r] => q = r
  BY DEF Ranked
<1>2. CASE p \in 1..n
  BY <1>1, <1>2 DEF At
<1>3. CASE p \notin 1..n
  <2>1. At(ord, n, p) = 0
    BY <1>3 DEF At, NIL
  <2> QED BY <2>1, <1>1, <1>3 DEF NIL
<1> QED BY <1>2, <1>3

\* An order without one of its slots.
LEMMA WithoutFacts ==
    ASSUME NEW N \in Nat, NEW n, NEW ord, Ranked(ord, n, N), NEW p \in 1..n
    PROVE  LET w == Without(ord, n, p)
           IN  /\ n - 1 \in Nat /\ Ranked(w, n - 1, N)
               /\ \A q \in 1..(n - 1) : w[q] = IF q < p THEN ord[q] ELSE ord[q + 1]
               /\ Ran(w, n - 1) = Ran(ord, n) \ {ord[p]}
<1> DEFINE w == Without(ord, n, p)
<1>1. /\ n \in Nat /\ p \in Nat /\ 1 <= p /\ p <= n /\ n - 1 \in Nat
      /\ \A q \in 1..n : ord[q] \in 1..N
      /\ \A q, r \in 1..n : ord[q] = ord[r] => q = r
  BY DEF Ranked
<1>2. /\ \A q \in 1..(n - 1) : w[q] = IF q < p THEN ord[q] ELSE ord[q + 1]
      /\ DOMAIN w = 1..(n - 1)
      /\ w = [q \in 1..(n - 1) |-> w[q]]
  BY DEF Without
<1> HIDE DEF w
<1>3. ASSUME NEW q \in 1..(n - 1)
      PROVE  \E r \in 1..n : w[q] = ord[r] /\ r # p /\ r = IF q < p THEN q ELSE q + 1
  <2>1. CASE q < p
    <3>1. q \in 1..n /\ q # p
      BY <1>1, <2>1
    <3> QED BY <3>1, <2>1, <1>2
  <2>2. CASE ~ (q < p)
    <3>1. q + 1 \in 1..n /\ q + 1 # p
      BY <1>1, <2>2
    <3> QED BY <3>1, <2>2, <1>2
  <2> QED BY <2>1, <2>2
<1>4. ASSUME NEW r \in 1..n, r # p
      PROVE  \E q \in 1..(n - 1) : w[q] = ord[r]
  <2>1. CASE r < p
    <3>1. r \in 1..(n - 1)
      BY <1>1, <2>1
    <3> QED BY <3>1, <2>1, <1>2
  <2>2. CASE ~ (r < p)
    <3>1. r - 1 \in 1..(n - 1) /\ ~ (r - 1 < p) /\ (r - 1) + 1 = r
      BY <1>1, <2>2, <1>4
    <3>2. w[r - 1] = ord[(r - 1) + 1]
      BY <3>1, <1>2
    <3> QED BY <3>1, <3>2
  <2> QED BY <2>1, <2>2
<1>5. \A q \in 1..(n - 1) : w[q] \in 1..N
  BY <1>1, <1>3
<1>6. w \in [1..(n - 1) -> 1..N]
  BY <1>2, <1>5
<1>7. ASSUME NEW q \in 1..(n - 1), NEW r \in 1..(n - 1), w[q] = w[r]
      PROVE  q = r
  <2>1. PICK a \in 1..n : w[q] = ord[a] /\ a = IF q < p THEN q ELSE q + 1
    BY <1>3
  <2>2. PICK b \in 1..n : w[r] = ord[b] /\ b = IF r < p THEN r ELSE r + 1
    BY <1>3
  <2>3. a = b
    BY <2>1, <2>2, <1>1, <1>7
  <2>4. q \in Nat /\ r \in Nat /\ p \in Nat
    BY <1>1
  <2> QED BY <2>1, <2>2, <2>3, <2>4
<1>8. Ran(w, n - 1) = Ran(ord, n) \ {ord[p]}
  <2>1. ASSUME NEW s \in Ran(w, n - 1) PROVE s \in Ran(ord, n) \ {ord[p]}
    <3>1. PICK q \in 1..(n - 1) : s = w[q]
      BY <2>1 DEF Ran
    <3>2. PICK r \in 1..n : w[q] = ord[r] /\ r # p
      BY <1>3
    <3> QED BY <3>1, <3>2, <1>1 DEF Ran
  <2>2. ASSUME NEW s \in Ran(ord, n) \ {ord[p]} PROVE s \in Ran(w, n - 1)
    <3>1. PICK r \in 1..n : s = ord[r]
      BY <2>2 DEF Ran
    <3>2. PICK q \in 1..(n - 1) : w[q] = ord[r]
      BY <1>4, <3>1, <2>2
    <3> QED BY <3>1, <3>2 DEF Ran
  <2> QED BY <2>1, <2>2
<1>9. Ranked(w, n - 1, N)
  BY <1>1, <1>6, <1>7 DEF Ranked
<1> QED BY <1>1, <1>2, <1>8, <1>9 DEF w

\* An order with one more slot in front.
LEMMA ConsFacts ==
    ASSUME NEW N \in Nat, NEW n, NEW ord, Ranked(ord, n, N), NEW i \in 1..N, i \notin Ran(ord, n)
    PROVE  LET c == Cons(i, ord, n)
           IN  /\ n + 1 \in Nat /\ Ranked(c, n + 1, N)
               /\ c[1] = i /\ \A q \in 1..n : c[q + 1] = ord[q]
               /\ Ran(c, n + 1) = Ran(ord, n) \cup {i}
<1> DEFINE c == Cons(i, ord, n)
<1>1. /\ n \in Nat /\ n + 1 \in Nat
      /\ \A q \in 1..n : ord[q] \in 1..N /\ ord[q] # i
      /\ \A q, r \in 1..n : ord[q] = ord[r] => q = r
  BY DEF Ranked, Ran
<1>2. /\ \A q \in 1..(n + 1) : c[q] = IF q = 1 THEN i ELSE ord[q - 1]
      /\ c = [q \in 1..(n + 1) |-> c[q]]
  BY DEF Cons
<1> HIDE DEF c
<1>3. 1 \in 1..(n + 1) /\ c[1] = i
  <2>1. 1 \in 1..(n + 1)
    BY <1>1
  <2> QED BY <2>1, <1>2
<1>4. ASSUME NEW q \in 1..n PROVE q + 1 \in 1..(n + 1) /\ c[q + 1] = ord[q]
  <2>1. q + 1 \in 1..(n + 1) /\ q + 1 # 1 /\ (q + 1) - 1 = q
    BY <1>1
  <2>2. c[q + 1] = ord[(q + 1) - 1]
    BY <2>1, <1>2
  <2> QED BY <2>1, <2>2
<1>5. ASSUME NEW q \in 1..(n + 1), q # 1
      PROVE  q - 1 \in 1..n /\ c[q] = ord[q - 1]
  <2>1. q - 1 \in 1..n
    BY <1>1, <1>5
  <2> QED BY <2>1, <1>2, <1>5
<1>6. \A q \in 1..(n + 1) : c[q] \in 1..N
  BY <1>1, <1>3, <1>5
<1>7. ASSUME NEW q \in 1..(n + 1), NEW r \in 1..(n + 1), c[q] = c[r]
      PROVE  q = r
  <2>1. CASE q = 1 \/ r = 1
    BY <2>1, <1>1, <1>3, <1>5, <1>7
  <2>2. CASE q # 1 /\ r # 1
    <3>1. q - 1 \in 1..n /\ r - 1 \in 1..n /\ ord[q - 1] = ord[r - 1]
      BY <2>2, <1>5, <1>7
    <3>2. q - 1 = r - 1 /\ q \in Nat /\ r \in Nat
      BY <3>1, <1>1
    <3> QED BY <3>2
  <2> QED BY <2>1, <2>2
<1>8. Ran(c, n + 1) = Ran(ord, n) \cup {i}
  BY <1>3, <1>4, <1>5 DEF Ran
<1>9. Ranked(c, n + 1, N)
  BY <1>1, <1>2, <1>6, <1>7 DEF Ranked
<1> QED BY <1>1, <1>3, <1>4, <1>8, <1>9 DEF c

\* What unlink writes: the two neighbours are linked to each other and the ends follow
\* (server.rs, ClientTable::unlink).
LEMMA UnlinkIs ==
    ASSUME NEW t, TableOK(t), NEW i
    PROVE  LET prev == t.slots[i].prev
               next == t.slots[i].next
           IN  Unlink(t, i) = [slots |-> SetPrev(SetNext(t.slots, prev, next), next, prev),
                               free |-> t.free,
                               mru |-> IF prev = NIL THEN next ELSE t.mru,
                               lru |-> IF next = NIL THEN prev ELSE t.lru,
                               buckets |-> t.buckets]
<1> DEFINE prev == t.slots[i].prev
           next == t.slots[i].next
           m == IF prev = NIL THEN next ELSE t.mru
           l == IF next = NIL THEN prev ELSE t.lru
           behind == SetPrev(SetNext(t.slots, prev, next), next, prev)
<1>1. Unlink(t, i) = [t EXCEPT !.slots = behind, !.mru = m, !.lru = l]
  BY Zenon DEF Unlink, SetPrev, SetNext
<1> HIDE DEF behind, m, l
<1>2. Unlink(t, i) = [slots |-> behind, free |-> t.free, mru |-> m, lru |-> l,
                      buckets |-> t.buckets]
  BY <1>1, Fields DEF TableOK
<1> QED BY <1>2 DEF behind, m, l

\* Unlinking a slot of the list leaves the list of the others (server.rs, ClientTable::unlink).
LEMMA UnlinkFacts ==
    ASSUME NEW t, TableOK(t), NEW ord, NEW n, Linked(t, ord, n), NEW p \in 1..n
    PROVE  LET u == Unlink(t, ord[p])
           IN  /\ TableOK(u) /\ SameClients(t, u)
               /\ Linked(u, Without(ord, n, p), n - 1)
<1> DEFINE i == ord[p]
           prev == t.slots[i].prev
           next == t.slots[i].next
           ahead  == SetNext(t.slots, prev, next)
           behind == SetPrev(ahead, next, prev)
           m == IF prev = NIL THEN next ELSE t.mru
           l == IF next = NIL THEN prev ELSE t.lru
           u == Unlink(t, i)
           N == Len(t.slots)
           w == Without(ord, n, p)
<1>1. u = [slots |-> behind, free |-> t.free, mru |-> m, lru |-> l, buckets |-> t.buckets]
  BY UnlinkIs
<1>2. /\ N \in Nat /\ N <= Capacity /\ Capacity \in Nat /\ t.slots \in Seq(SlotType)
      /\ t.free \in Seq(Slots) /\ t.buckets \in [Buckets -> [hash : Nat, slot : Nat]]
      /\ t.mru \in 0..Capacity /\ t.lru \in 0..Capacity
  BY TableFacts, SizeFacts
<1>3. /\ Ranked(ord, n, N) /\ t.mru = At(ord, n, 1) /\ t.lru = At(ord, n, n)
      /\ prev = At(ord, n, p - 1) /\ next = At(ord, n, p + 1)
      /\ \A q \in 1..n : /\ t.slots[ord[q]].prev = At(ord, n, q - 1)
                         /\ t.slots[ord[q]].next = At(ord, n, q + 1)
  BY DEF Linked
<1>4. /\ n \in Nat /\ p \in Int /\ p - 1 \in Int /\ p + 1 \in Int /\ 1 \in Int
      /\ \A q \in 1..n : ord[q] \in 1..N
  BY <1>3 DEF Ranked
<1>5. prev \in 0..N /\ next \in 0..N
  BY <1>2, <1>3, <1>4, AtFacts
<1> HIDE DEF prev, next
<1>6. prev \in 0..Capacity /\ next \in 0..Capacity
  BY <1>2, <1>5
<1>7. /\ ahead \in Seq(SlotType) /\ Len(ahead) = N
      /\ \A s \in 1..N : /\ ahead[s].key = t.slots[s].key
                         /\ ahead[s].generation = t.slots[s].generation
                         /\ ahead[s].prev = t.slots[s].prev
                         /\ ahead[s].next = IF s = prev THEN next ELSE t.slots[s].next
  BY <1>2, <1>5, <1>6, SetNextFacts
<1> HIDE DEF ahead
<1>8. /\ behind \in Seq(SlotType) /\ Len(behind) = N
      /\ \A s \in 1..N : /\ behind[s].key = ahead[s].key
                         /\ behind[s].generation = ahead[s].generation
                         /\ behind[s].next = ahead[s].next
                         /\ behind[s].prev = IF s = next THEN prev ELSE ahead[s].prev
  BY <1>7, <1>5, <1>6, SetPrevFacts
<1> HIDE DEF behind
<1>9. \A s \in 1..N : /\ behind[s].key = t.slots[s].key
                      /\ behind[s].generation = t.slots[s].generation
                      /\ behind[s].prev = IF s = next THEN prev ELSE t.slots[s].prev
                      /\ behind[s].next = IF s = prev THEN next ELSE t.slots[s].next
  BY <1>7, <1>8
<1>10. m \in 0..Capacity /\ l \in 0..Capacity
  BY <1>2, <1>6
<1> HIDE DEF m, l
<1>11. TableOK(u) /\ SameClients(t, u)
  <2>1. u \in Tables
    BY <1>1, <1>2, <1>8, <1>10 DEF Tables
  <2>2. u.slots = behind /\ u.free = t.free /\ u.buckets = t.buckets
    BY <1>1
  <2> QED BY <2>1, <2>2, <1>2, <1>8, <1>9 DEF TableOK, SameClients
<1>12. /\ n - 1 \in Nat /\ Ranked(w, n - 1, N)
       /\ \A q \in 1..(n - 1) : w[q] = IF q < p THEN ord[q] ELSE ord[q + 1]
  BY <1>2, <1>3, WithoutFacts
<1> HIDE DEF w
<1>13. /\ prev = IF p = 1 THEN NIL ELSE ord[p - 1]
       /\ next = IF p = n THEN NIL ELSE ord[p + 1]
  BY <1>3, <1>4 DEF At
<1>14. m = At(w, n - 1, 1)
  <2>1. CASE p = 1
    <3>1. m = At(ord, n, 2)
      BY <2>1, <1>3, <1>13 DEF m
    <3> QED BY <3>1, <2>1, <1>4, <1>12 DEF At
  <2>2. CASE p # 1
    <3>1. 1 \in 1..(n - 1) /\ 1 < p /\ 1 \in 1..n /\ p - 1 \in 1..n
      BY <2>2, <1>4
    <3>2. prev # NIL
      BY <3>1, <2>2, <1>13, <1>4 DEF NIL
    <3>3. m = ord[1]
      BY <3>1, <3>2, <1>3 DEF m, At
    <3> QED BY <3>1, <3>3, <1>12 DEF At
  <2> QED BY <2>1, <2>2
<1>15. l = At(w, n - 1, n - 1)
  <2>1. CASE p = n
    <3>1. l = At(ord, n, n - 1)
      BY <2>1, <1>3, <1>13 DEF l
    <3> QED BY <3>1, <2>1, <1>4, <1>12 DEF At
  <2>2. CASE p # n
    <3>1. n - 1 \in 1..(n - 1) /\ ~ (n - 1 < p) /\ n \in 1..n /\ p + 1 \in 1..n /\ (n - 1) + 1 = n
      BY <2>2, <1>4
    <3>2. next # NIL
      BY <3>1, <2>2, <1>13, <1>4 DEF NIL
    <3>3. l = ord[n]
      BY <3>1, <3>2, <1>3 DEF l, At
    <3> QED BY <3>1, <3>3, <1>12 DEF At
  <2> QED BY <2>1, <2>2
<1>16. ASSUME NEW r \in 1..n, NEW q \in 1..(n - 1), r = IF q < p THEN q ELSE q + 1
       PROVE  /\ behind[w[q]].prev = At(w, n - 1, q - 1)
              /\ behind[w[q]].next = At(w, n - 1, q + 1)
  <2>1. w[q] = ord[r] /\ ord[r] \in 1..N
    BY <1>4, <1>12, <1>16
  <2>2. r \in Int /\ q \in Int
    BY <1>4
  <2>3. (ord[r] = next <=> r = p + 1) /\ (ord[r] = prev <=> r = p - 1)
    <3>1. ASSUME NEW x \in Int PROVE (At(ord, n, x) = ord[r] <=> x = r)
      <4>1. N \in Nat /\ Ranked(ord, n, N)
        BY <1>2, <1>3
      <4> HIDE DEF N, i
      <4>2. \A y \in 1..n : At(ord, n, x) = ord[y] <=> x = y
        BY ONLY <4>1, <3>1, AtFacts
      <4> QED BY <4>2
    <3>2. (At(ord, n, p + 1) = ord[r] <=> p + 1 = r) /\ (At(ord, n, p - 1) = ord[r] <=> p - 1 = r)
      BY <3>1, <1>4
    <3> QED BY <3>2, <1>3
  <2>4. /\ behind[w[q]].prev = IF r = p + 1 THEN At(ord, n, p - 1) ELSE At(ord, n, r - 1)
        /\ behind[w[q]].next = IF r = p - 1 THEN At(ord, n, p + 1) ELSE At(ord, n, r + 1)
    BY <2>1, <2>3, <1>3, <1>9
  <2>5. (IF r = p + 1 THEN At(ord, n, p - 1) ELSE At(ord, n, r - 1)) = At(w, n - 1, q - 1)
    <3>1. CASE q < p
      BY <3>1, <2>2, <1>4, <1>12, <1>16 DEF At
    <3>2. CASE ~ (q < p)
      <4>1. CASE q = p
        <5>1. p - 1 \in 1..n <=> p - 1 \in 1..(n - 1)
          BY <4>1, <1>4, <1>12
        <5> QED BY <5>1, <4>1, <3>2, <2>2, <1>4, <1>12, <1>16 DEF At
      <4>2. CASE q # p
        <5>1. q - 1 \in 1..(n - 1) /\ ~ (q - 1 < p) /\ r - 1 = q /\ r # p + 1 /\ r - 1 \in 1..n
              /\ (q - 1) + 1 = q
          BY <4>2, <3>2, <2>2, <1>4, <1>12, <1>16
        <5> QED BY <5>1, <1>12 DEF At
      <4> QED BY <4>1, <4>2
    <3> QED BY <3>1, <3>2
  <2>6. (IF r = p - 1 THEN At(ord, n, p + 1) ELSE At(ord, n, r + 1)) = At(w, n - 1, q + 1)
    <3>1. CASE q < p
      <4>1. CASE q = p - 1
        <5>1. q + 1 = p /\ (p + 1 \in 1..n <=> p \in 1..(n - 1))
          BY <4>1, <1>4, <1>12
        <5> QED BY <5>1, <4>1, <3>1, <2>2, <1>4, <1>12, <1>16 DEF At
      <4>2. CASE q # p - 1
        <5>1. q + 1 \in 1..(n - 1) /\ q + 1 < p /\ r # p - 1 /\ r = q /\ q + 1 \in 1..n
          BY <4>2, <3>1, <2>2, <1>4, <1>12, <1>16
        <5> QED BY <5>1, <1>12 DEF At
      <4> QED BY <4>1, <4>2
    <3>2. CASE ~ (q < p)
      <4>1. r = q + 1 /\ r # p - 1 /\ (r + 1 \in 1..n <=> q + 1 \in 1..(n - 1)) /\ ~ (q + 1 < p)
        BY <3>2, <2>2, <1>4, <1>12, <1>16
      <4> QED BY <4>1, <1>12 DEF At
    <3> QED BY <3>1, <3>2
  <2> QED BY <2>4, <2>5, <2>6
<1>17. \A q \in 1..(n - 1) : (IF q < p THEN q ELSE q + 1) \in 1..n
  BY <1>4
<1>18. Linked(u, w, n - 1)
  <2>1. u.slots = behind /\ u.mru = m /\ u.lru = l
    BY <1>1
  <2> HIDE DEF u
  <2> QED BY <2>1, <1>8, <1>12, <1>14, <1>15, <1>16, <1>17 DEF Linked
<1> QED BY <1>11, <1>18 DEF w

\* What link_front writes: the slot's own links, the old front's and the ends (server.rs,
\* ClientTable::link_front).
LEMMA LinkFrontIs ==
    ASSUME NEW t, TableOK(t), NEW i, i # NIL
    PROVE  LinkFront(t, i) =
               [slots |-> SetPrev(SetNext(SetPrev(t.slots, i, NIL), i, t.mru), t.mru, i),
                free |-> t.free, mru |-> i, lru |-> IF t.mru = NIL THEN i ELSE t.lru,
                buckets |-> t.buckets]
<1> DEFINE linked == SetNext(SetPrev(t.slots, i, NIL), i, t.mru)
           front == SetPrev(linked, t.mru, i)
           l == IF t.mru = NIL THEN i ELSE t.lru
<1>1. [t.slots EXCEPT ![i].prev = NIL, ![i].next = t.mru] = linked
  BY Zenon DEF SetNext, SetPrev
<1>2. LinkFront(t, i) = [t EXCEPT !.slots = front, !.lru = l, !.mru = i]
  <2> HIDE DEF linked
  <2> QED BY <1>1, Zenon DEF LinkFront, SetPrev
<1> HIDE DEF front, l
<1>3. LinkFront(t, i) = [slots |-> front, free |-> t.free, mru |-> i, lru |-> l,
                         buckets |-> t.buckets]
  BY <1>2, Fields DEF TableOK
<1> QED BY <1>3 DEF front, l

\* Linking a slot that is on no list puts it in front (server.rs, ClientTable::link_front).
LEMMA LinkFrontFacts ==
    ASSUME NEW t, TableOK(t), NEW ord, NEW n, Linked(t, ord, n),
           NEW i \in 1..Len(t.slots), i \notin Ran(ord, n)
    PROVE  LET u == LinkFront(t, i)
           IN  /\ TableOK(u) /\ SameClients(t, u)
               /\ Linked(u, Cons(i, ord, n), n + 1)
<1> DEFINE N == Len(t.slots)
           clear == SetPrev(t.slots, i, NIL)
           linked == SetNext(clear, i, t.mru)
           front == SetPrev(linked, t.mru, i)
           l == IF t.mru = NIL THEN i ELSE t.lru
           u == LinkFront(t, i)
           c == Cons(i, ord, n)
<1>1. /\ N \in Nat /\ N <= Capacity /\ Capacity \in Nat /\ t.slots \in Seq(SlotType)
      /\ t.free \in Seq(Slots) /\ t.buckets \in [Buckets -> [hash : Nat, slot : Nat]]
      /\ t.mru \in 0..Capacity /\ t.lru \in 0..Capacity
  BY TableFacts, SizeFacts
<1>2. i # NIL /\ i \in 0..N /\ i \in 0..Capacity /\ i \in 1..N /\ NIL \in 0..Capacity
  BY <1>1 DEF NIL
<1>3. u = [slots |-> front, free |-> t.free, mru |-> i, lru |-> l, buckets |-> t.buckets]
  BY <1>2, LinkFrontIs
<1>4. /\ Ranked(ord, n, N) /\ t.mru = At(ord, n, 1) /\ t.lru = At(ord, n, n)
      /\ \A q \in 1..n : /\ t.slots[ord[q]].prev = At(ord, n, q - 1)
                         /\ t.slots[ord[q]].next = At(ord, n, q + 1)
  BY DEF Linked
<1>5. n \in Nat /\ 1 \in Int /\ n \in Int /\ \A q \in 1..n : ord[q] \in 1..N /\ ord[q] # i
  BY <1>4 DEF Ranked, Ran
<1>6. t.mru \in 0..N /\ t.mru # i
  <2>1. t.mru \in 0..N
    BY <1>1, <1>4, <1>5, AtFacts
  <2>2. t.mru # i
    BY <1>2, <1>4, <1>5 DEF At
  <2> QED BY <2>1, <2>2
<1>7. /\ clear \in Seq(SlotType) /\ Len(clear) = N
      /\ \A s \in 1..N : /\ clear[s].key = t.slots[s].key
                         /\ clear[s].generation = t.slots[s].generation
                         /\ clear[s].next = t.slots[s].next
                         /\ clear[s].prev = IF s = i THEN NIL ELSE t.slots[s].prev
  BY <1>1, <1>2, SetPrevFacts
<1> HIDE DEF clear
<1>8. /\ linked \in Seq(SlotType) /\ Len(linked) = N
      /\ \A s \in 1..N : /\ linked[s].key = clear[s].key
                         /\ linked[s].generation = clear[s].generation
                         /\ linked[s].prev = clear[s].prev
                         /\ linked[s].next = IF s = i THEN t.mru ELSE clear[s].next
  BY <1>1, <1>2, <1>7, SetNextFacts
<1> HIDE DEF linked
<1>9. /\ front \in Seq(SlotType) /\ Len(front) = N
      /\ \A s \in 1..N : /\ front[s].key = linked[s].key
                         /\ front[s].generation = linked[s].generation
                         /\ front[s].next = linked[s].next
                         /\ front[s].prev = IF s = t.mru THEN i ELSE linked[s].prev
  <2>1. t.mru \in 0..Len(linked) /\ Len(linked) = N /\ linked \in Seq(SlotType)
    BY <1>6, <1>8
  <2> HIDE DEF N
  <2> QED BY <2>1, <1>2, SetPrevFacts
<1> HIDE DEF front
<1>10. \A s \in 1..N : /\ front[s].key = t.slots[s].key
                       /\ front[s].generation = t.slots[s].generation
                       /\ front[s].next = IF s = i THEN t.mru ELSE t.slots[s].next
                       /\ front[s].prev = IF s = i THEN NIL
                                          ELSE IF s = t.mru THEN i ELSE t.slots[s].prev
  BY <1>6, <1>7, <1>8, <1>9
<1>11. l \in 0..Capacity
  BY <1>1, <1>2
<1> HIDE DEF l
<1>12. TableOK(u) /\ SameClients(t, u)
  <2>1. u \in Tables
    BY <1>1, <1>2, <1>3, <1>9, <1>11 DEF Tables
  <2>2. u.slots = front /\ u.free = t.free /\ u.buckets = t.buckets
    BY <1>3
  <2> QED BY <2>1, <2>2, <1>1, <1>9, <1>10 DEF TableOK, SameClients
<1>13. /\ n + 1 \in Nat /\ Ranked(c, n + 1, N)
       /\ c[1] = i /\ \A q \in 1..n : c[q + 1] = ord[q]
  BY <1>1, <1>4, ConsFacts
<1> HIDE DEF c
<1>14. At(c, n + 1, 1) = i /\ At(c, n + 1, 0) = NIL
  BY <1>5, <1>13 DEF At
<1>15. \A q \in Nat : q # 0 => At(c, n + 1, q + 1) = At(ord, n, q)
  BY <1>5, <1>13 DEF At
<1>16. l = At(c, n + 1, n + 1)
  <2>1. CASE n = 0
    <3>1. t.mru = NIL
      BY <2>1, <1>4 DEF At
    <3> QED BY <2>1, <3>1, <1>14 DEF l
  <2>2. CASE n # 0
    <3>1. t.mru # NIL
      BY <2>2, <1>4, <1>5 DEF At, NIL
    <3> QED BY <2>2, <3>1, <1>4, <1>5, <1>15 DEF l
  <2> QED BY <2>1, <2>2
<1>17. /\ front[c[1]].prev = At(c, n + 1, 1 - 1)
       /\ front[c[1]].next = At(c, n + 1, 1 + 1)
  <2>1. At(c, n + 1, 1 + 1) = At(ord, n, 1)
    BY <1>15
  <2> QED BY <2>1, <1>2, <1>4, <1>10, <1>13, <1>14
<1>18. ASSUME NEW q \in 1..n
       PROVE  /\ front[c[q + 1]].prev = At(c, n + 1, (q + 1) - 1)
              /\ front[c[q + 1]].next = At(c, n + 1, (q + 1) + 1)
  <2>1. /\ c[q + 1] = ord[q] /\ ord[q] \in 1..N /\ ord[q] # i
        /\ q \in Nat /\ q # 0 /\ q + 1 \in Nat /\ q + 1 # 0 /\ (q + 1) - 1 = q
    BY <1>5, <1>13
  <2>2. front[c[q + 1]].next = At(c, n + 1, (q + 1) + 1)
    <3>1. At(c, n + 1, (q + 1) + 1) = At(ord, n, q + 1)
      <4> DEFINE r == q + 1
      <4>1. r \in Nat /\ r # 0
        BY <2>1
      <4> HIDE DEF r
      <4>2. At(c, n + 1, r + 1) = At(ord, n, r)
        BY <4>1, <1>15
      <4> QED BY <4>2 DEF r
    <3>2. front[ord[q]].next = t.slots[ord[q]].next
      BY <2>1, <1>10
    <3>3. t.slots[ord[q]].next = At(ord, n, q + 1)
      BY <1>4
    <3> QED BY <3>1, <3>2, <3>3, <2>1
  <2>3. ord[q] = t.mru <=> q = 1
    BY <2>1, <1>4, <1>5 DEF At, Ranked
  <2>4. front[c[q + 1]].prev = IF q = 1 THEN i ELSE At(ord, n, q - 1)
    BY <2>1, <2>3, <1>4, <1>10
  <2>5. q # 1 => At(c, n + 1, (q - 1) + 1) = At(ord, n, q - 1)
    <3>1. q # 1 => q - 1 \in Nat /\ q - 1 # 0
      BY <2>1
    <3> QED BY <3>1, <1>15
  <2>6. (q - 1) + 1 = q /\ q - 1 + 1 = q
    BY <2>1
  <2> QED BY <2>1, <2>2, <2>4, <2>5, <2>6, <1>14
<1>19. ASSUME NEW q \in 1..(n + 1)
       PROVE  /\ front[c[q]].prev = At(c, n + 1, q - 1)
              /\ front[c[q]].next = At(c, n + 1, q + 1)
  <2>1. CASE q = 1
    BY <2>1, <1>17
  <2>2. CASE q # 1
    <3>1. q - 1 \in 1..n /\ (q - 1) + 1 = q
      BY <2>2, <1>5
    <3> DEFINE r == q - 1
    <3> HIDE DEF r
    <3>2. r \in 1..n /\ r + 1 = q
      BY <3>1 DEF r
    <3> QED BY <3>2, <1>18
  <2> QED BY <2>1, <2>2
<1>20. Linked(u, c, n + 1)
  <2>1. u.slots = front /\ u.mru = i /\ u.lru = l
    BY <1>3
  <2> HIDE DEF u
  <2> QED BY <2>1, <1>9, <1>13, <1>14, <1>16, <1>19 DEF Linked
<1> QED BY <1>12, <1>20 DEF c

-----------------------------------------------------------------------------
\* The table: list, free slots and index together.

\* The slots that are not on the list are the free ones.
FreeOK(t, ord, n) ==
    /\ \A a, b \in 1..Len(t.free) : t.free[a] = t.free[b] => a = b
    /\ \A a \in 1..Len(t.free) : t.free[a] \in 1..Len(t.slots) /\ t.free[a] \notin Ran(ord, n)
    /\ \A s \in 1..Len(t.slots) : s \in Ran(ord, n) \/ \E a \in 1..Len(t.free) : t.free[a] = s

\* The table is in order, its clients in the order of ord.
TableInv(t, ord, n) ==
    /\ TableOK(t) /\ Linked(t, ord, n) /\ FreeOK(t, ord, n)
    /\ IndexInv(t.buckets, t.slots, Ran(ord, n))

\* The index is indifferent to all of a slot but its key.
LEMMA IndexFrame ==
    ASSUME NEW b, NEW S, NEW S2, NEW L, IndexInv(b, S, L), \A s \in L : S2[s].key = S[s].key
    PROVE  IndexInv(b, S2, L)
<1>1. KeysDiffer(S2, L)
  BY DEF IndexInv, KeysDiffer
<1>2. Lists(b, S2, L)
  BY DEF IndexInv, Lists
<1> QED BY <1>1, <1>2 DEF IndexInv

\* An order has as many slots as it is long.
LEMMA RanCount ==
    ASSUME NEW N \in Nat, NEW n, NEW ord, Ranked(ord, n, N)
    PROVE  /\ n \in Nat /\ IsFiniteSet(Ran(ord, n)) /\ Cardinality(Ran(ord, n)) = n
           /\ Ran(ord, n) \subseteq 1..N
<1>1. n \in Nat /\ Ran(ord, n) \subseteq 1..N
  BY DEF Ranked, Ran
<1>2. ord \in Bijection(1..n, Ran(ord, n))
  <2>1. ord \in [1..n -> Ran(ord, n)]
    BY DEF Ranked, Ran
  <2>2. ord \in Injection(1..n, Ran(ord, n))
    BY <2>1 DEF Injection, IsInjective, Ranked
  <2>3. ord \in Surjection(1..n, Ran(ord, n))
    BY <2>1 DEF Surjection, Ran
  <2> QED BY <2>2, <2>3 DEF Bijection
<1>3. ExistsBijection(1..n, Ran(ord, n))
  BY <1>2 DEF ExistsBijection
<1> QED BY <1>1, <1>3, FirstNumbers, FS_Bijection

\* The order with its p-th slot in front.
Front(ord, n, p) == Cons(ord[p], Without(ord, n, p), n - 1)

\* Moving a slot to the front changes no membership, and nothing if it is there already.
LEMMA FrontFacts ==
    ASSUME NEW N \in Nat, NEW n, NEW ord, Ranked(ord, n, N), NEW p \in 1..n
    PROVE  /\ Ran(Front(ord, n, p), n) = Ran(ord, n)
           /\ Front(ord, n, 1) = ord
<1> DEFINE w == Without(ord, n, p)
<1>1. /\ n - 1 \in Nat /\ Ranked(w, n - 1, N) /\ Ran(w, n - 1) = Ran(ord, n) \ {ord[p]}
  BY WithoutFacts
<1>2. n \in Nat /\ ord[p] \in 1..N /\ ord[p] \in Ran(ord, n) /\ (n - 1) + 1 = n /\ n # 0
      /\ DOMAIN ord = 1..n /\ ord = [q \in 1..n |-> ord[q]]
  BY DEF Ranked, Ran
<1>3. Ran(Front(ord, n, p), n) = Ran(ord, n)
  <2> DEFINE m == n - 1
  <2>1. m \in Nat /\ Ranked(w, m, N) /\ ord[p] \notin Ran(w, m) /\ m + 1 = n
    BY <1>1, <1>2
  <2> HIDE DEF w, m
  <2>2. Ran(Cons(ord[p], w, m), m + 1) = Ran(w, m) \cup {ord[p]}
    BY <2>1, <1>2, ConsFacts
  <2> QED BY <2>1, <2>2, <1>1, <1>2 DEF Front, w, m
<1>4. Front(ord, n, 1) = ord
  <2>1. Front(ord, n, 1) = [q \in 1..n |-> IF q = 1 THEN ord[1] ELSE Without(ord, n, 1)[q - 1]]
    BY <1>2 DEF Front, Cons
  <2>2. ASSUME NEW q \in 1..n, q # 1 PROVE Without(ord, n, 1)[q - 1] = ord[q]
    <3>1. q - 1 \in 1..(n - 1) /\ ~ (q - 1 < 1) /\ (q - 1) + 1 = q
      BY <2>2, <1>2
    <3> QED BY <3>1 DEF Without
  <2> QED BY <2>1, <2>2, <1>2
<1> QED BY <1>3, <1>4

\* Touching a client of the list moves it to the front and leaves everything else as it was
\* (server.rs, ClientTable::touch).
LEMMA TouchFacts ==
    ASSUME NEW t, NEW ord, NEW n, TableInv(t, ord, n), NEW p \in 1..n
    PROVE  /\ TableInv(Touch(t, ord[p]), Front(ord, n, p), n)
           /\ SameClients(t, Touch(t, ord[p]))
<1> DEFINE N == Len(t.slots)
           i == ord[p]
           w == Without(ord, n, p)
           v == Unlink(t, i)
           f == Front(ord, n, p)
<1>1. /\ TableOK(t) /\ Linked(t, ord, n) /\ Ranked(ord, n, N) /\ N \in Nat
      /\ FreeOK(t, ord, n) /\ IndexInv(t.buckets, t.slots, Ran(ord, n))
  BY TableFacts DEF TableInv, Linked
<1>2. n \in Nat /\ n # 0 /\ i \in 1..N /\ (n - 1) + 1 = n /\ 1 \in 1..n /\ t.mru = ord[1]
      /\ Ran(ord, n) \subseteq 1..N
  <2>1. n \in Nat /\ n # 0 /\ i \in 1..N /\ (n - 1) + 1 = n /\ 1 \in 1..n
    BY <1>1 DEF Ranked
  <2>2. t.mru = ord[1]
    BY <1>1, <2>1 DEF Linked, At
  <2>3. Ran(ord, n) \subseteq 1..N
    BY <1>1, RanCount
  <2> QED BY <2>1, <2>2, <2>3
<1>3. Ran(f, n) = Ran(ord, n) /\ Front(ord, n, 1) = ord
  BY <1>1, FrontFacts
<1>4. CASE p = 1
  <2>1. Touch(t, i) = t /\ f = ord
    BY <1>4, <1>2, <1>3 DEF Touch
  <2> HIDE DEF f, i
  <2> QED BY <2>1 DEF f, i, SameClients
<1>5. CASE p # 1
  <2>1. Touch(t, i) = LinkFront(v, i)
    BY <1>5, <1>1, <1>2 DEF Touch, Ranked
  <2>2. TableOK(v) /\ SameClients(t, v) /\ Linked(v, w, n - 1)
    BY <1>1, UnlinkFacts
  <2>3. Ran(w, n - 1) = Ran(ord, n) \ {i}
    BY <1>1, WithoutFacts
  <2>4. i \in 1..Len(v.slots) /\ i \notin Ran(w, n - 1)
    BY <1>2, <2>2, <2>3 DEF SameClients
  <2> DEFINE u == LinkFront(v, i)
  <2>5. TableOK(u) /\ SameClients(v, u) /\ Linked(u, Cons(i, w, n - 1), (n - 1) + 1)
    <3> DEFINE m == n - 1
    <3> HIDE DEF v, w, m, i
    <3>1. TableOK(v) /\ Linked(v, w, m) /\ i \in 1..Len(v.slots) /\ i \notin Ran(w, m)
      BY <2>2, <2>4 DEF m
    <3>2. TableOK(u) /\ SameClients(v, u) /\ Linked(u, Cons(i, w, m), m + 1)
      BY <3>1, LinkFrontFacts
    <3> QED BY <3>2 DEF m
  <2>6. Linked(u, f, n)
    BY <2>5, <1>2 DEF Front
  <2> HIDE DEF u, v, f
  <2>7. SameClients(t, u)
    BY <2>2, <2>5 DEF SameClients
  <2>8. FreeOK(u, f, n)
    BY <2>7, <1>1, <1>3 DEF FreeOK, SameClients
  <2>9. IndexInv(u.buckets, u.slots, Ran(f, n))
    <3>1. \A s \in Ran(ord, n) : u.slots[s].key = t.slots[s].key
      BY <2>7, <1>2 DEF SameClients
    <3>2. u.buckets = t.buckets
      BY <2>7 DEF SameClients
    <3> QED BY <3>1, <3>2, <1>1, <1>3, IndexFrame
  <2>10. TableInv(u, f, n)
    BY <2>5, <2>6, <2>8, <2>9 DEF TableInv
  <2> QED BY <2>1, <2>7, <2>10 DEF u, f
<1> QED BY <1>4, <1>5

\* Any field of the table may be replaced.
LEMMA ReplaceFacts ==
    ASSUME NEW t \in Tables, NEW b, NEW f
    PROVE  /\ [t EXCEPT !.buckets = b] = [slots |-> t.slots, free |-> t.free, mru |-> t.mru,
                                          lru |-> t.lru, buckets |-> b]
           /\ [t EXCEPT !.free = f] = [slots |-> t.slots, free |-> f, mru |-> t.mru,
                                       lru |-> t.lru, buckets |-> t.buckets]
BY DEF Tables

\* Evicting takes the last client off the list and out of the index, and frees its slot,
\* whose key and generation stay until it is reused (server.rs, ClientTable::evict_one).
LEMMA EvictFacts ==
    ASSUME hash \in [Keys -> Nat], NEW t, NEW ord, NEW n, TableInv(t, ord, n), n # 0
    PROVE  /\ TableInv(Evict(t), Without(ord, n, n), n - 1)
           /\ Len(Evict(t).slots) = Len(t.slots)
           /\ \A s \in 1..Len(t.slots) : /\ Evict(t).slots[s].key = t.slots[s].key
                                         /\ Evict(t).slots[s].generation = t.slots[s].generation
<1> DEFINE N == Len(t.slots)
           i == ord[n]
           w == Without(ord, n, n)
           L == Ran(ord, n)
           v == Unlink(t, i)
<1>1. /\ TableOK(t) /\ Linked(t, ord, n) /\ Ranked(ord, n, N) /\ N \in Nat
      /\ FreeOK(t, ord, n) /\ IndexInv(t.buckets, t.slots, L)
  BY TableFacts DEF TableInv, Linked
<1>2. n \in Nat /\ n \in 1..n /\ i \in 1..N /\ i # NIL /\ t.lru = i
  <2>1. n \in Nat /\ n \in 1..n /\ i \in 1..N
    BY <1>1 DEF Ranked
  <2>2. t.lru = i
    BY <1>1, <2>1 DEF Linked, At
  <2> QED BY <2>1, <2>2 DEF NIL
<1>3. L \subseteq 1..N /\ i \in L
  BY <1>1, <1>2, RanCount DEF Ran
<1>4. TableOK(v) /\ SameClients(t, v) /\ Linked(v, w, n - 1)
  BY <1>1, <1>2, UnlinkFacts
<1>5. Ran(w, n - 1) = L \ {i}
  BY <1>1, <1>2, WithoutFacts
<1> HIDE DEF v, w, L, i
<1>6. v.slots[i].key = t.slots[i].key /\ v \in Tables /\ Len(v.slots) = N /\ N <= Capacity
      /\ v.buckets = t.buckets /\ v.free = t.free /\ t.free \in Seq(Slots)
  BY <1>1, <1>2, <1>4, TableFacts DEF SameClients, TableOK
<1>7. IndexInv(v.buckets, v.slots, L)
  <2>1. \A s \in L : v.slots[s].key = t.slots[s].key
    BY <1>3, <1>4 DEF SameClients
  <2> QED BY <2>1, <1>1, <1>6, IndexFrame
<1>8. PICK b \in [Buckets -> [hash : Nat, slot : Nat]] :
          /\ RemoveKey(v, t.slots[i].key) = [v EXCEPT !.buckets = b]
          /\ IndexInv(b, v.slots, L \ {i})
  BY <1>3, <1>6, <1>7, RemoveKeeps
<1> DEFINE u == Evict(t)
<1>9. u = [slots |-> v.slots, free |-> Append(t.free, i), mru |-> v.mru, lru |-> v.lru,
           buckets |-> b]
  <2> DEFINE x == RemoveKey(v, t.slots[i].key)
  <2>1. u = [x EXCEPT !.free = Append(@, i)]
    BY <1>2 DEF Evict, v
  <2>2. x = [slots |-> v.slots, free |-> t.free, mru |-> v.mru, lru |-> v.lru, buckets |-> b]
    BY <1>6, <1>8, ReplaceFacts
  <2> HIDE DEF x
  <2> QED BY <2>1, <2>2
<1> HIDE DEF u
<1>10. /\ u.slots = v.slots /\ u.free = Append(t.free, i) /\ u.mru = v.mru /\ u.lru = v.lru
       /\ u.buckets = b
  BY <1>9
<1>11. Append(t.free, i) \in Seq(Slots) /\ Len(Append(t.free, i)) = Len(t.free) + 1
       /\ Len(t.free) \in Nat
       /\ \A a \in 1..Len(t.free) : Append(t.free, i)[a] = t.free[a]
       /\ Append(t.free, i)[Len(t.free) + 1] = i
  <2>1. i \in Slots
    BY <1>2, <1>6, SizeFacts DEF Slots
  <2> QED BY <2>1, <1>6
<1>12. TableOK(u)
  <2>1. /\ v.slots \in Seq(SlotType) /\ v.mru \in 0..Capacity /\ v.lru \in 0..Capacity
    BY <1>4, TableFacts
  <2>2. u \in Tables
    BY <2>1, <1>9, <1>11 DEF Tables
  <2> QED BY <2>2, <1>6, <1>10 DEF TableOK
<1>13. Linked(u, w, n - 1)
  BY <1>4, <1>10 DEF Linked
<1>14. FreeOK(u, w, n - 1)
  <2> DEFINE F == Append(t.free, i)
             k == Len(t.free)
  <2>1. ASSUME NEW a \in 1..(k + 1), NEW c \in 1..(k + 1), F[a] = F[c] PROVE a = c
    <3>1. \A d \in 1..k : F[d] \notin L
      BY <1>1, <1>11 DEF FreeOK, L
    <3>2. a \in 1..k \/ a = k + 1
      BY <1>11
    <3>3. c \in 1..k \/ c = k + 1
      BY <1>11
    <3>4. F[k + 1] = i
      BY <1>11
    <3>5. a = k + 1 <=> c = k + 1
      BY <2>1, <3>1, <3>2, <3>3, <3>4, <1>3
    <3>6. a \in 1..k /\ c \in 1..k => a = c
      BY <2>1, <1>1, <1>11 DEF FreeOK
    <3> QED BY <3>2, <3>3, <3>5, <3>6
  <2>2. ASSUME NEW a \in 1..(k + 1) PROVE F[a] \in 1..N /\ F[a] \notin L \ {i}
    <3>1. a \in 1..k \/ a = k + 1
      BY <1>11
    <3> QED BY <3>1, <1>1, <1>2, <1>11 DEF FreeOK, L
  <2>3. ASSUME NEW s \in 1..N, s \notin L \ {i} PROVE \E a \in 1..(k + 1) : F[a] = s
    <3>1. CASE s = i
      <4>1. k + 1 \in 1..(k + 1)
        BY <1>11
      <4> QED BY <4>1, <3>1, <1>11
    <3>2. CASE s # i
      <4>1. PICK a \in 1..k : t.free[a] = s
        BY <3>2, <2>3, <1>1 DEF FreeOK, L
      <4>2. a \in 1..(k + 1)
        BY <1>11
      <4> QED BY <4>1, <4>2, <1>11
    <3> QED BY <3>1, <3>2
  <2>4. u.free = F /\ Len(F) = k + 1 /\ Len(u.slots) = N /\ Ran(w, n - 1) = L \ {i}
    BY <1>5, <1>6, <1>10, <1>11
  <2> HIDE DEF F, k, N
  <2>5. \A a, c \in 1..Len(F) : F[a] = F[c] => a = c
    BY <2>1, <2>4
  <2>6. \A a \in 1..Len(F) : F[a] \in 1..N /\ F[a] \notin L \ {i}
    BY <2>2, <2>4
  <2>7. \A s \in 1..N : s \in L \ {i} \/ \E a \in 1..Len(F) : F[a] = s
    BY <2>3, <2>4
  <2> QED BY <2>4, <2>5, <2>6, <2>7, Zenon DEF FreeOK
<1>15. IndexInv(u.buckets, u.slots, Ran(w, n - 1))
  BY <1>5, <1>8, <1>10
<1>16. TableInv(u, w, n - 1)
  BY <1>12, <1>13, <1>14, <1>15 DEF TableInv
<1>17. /\ Len(u.slots) = N
       /\ \A s \in 1..N : /\ u.slots[s].key = t.slots[s].key
                          /\ u.slots[s].generation = t.slots[s].generation
  BY <1>4, <1>10 DEF SameClients
<1> QED BY <1>16, <1>17 DEF u, w

\* A slot as alloc_slot fills it, and the table that has it.
Fresh(k, g) == [key |-> k, prev |-> NIL, next |-> NIL, generation |-> g]
Taken(t, k) ==
    LET i == SlotFor(t)
    IN  IF t.free = <<>>
        THEN [t EXCEPT !.slots = Append(@, Fresh(k, 0))]
        ELSE [t EXCEPT !.slots[i] = Fresh(k, @.generation + 1),
                       !.free = SubSeq(@, 1, Len(@) - 1)]

\* A slot that is given away was on no list, and handles to who had it go stale.
GivenAway(t, x, i, k) ==
    /\ Len(t.slots) <= Len(x.slots) /\ i \in 1..Len(x.slots) /\ x.slots[i].key = k
    /\ \A s \in 1..Len(t.slots) :
          IF s = i THEN x.slots[s].generation > t.slots[s].generation
          ELSE x.slots[s].key = t.slots[s].key /\ x.slots[s].generation = t.slots[s].generation

\* A slot taken from the free list is on no list, is new to its client and has a later
\* generation than before (server.rs, ClientTable::alloc_slot).
LEMMA TakenFromFree ==
    ASSUME NEW t, NEW ord, NEW n, TableInv(t, ord, n), NEW k \in Keys, t.free # <<>>
    PROVE  LET x == Taken(t, k)
               i == SlotFor(t)
           IN  /\ TableOK(x) /\ Linked(x, ord, n) /\ i \notin Ran(ord, n)
               /\ x.buckets = t.buckets /\ GivenAway(t, x, i, k)
               /\ FreeOK(x, Cons(i, ord, n), n + 1)
<1> DEFINE N == Len(t.slots)
           i == SlotFor(t)
           x == Taken(t, k)
           m == Len(t.free)
           new == Fresh(k, t.slots[i].generation + 1)
           S == [t.slots EXCEPT ![i] = new]
           F == SubSeq(t.free, 1, m - 1)
           L == Ran(ord, n)
<1>1. /\ TableOK(t) /\ Linked(t, ord, n) /\ Ranked(ord, n, N) /\ N \in Nat /\ N <= Capacity
      /\ FreeOK(t, ord, n) /\ t.slots \in Seq(SlotType) /\ t.free \in Seq(Slots)
      /\ Capacity \in Nat /\ t.mru \in 0..Capacity /\ t.lru \in 0..Capacity
      /\ t.buckets \in [Buckets -> [hash : Nat, slot : Nat]] /\ t \in Tables
  BY TableFacts, SizeFacts DEF TableInv, Linked, TableOK
<1>2. m \in Nat /\ m # 0 /\ m - 1 \in Nat /\ m \in 1..m /\ i = t.free[m]
  BY <1>1 DEF SlotFor
<1>3. i \in 1..N /\ i \notin L
  BY <1>1, <1>2 DEF FreeOK
<1>4. t.slots[i] \in SlotType /\ new \in SlotType /\ new.generation = t.slots[i].generation + 1
      /\ new.key = k /\ t.slots[i].generation \in Nat
  <2>1. t.slots[i] \in SlotType
    <3> HIDE DEF i, x, new, S, F, L, m
    <3> QED BY <1>1, <1>3
  <2> DEFINE g == t.slots[i].generation
  <2>2. g \in Nat
    BY <2>1 DEF SlotType
  <2> HIDE DEF g
  <2>3. g + 1 \in Nat /\ NIL \in 0..Capacity
    BY <2>2, <1>1 DEF NIL
  <2>4. /\ Fresh(k, g + 1) \in SlotType /\ Fresh(k, g + 1).key = k
        /\ Fresh(k, g + 1).generation = g + 1
    BY <2>3 DEF SlotType, Fresh
  <2> QED BY <2>1, <2>2, <2>4 DEF g
<1>5. /\ F \in Seq(Slots) /\ Len(F) = m - 1 /\ \A a \in 1..(m - 1) : F[a] = t.free[a]
  BY <1>1, <1>2
<1>6. x = [slots |-> S, free |-> F, mru |-> t.mru, lru |-> t.lru, buckets |-> t.buckets]
  <2>1. x = [t EXCEPT !.slots[i] = Fresh(k, @.generation + 1), !.free = SubSeq(@, 1, Len(@) - 1)]
    BY DEF Taken
  <2> DEFINE y == [t EXCEPT !.slots[i] = Fresh(k, @.generation + 1)]
  <2>2. x = [y EXCEPT !.free = SubSeq(@, 1, Len(@) - 1)]
    BY <2>1
  <2> HIDE DEF x, i
  <2>3. y = [t EXCEPT !.slots = S]
    BY <1>1 DEF Tables
  <2>4. y = [slots |-> S, free |-> t.free, mru |-> t.mru, lru |-> t.lru, buckets |-> t.buckets]
    <3> HIDE DEF S, y
    <3> QED BY <2>3, <1>1 DEF Tables
  <2> HIDE DEF y, S, N, m, new
  <2> QED BY <2>2, <2>4 DEF m
<1> HIDE DEF x, i, new, F
<1>7. /\ S \in Seq(SlotType) /\ Len(S) = N
      /\ \A s \in 1..N : S[s] = IF s = i THEN new ELSE t.slots[s]
  BY <1>1, <1>3, <1>4
<1> HIDE DEF S
<1>8. x.slots = S /\ x.free = F /\ x.mru = t.mru /\ x.lru = t.lru /\ x.buckets = t.buckets
  BY <1>6
<1>9. TableOK(x)
  <2>1. x \in Tables
    BY <1>1, <1>5, <1>6, <1>7 DEF Tables
  <2> QED BY <2>1, <1>1, <1>7, <1>8 DEF TableOK
<1>10. Linked(x, ord, n)
  <2>1. \A q \in 1..n : ord[q] \in 1..N /\ ord[q] # i
    BY <1>1, <1>3 DEF Ranked, Ran
  <2> QED BY <2>1, <1>1, <1>7, <1>8 DEF Linked
<1>11. GivenAway(t, x, i, k)
  <2>1. new.generation > t.slots[i].generation
    BY <1>4
  <2> QED BY <2>1, <1>1, <1>3, <1>4, <1>7, <1>8 DEF GivenAway
<1>12. Ran(Cons(i, ord, n), n + 1) = L \cup {i}
  BY <1>1, <1>3, ConsFacts
<1>13. FreeOK(x, Cons(i, ord, n), n + 1)
  <2>1. \A a \in 1..(m - 1) : a \in 1..m /\ a # m
    BY <1>2
  <2>2. \A a, c \in 1..(m - 1) : F[a] = F[c] => a = c
    BY <2>1, <1>1, <1>5 DEF FreeOK
  <2>3. \A a \in 1..(m - 1) : F[a] \in 1..N /\ F[a] \notin L \cup {i}
    BY <2>1, <1>1, <1>2, <1>5 DEF FreeOK
  <2>4. ASSUME NEW s \in 1..N, s \notin L \cup {i} PROVE \E a \in 1..(m - 1) : F[a] = s
    <3>1. PICK a \in 1..m : t.free[a] = s
      BY <2>4, <1>1 DEF FreeOK
    <3>2. a # m
      BY <3>1, <2>4, <1>2
    <3>3. a \in 1..(m - 1)
      BY <3>2, <1>2
    <3> QED BY <3>1, <3>3, <1>5
  <2>5. x.free = F /\ Len(x.free) = m - 1 /\ Len(x.slots) = N
    BY <1>5, <1>7, <1>8
  <2> QED BY <2>2, <2>3, <2>4, <2>5, <1>12 DEF FreeOK
<1> QED BY <1>3, <1>8, <1>9, <1>10, <1>11, <1>13 DEF x, i

\* A slot that is added at the end is on no list either (server.rs, ClientTable::alloc_slot).
LEMMA TakenFromEnd ==
    ASSUME NEW t, NEW ord, NEW n, TableInv(t, ord, n), NEW k \in Keys, t.free = <<>>, n < Capacity
    PROVE  LET x == Taken(t, k)
               i == SlotFor(t)
           IN  /\ TableOK(x) /\ Linked(x, ord, n) /\ i \notin Ran(ord, n)
               /\ x.buckets = t.buckets /\ GivenAway(t, x, i, k)
               /\ FreeOK(x, Cons(i, ord, n), n + 1)
<1> DEFINE N == Len(t.slots)
           i == SlotFor(t)
           x == Taken(t, k)
           new == Fresh(k, 0)
           S == Append(t.slots, new)
           L == Ran(ord, n)
<1>1. /\ TableOK(t) /\ Linked(t, ord, n) /\ Ranked(ord, n, N) /\ N \in Nat /\ N <= Capacity
      /\ FreeOK(t, ord, n) /\ t.slots \in Seq(SlotType) /\ t.free \in Seq(Slots)
      /\ Capacity \in Nat /\ t.mru \in 0..Capacity /\ t.lru \in 0..Capacity
      /\ t.buckets \in [Buckets -> [hash : Nat, slot : Nat]] /\ t \in Tables
  BY TableFacts, SizeFacts DEF TableInv, Linked, TableOK
<1>2. i = N + 1
  BY DEF SlotFor
<1>3. L \subseteq 1..N /\ i \notin L /\ Cardinality(L) = n /\ n \in Nat
  <2>1. L \subseteq 1..N /\ Cardinality(L) = n /\ n \in Nat
    BY <1>1, RanCount
  <2>2. i \notin 1..N
    BY <1>1, <1>2
  <2> QED BY <2>1, <2>2
<1>4. N + 1 <= Capacity
  <2>1. Len(t.free) = 0
    OBVIOUS
  <2>2. L = 1..N
    <3>1. \A s \in 1..N : s \in L
      BY <2>1, <1>1 DEF FreeOK
    <3> QED BY <3>1, <1>3
  <2>3. n = N
    BY <2>2, <1>1, <1>3, FirstNumbers
  <2> QED BY <2>3, <1>1
<1>5. new \in SlotType /\ new.key = k
  BY SizeFacts DEF SlotType, Fresh, NIL
<1>6. x = [slots |-> S, free |-> t.free, mru |-> t.mru, lru |-> t.lru, buckets |-> t.buckets]
  <2>1. x = [t EXCEPT !.slots = S]
    BY DEF Taken
  <2> HIDE DEF x, S
  <2> QED BY <2>1, <1>1 DEF Tables
<1> HIDE DEF x, i, new
<1>7. /\ S \in Seq(SlotType) /\ Len(S) = N + 1 /\ S[N + 1] = new
      /\ \A s \in 1..N : S[s] = t.slots[s]
  BY <1>1, <1>5
<1> HIDE DEF S
<1>8. x.slots = S /\ x.free = t.free /\ x.mru = t.mru /\ x.lru = t.lru /\ x.buckets = t.buckets
  BY <1>6
<1>9. TableOK(x)
  <2>1. x \in Tables
    BY <1>1, <1>6, <1>7 DEF Tables
  <2> QED BY <2>1, <1>4, <1>7, <1>8 DEF TableOK
<1>10. Linked(x, ord, n)
  <2>1. \A q \in 1..n : ord[q] \in 1..N /\ S[ord[q]] = t.slots[ord[q]]
    BY <1>1, <1>7 DEF Ranked
  <2>2. Ranked(ord, n, N + 1)
    <3>1. \A q \in 1..n : ord[q] \in 1..(N + 1)
      BY <2>1, <1>1
    <3> QED BY <3>1, <1>1 DEF Ranked
  <2> QED BY <2>1, <2>2, <1>1, <1>7, <1>8 DEF Linked
<1>11. GivenAway(t, x, i, k)
  <2>1. i \in 1..(N + 1) /\ N <= N + 1 /\ \A s \in 1..N : s # i
    BY <1>1, <1>2
  <2> QED BY <2>1, <1>2, <1>5, <1>7, <1>8 DEF GivenAway
<1>12. Ran(Cons(i, ord, n), n + 1) = L \cup {i}
  <2>1. Ranked(ord, n, N + 1) /\ N + 1 \in Nat /\ i \in 1..(N + 1)
    BY <1>1, <1>2, <1>7, <1>8, <1>10 DEF Linked
  <2> QED BY <2>1, <1>3, ConsFacts
<1>13. FreeOK(x, Cons(i, ord, n), n + 1)
  <2>1. Len(x.free) = 0 /\ Len(x.slots) = N + 1
    BY <1>7, <1>8
  <2>2. \A a \in 1..0 : FALSE
    OBVIOUS
  <2>3. \A s \in 1..(N + 1) : s \in L \cup {i}
    <3>1. Len(t.free) = 0
      OBVIOUS
    <3>2. \A s \in 1..N : s \in L
      BY <3>1, <2>2, <1>1 DEF FreeOK
    <3> QED BY <3>2, <1>1, <1>2
  <2> QED BY <2>1, <2>2, <2>3, <1>12 DEF FreeOK
<1> QED BY <1>3, <1>8, <1>9, <1>10, <1>11, <1>13 DEF x, i

\* A client that is given a slot is in front of the list and in the index, and stale handles
\* to the slot resolve no more (server.rs, ClientTable::alloc_slot).
LEMMA AllocFacts ==
    ASSUME hash \in [Keys -> Nat], NEW t, NEW ord, NEW n, TableInv(t, ord, n),
           NEW k \in Keys, n < Capacity, \A s \in Ran(ord, n) : t.slots[s].key # k
    PROVE  LET u == Alloc(t, k)
               i == SlotFor(t)
           IN  TableInv(u, Cons(i, ord, n), n + 1) /\ GivenAway(t, u, i, k)
<1> DEFINE i == SlotFor(t)
           x == Taken(t, k)
           c == Cons(i, ord, n)
           L == Ran(ord, n)
           v == LinkFront(x, i)
           u == Alloc(t, k)
<1>1. /\ TableOK(x) /\ Linked(x, ord, n) /\ i \notin L /\ x.buckets = t.buckets
      /\ GivenAway(t, x, i, k) /\ FreeOK(x, c, n + 1)
  BY TakenFromFree, TakenFromEnd
<1>2. u = Insert(v, k, i)
  BY Zenon DEF Alloc, Taken, Fresh
<1>3. i \in 1..Len(x.slots) /\ Len(t.slots) <= Len(x.slots) /\ Len(t.slots) \in Nat
      /\ Len(x.slots) \in Nat /\ Len(x.slots) <= Capacity /\ L \subseteq 1..Len(t.slots)
      /\ Ranked(ord, n, Len(x.slots))
  <2>1. L \subseteq 1..Len(t.slots) /\ Len(t.slots) \in Nat
    BY TableFacts, RanCount DEF TableInv, Linked
  <2> HIDE DEF x, i, L
  <2> QED BY <1>1, <2>1, TableFacts DEF GivenAway, Linked
<1> HIDE DEF u, x, i
<1>4. TableOK(v) /\ SameClients(x, v) /\ Linked(v, c, n + 1)
  BY <1>1, <1>3, LinkFrontFacts
<1>5. Ran(c, n + 1) = L \cup {i}
  BY <1>1, <1>3, ConsFacts
<1> HIDE DEF v, c, L
<1>6. /\ v \in Tables /\ v.buckets = t.buckets /\ v.slots[i].key = k
      /\ \A s \in L : v.slots[s].key = t.slots[s].key
      /\ i \in Slots \ L
  <2>1. i \in Slots
    BY <1>3, SizeFacts DEF Slots
  <2>2. ASSUME NEW s \in L PROVE v.slots[s].key = t.slots[s].key
    <3>1. s \in 1..Len(t.slots) /\ s \in 1..Len(x.slots) /\ s # i
      BY <1>1, <1>3
    <3> QED BY <3>1, <1>1, <1>4 DEF GivenAway, SameClients
  <2>3. v.slots[i].key = k
    BY <1>1, <1>3, <1>4 DEF GivenAway, SameClients
  <2> QED BY <2>1, <2>2, <2>3, <1>1, <1>4 DEF TableOK, SameClients
<1>7. IndexInv(v.buckets, v.slots, L)
  BY <1>6, IndexFrame DEF TableInv, L
<1>8. \A s \in L : v.slots[s].key # k
  BY <1>6 DEF L
<1>9. PICK b \in [Buckets -> [hash : Nat, slot : Nat]] :
          u = [v EXCEPT !.buckets = b] /\ IndexInv(b, v.slots, L \cup {i})
  <2>1. v \in Tables /\ i \in Slots \ L /\ v.slots[i].key = k
    BY <1>6
  <2>2. PICK b \in [Buckets -> [hash : Nat, slot : Nat]] :
            Insert(v, k, i) = [v EXCEPT !.buckets = b] /\ IndexInv(b, v.slots, L \cup {i})
    BY <2>1, <1>7, <1>8, InsertKeeps
  <2> QED BY <2>2, <1>2
<1>10. u = [slots |-> v.slots, free |-> v.free, mru |-> v.mru, lru |-> v.lru, buckets |-> b]
  BY <1>6, <1>9, ReplaceFacts
<1>11. u.slots = v.slots /\ u.free = v.free /\ u.mru = v.mru /\ u.lru = v.lru /\ u.buckets = b
  BY <1>10
<1>12. TableOK(u)
  <2>1. u \in Tables
    BY <1>4, <1>10, TableFacts DEF Tables
  <2> QED BY <2>1, <1>4, <1>11 DEF TableOK
<1>13. Linked(u, c, n + 1)
  BY <1>4, <1>11 DEF Linked
<1>14. FreeOK(u, c, n + 1)
  BY <1>1, <1>4, <1>11 DEF FreeOK, SameClients
<1>15. IndexInv(u.buckets, u.slots, Ran(c, n + 1))
  BY <1>5, <1>9, <1>11
<1>16. GivenAway(t, u, i, k)
  <2>1. Len(u.slots) = Len(x.slots)
    BY <1>4, <1>11 DEF SameClients
  <2>2. \A s \in 1..Len(t.slots) : s \in 1..Len(x.slots)
    BY <1>3
  <2> QED BY <2>1, <2>2, <1>1, <1>4, <1>6, <1>11 DEF GivenAway, SameClients
<1>17. TableInv(u, c, n + 1)
  BY <1>12, <1>13, <1>14, <1>15 DEF TableInv
<1> QED BY <1>16, <1>17 DEF u, c, i

-----------------------------------------------------------------------------
\* Reading the list.

\* A function on the first numbers is a sequence.
LEMMA FunctionIsSeq ==
    ASSUME NEW S, NEW n \in Nat, NEW f \in [1..n -> S]
    PROVE  f \in Seq(S) /\ Len(f) = n /\ DOMAIN f = 1..n
OBVIOUS

\* The first slots of an order.
Prefix(ord, l) == [q \in 1..l |-> ord[q]]

\* A prefix of an order, and the one that is longer by a slot.
LEMMA PrefixFacts ==
    ASSUME NEW N \in Nat, NEW n, NEW ord, Ranked(ord, n, N), NEW l \in 0..n
    PROVE  /\ Prefix(ord, l) \in Seq(1..N) /\ Len(Prefix(ord, l)) = l
           /\ \A q \in 1..l : Prefix(ord, l)[q] = ord[q]
           /\ Prefix(ord, l) = <<>> <=> l = 0
           /\ l = n => Prefix(ord, l) = ord
           /\ l < n => Append(Prefix(ord, l), ord[l + 1]) = Prefix(ord, l + 1)
<1>1. n \in Nat /\ l \in Nat /\ l <= n /\ ord \in [1..n -> 1..N]
  BY DEF Ranked
<1>2. Prefix(ord, l) \in [1..l -> 1..N]
  <2>1. \A q \in 1..l : q \in 1..n
    BY <1>1
  <2> QED BY <2>1, <1>1 DEF Prefix
<1>3. Prefix(ord, l) \in Seq(1..N) /\ Len(Prefix(ord, l)) = l
  BY <1>1, <1>2, FunctionIsSeq
<1>4. \A q \in 1..l : Prefix(ord, l)[q] = ord[q]
  BY DEF Prefix
<1>5. Prefix(ord, l) = <<>> <=> l = 0
  BY <1>3
<1>6. l = n => Prefix(ord, l) = ord
  BY <1>1 DEF Prefix
<1>7. ASSUME l < n PROVE Append(Prefix(ord, l), ord[l + 1]) = Prefix(ord, l + 1)
  <2> DEFINE s == Prefix(ord, l)
             x == ord[l + 1]
             a == Append(s, x)
  <2>1. x \in 1..N /\ l + 1 \in 1..n
    BY <1>1, <1>7
  <2> HIDE DEF s, x
  <2>2. /\ a \in Seq(1..N) /\ Len(a) = l + 1 /\ a[l + 1] = x
        /\ \A q \in 1..l : a[q] = s[q]
    BY <1>1, <1>3, <2>1 DEF s
  <2> HIDE DEF a
  <2>3. DOMAIN a = 1..(l + 1) /\ a = [q \in 1..(l + 1) |-> a[q]]
    BY <2>2, <1>1
  <2>4. \A q \in 1..(l + 1) : a[q] = ord[q]
    <3>1. \A q \in 1..(l + 1) : q \in 1..l \/ q = l + 1
      BY <1>1
    <3> QED BY <3>1, <2>2, <1>4 DEF s, x
  <2>5. a = Prefix(ord, l + 1)
    BY <2>3, <2>4 DEF Prefix
  <2> QED BY <2>5 DEF a, s, x
<1> QED BY <1>3, <1>4, <1>5, <1>6, <1>7

\* Walking the links from the front visits the slots in the order of the list (server.rs, mru
\* and next).
LEMMA OrderIs ==
    ASSUME NEW ord, NEW n, TableInv(table, ord, n)
    PROVE  Order = ord
<1> DEFINE N == Len(table.slots)
           After(s) == LET i == IF s = <<>> THEN table.mru ELSE table.slots[s[Len(s)]].next
                       IN  IF i = NIL THEN s ELSE Append(s, i)
           P(f) == f = [m \in 0..Capacity |-> IF m = 0 THEN <<>> ELSE After(f[m - 1])]
           W == CHOOSE f : P(f)
           g == [m \in 0..Capacity |-> Prefix(ord, Least(m, n))]
<1>1. Order = W[Capacity]
  BY DEF Order
<1>2. /\ Ranked(ord, n, N) /\ N \in Nat /\ n \in Nat /\ Capacity \in Nat /\ n <= Capacity
      /\ table.mru = At(ord, n, 1)
      /\ \A q \in 1..n : table.slots[ord[q]].next = At(ord, n, q + 1)
  <2>1. Ranked(ord, n, N) /\ N \in Nat /\ Capacity \in Nat /\ n \in Nat
    BY TableFacts, SizeFacts DEF TableInv, Linked, Ranked
  <2>2. Cardinality(Ran(ord, n)) = n
    BY <2>1, RanCount
  <2>3. Cardinality(Ran(ord, n)) <= Capacity
    BY Room DEF TableInv
  <2> QED BY <2>1, <2>2, <2>3 DEF TableInv, Linked
<1>3. ASSUME NEW l \in 0..n
      PROVE  After(Prefix(ord, l)) = IF l = n THEN Prefix(ord, l) ELSE Prefix(ord, l + 1)
  <2> DEFINE s == Prefix(ord, l)
             i == IF s = <<>> THEN table.mru ELSE table.slots[s[Len(s)]].next
  <2>1. /\ Len(s) = l /\ \A q \in 1..l : s[q] = ord[q]
        /\ s = <<>> <=> l = 0
        /\ l < n => Append(s, ord[l + 1]) = Prefix(ord, l + 1)
    <3>1. N \in Nat /\ Ranked(ord, n, N)
      BY <1>2
    <3> HIDE DEF N
    <3>2. /\ Len(Prefix(ord, l)) = l /\ \A q \in 1..l : Prefix(ord, l)[q] = ord[q]
          /\ Prefix(ord, l) = <<>> <=> l = 0
          /\ l < n => Append(Prefix(ord, l), ord[l + 1]) = Prefix(ord, l + 1)
      BY <3>1, PrefixFacts
    <3> QED BY <3>2
  <2> HIDE DEF s
  <2>2. i = At(ord, n, l + 1)
    <3>1. CASE l = 0
      BY <3>1, <2>1, <1>2
    <3>2. CASE l # 0
      <4>1. l \in 1..l /\ l \in 1..n
        BY <3>2, <1>2
      <4> QED BY <4>1, <3>2, <2>1, <1>2
    <3> QED BY <3>1, <3>2
  <2> HIDE DEF i
  <2>3. After(s) = IF i = NIL THEN s ELSE Append(s, i)
    BY DEF i
  <2>4. CASE l = n
    <3>1. i = NIL
      BY <2>2, <2>4, <1>2 DEF At
    <3> QED BY <3>1, <2>3, <2>4 DEF s
  <2>5. CASE l # n
    <3>1. l + 1 \in 1..n /\ l < n
      BY <2>5, <1>2
    <3>2. i = ord[l + 1] /\ i # NIL
      BY <3>1, <2>2, <1>2 DEF At, Ranked, NIL
    <3> QED BY <3>1, <3>2, <2>1, <2>3, <2>5 DEF s
  <2> QED BY <2>4, <2>5
<1> HIDE DEF After
<1>4. g[0] = <<>> /\ g[Capacity] = ord
  <2>1. Least(0, n) = 0 /\ 0 \in 0..Capacity /\ 0 \in 0..n
    BY <1>2 DEF Least
  <2>2. Least(Capacity, n) = n /\ Capacity \in 0..Capacity /\ n \in 0..n
    BY <1>2 DEF Least
  <2>3. Prefix(ord, 0) = <<>> /\ Prefix(ord, n) = ord
    BY <2>1, <2>2, <1>2, PrefixFacts
  <2> QED BY <2>1, <2>2, <2>3
<1>5. ASSUME NEW m \in 1..Capacity PROVE g[m] = After(g[m - 1])
  <2> DEFINE l == Least(m - 1, n)
  <2>1. m \in 0..Capacity /\ m - 1 \in 0..Capacity /\ l \in 0..n
        /\ Least(m, n) = IF l = n THEN l ELSE l + 1
    BY <1>2 DEF Least
  <2> HIDE DEF l
  <2>2. g[m - 1] = Prefix(ord, l) /\ g[m] = Prefix(ord, Least(m, n))
    BY <2>1 DEF l
  <2> QED BY <2>1, <2>2, <1>3
<1> HIDE DEF g
<1>6. P(g)
  <2>1. \A m \in 0..Capacity : g[m] = IF m = 0 THEN <<>> ELSE After(g[m - 1])
    <3>1. \A m \in 0..Capacity : m = 0 \/ m \in 1..Capacity
      BY <1>2
    <3> QED BY <3>1, <1>4, <1>5
  <2>2. g = [m \in 0..Capacity |-> g[m]]
    BY DEF g
  <2> QED BY <2>1, <2>2
<1>7. P(W)
  <2> HIDE DEF P
  <2> QED BY <1>6
<1> HIDE DEF W
<1>8. \A m \in 0..Capacity : W[m] = IF m = 0 THEN <<>> ELSE After(W[m - 1])
  BY <1>7
<1> DEFINE Wrong == {m \in 0..Capacity : W[m] # g[m]}
<1>9. Wrong = {}
  <2>1. SUFFICES ASSUME Wrong # {} PROVE FALSE
    OBVIOUS
  <2>2. Wrong \in SUBSET Nat
    BY <1>2
  <2> HIDE DEF Wrong
  <2>3. PICK m \in Wrong : \A k \in Wrong : m <= k
    BY <2>1, <2>2, LeastOf
  <2>4. m \in 0..Capacity /\ W[m] # g[m]
    BY <2>3 DEF Wrong
  <2>5. m # 0
    BY <2>4, <1>2, <1>4, <1>8
  <2>6. m \in 1..Capacity /\ m - 1 \in 0..Capacity /\ ~ (m <= m - 1)
    BY <2>4, <2>5, <1>2
  <2>7. W[m - 1] = g[m - 1]
    BY <2>3, <2>6 DEF Wrong
  <2> QED BY <2>4, <2>5, <2>6, <2>7, <1>5, <1>8
<1>10. Capacity \in 0..Capacity
  BY <1>2
<1> QED BY <1>1, <1>4, <1>9, <1>10

\* No slot of the order is the client's.
Unknown(t, ord, n, k) == \A s \in Ran(ord, n) : t.slots[s].key # k

\* There are as many occupied buckets as clients on the list, and never more than fit.
LEMMA CountFacts ==
    ASSUME NEW t, NEW ord, NEW n, TableInv(t, ord, n)
    PROVE  /\ n \in Nat /\ n <= Capacity /\ Len(t.slots) \in Nat /\ Len(t.slots) <= Capacity
           /\ Ranked(ord, n, Len(t.slots))
           /\ Cardinality({b \in DOMAIN t.buckets : Occupied(t.buckets, b)}) = n
<1>1. Ranked(ord, n, Len(t.slots)) /\ Len(t.slots) \in Nat /\ Len(t.slots) <= Capacity
  BY TableFacts DEF TableInv, Linked
<1>2. IndexInv(t.buckets, t.slots, Ran(ord, n))
  BY DEF TableInv
<1>3. n \in Nat /\ Cardinality(Ran(ord, n)) = n
  BY <1>1, RanCount
<1>4. n <= Capacity /\ Cardinality({b \in DOMAIN t.buckets : Occupied(t.buckets, b)}) = n
  BY <1>2, <1>3, Room
<1> QED BY <1>1, <1>3, <1>4

\* A scan for a client on the list finds its slot (server.rs, Index::get).
LEMMA ListedIsFound ==
    ASSUME hash \in [Keys -> Nat], NEW t, NEW ord, NEW n, TableInv(t, ord, n), NEW p \in 1..n
    PROVE  /\ Find(t, t.slots[ord[p]].key) = ord[p] /\ ord[p] # NIL
           /\ ord[p] \in 1..Len(t.slots) /\ ord[p] \in Ran(ord, n)
           /\ t.slots[ord[p]].key \in Keys
<1>1. Ranked(ord, n, Len(t.slots)) /\ IndexInv(t.buckets, t.slots, Ran(ord, n))
  BY CountFacts DEF TableInv
<1>2. ord[p] \in 1..Len(t.slots) /\ ord[p] \in Ran(ord, n) /\ ord[p] # NIL
  BY <1>1 DEF Ranked, Ran, NIL
<1>3. t.slots[ord[p]].key \in Keys
  BY <1>1, <1>2 DEF IndexInv, KeysDiffer
<1>4. Find(t, t.slots[ord[p]].key) = ord[p]
  BY <1>1, <1>2, ProbeFinds
<1> QED BY <1>2, <1>3, <1>4

\* A scan for a client that is not on the list finds nothing (server.rs, Index::get).
LEMMA UnknownIsNotFound ==
    ASSUME hash \in [Keys -> Nat], NEW t, NEW ord, NEW n, TableInv(t, ord, n),
           NEW k \in Keys, Unknown(t, ord, n, k)
    PROVE  Find(t, k) = NIL
BY ProbeMisses DEF Unknown, TableInv

\* What an admission makes of the list: a known client moves to the front; a new one is
\* put there, at the cost of the last one when the table is full.
MovesUp(t, u, ord, n, k) ==
    \E p \in 1..n : /\ t.slots[ord[p]].key = k
                    /\ TableInv(u, Front(ord, n, p), n) /\ SameClients(t, u)
Joins(t, u, ord, n, k) ==
    /\ Unknown(t, ord, n, k) /\ n < Capacity
    /\ \E i : TableInv(u, Cons(i, ord, n), n + 1) /\ GivenAway(t, u, i, k)
Displaces(t, u, ord, n, k) ==
    /\ Unknown(t, ord, n, k) /\ n = Capacity
    /\ \E i : TableInv(u, Cons(i, Without(ord, n, n), n - 1), n) /\ GivenAway(t, u, i, k)

\* An admission moves a known client up, adds a new one while there is room, and otherwise
\* puts it in the place of the last (server.rs, ClientTable::admit_handle).
LEMMA RememberedFacts ==
    ASSUME hash \in [Keys -> Nat], NEW ord, NEW n, TableInv(table, ord, n), NEW k \in Keys
    PROVE  \/ MovesUp(table, Remembered(k), ord, n, k)
           \/ Joins(table, Remembered(k), ord, n, k)
           \/ Displaces(table, Remembered(k), ord, n, k)
<1> DEFINE u == Remembered(k)
           t == table
<1>1. /\ n \in Nat /\ n <= Capacity /\ Len(t.slots) \in Nat
      /\ Ranked(ord, n, Len(t.slots)) /\ Clients = n
      /\ \A p \in 1..n : Find(t, t.slots[ord[p]].key) = ord[p] /\ ord[p] # NIL
      /\ Unknown(t, ord, n, k) => Find(t, k) = NIL
  <2>1. /\ n \in Nat /\ n <= Capacity /\ Len(t.slots) \in Nat
        /\ Ranked(ord, n, Len(t.slots))
        /\ Cardinality({b \in DOMAIN t.buckets : Occupied(t.buckets, b)}) = n
    BY CountFacts
  <2>2. \A p \in 1..n : Find(t, t.slots[ord[p]].key) = ord[p] /\ ord[p] # NIL
    BY ListedIsFound
  <2>3. Unknown(t, ord, n, k) => Find(t, k) = NIL
    BY UnknownIsNotFound
  <2> QED BY <2>1, <2>2, <2>3, Zenon DEF Clients
<1>2. CASE Unknown(t, ord, n, k)
  <2>1. u = Alloc(IF IsFull THEN Evict(t) ELSE t, k)
    BY <1>1, <1>2 DEF Remembered
  <2>2. CASE n < Capacity
    <3>1. ~ IsFull
      BY <2>2, <1>1, SizeFacts DEF IsFull
    <3>2. u = Alloc(t, k)
      BY <3>1, <2>1
    <3> DEFINE i == SlotFor(t)
    <3>3. TableInv(u, Cons(i, ord, n), n + 1) /\ GivenAway(t, u, i, k)
      <4> HIDE DEF u
      <4> QED BY <3>2, <2>2, <1>2, AllocFacts DEF Unknown
    <3> HIDE DEF i, u
    <3> QED BY <3>3, <2>2, <1>2 DEF Joins, u
  <2>3. CASE ~ (n < Capacity)
    <3> DEFINE e == Evict(t)
               w == Without(ord, n, n)
               i == SlotFor(e)
               m == n - 1
    <3>1. IsFull /\ n = Capacity /\ n # 0 /\ m \in Nat /\ m + 1 = n /\ m < Capacity /\ n \in 1..n
      BY <2>3, <1>1, SizeFacts DEF IsFull
    <3>2. u = Alloc(e, k)
      BY <3>1, <2>1
    <3>3. /\ TableInv(e, w, m) /\ Len(e.slots) = Len(t.slots)
          /\ \A s \in 1..Len(t.slots) : /\ e.slots[s].key = t.slots[s].key
                                        /\ e.slots[s].generation = t.slots[s].generation
      BY <3>1, EvictFacts
    <3>4. Ran(w, m) \subseteq Ran(ord, n) /\ Ran(ord, n) \subseteq 1..Len(t.slots)
      <4>1. Ran(w, m) = Ran(ord, n) \ {ord[n]}
        BY <3>1, <1>1, WithoutFacts
      <4>2. Ran(ord, n) \subseteq 1..Len(t.slots)
        BY <1>1, RanCount
      <4> QED BY <4>1, <4>2
    <3> HIDE DEF e, w, m, u
    <3>5. \A s \in Ran(w, m) : e.slots[s].key # k
      BY <3>3, <3>4, <1>2 DEF Unknown
    <3>6. TableInv(u, Cons(i, w, m), m + 1) /\ GivenAway(e, u, i, k)
      BY <3>1, <3>2, <3>3, <3>5, AllocFacts
    <3> HIDE DEF i
    <3>7. GivenAway(t, u, i, k)
      BY <3>3, <3>6 DEF GivenAway
    <3> QED BY <3>1, <3>6, <3>7, <1>2 DEF Displaces, u, w, m
  <2> QED BY <2>2, <2>3
<1>3. CASE ~ Unknown(t, ord, n, k)
  <2>1. PICK p \in 1..n : t.slots[ord[p]].key = k
    BY <1>3 DEF Unknown, Ran
  <2>2. u = Touch(t, ord[p])
    BY <2>1, <1>1 DEF Remembered
  <2>3. TableInv(u, Front(ord, n, p), n) /\ SameClients(t, u)
    <3> HIDE DEF u
    <3> QED BY <2>2, TouchFacts
  <2> HIDE DEF u
  <2> QED BY <2>1, <2>3 DEF MovesUp, u
<1> QED BY <1>2, <1>3

-----------------------------------------------------------------------------
\* The table is always in order.

\* The inductive invariant: some order of slots is the recency list, the other slots are
\* free, and the index holds just those on the list.
TableIsSound ==
    /\ hash \in HashFunctions
    /\ \E n \in 0..Capacity : \E ord \in [1..n -> Slots] : TableInv(table, ord, n)

\* An order of the list is one of the first Capacity slots.
LEMMA OrderIsBounded ==
    ASSUME NEW t, NEW ord, NEW n, TableInv(t, ord, n)
    PROVE  n \in 0..Capacity /\ ord \in [1..n -> Slots]
<1>1. /\ n \in Nat /\ n <= Capacity /\ Len(t.slots) \in Nat /\ Len(t.slots) <= Capacity
      /\ ord \in [1..n -> 1..Len(t.slots)] /\ Capacity \in Nat
  BY CountFacts, SizeFacts DEF Ranked
<1>2. 1..Len(t.slots) \subseteq Slots
  BY <1>1 DEF Slots
<1> QED BY <1>1, <1>2

\* The hasher is seeded once.
LEMMA HashFrame ==
    ASSUME hash' = hash, NEW ord, NEW n, TableInv(table', ord, n)
    PROVE  TableInv(table, ord, n)'
<1>1. Lists(table'.buckets, table'.slots, Ran(ord, n)) <=>
      Lists(table.buckets, table.slots, Ran(ord, n))'
  BY DEF Lists, Ran, Occupied, NIL
<1>2. IndexInv(table'.buckets, table'.slots, Ran(ord, n)) <=>
      IndexInv(table.buckets, table.slots, Ran(ord, n))'
  BY <1>1 DEF IndexInv
<1> QED BY <1>2 DEF TableInv

\* Whatever the seed, a key has a hash.
LEMMA HashIs == ASSUME TableIsSound PROVE hash \in [Keys -> Nat]
BY TableAssumption DEF TableIsSound

\* The empty table is in order.
LEMMA EmptyIsSound ==
    ASSUME NEW t, t = [slots |-> <<>>, free |-> <<>>, mru |-> NIL, lru |-> NIL,
                       buckets |-> [i \in 0..(Size - 1) |-> EmptyBucket]]
    PROVE  TableInv(t, <<>>, 0)
<1>1. /\ t.slots = <<>> /\ t.free = <<>> /\ t.mru = NIL /\ t.lru = NIL
      /\ t.buckets = [i \in Buckets |-> EmptyBucket]
  BY DEF Buckets
<1>2. Len(t.slots) = 0 /\ Len(t.free) = 0 /\ 1..0 = {}
  BY <1>1
<1>3. t.buckets \in [Buckets -> [hash : Nat, slot : Nat]]
  BY <1>1 DEF EmptyBucket, NIL
<1>4. TableOK(t)
  <2>1. NIL \in 0..Capacity
    BY SizeFacts DEF NIL
  <2>2. <<>> \in Seq(SlotType) /\ <<>> \in Seq(Slots)
    OBVIOUS
  <2>3. t \in Tables
    <3>1. t = [slots |-> <<>>, free |-> <<>>, mru |-> NIL, lru |-> NIL, buckets |-> t.buckets]
      BY <1>1
    <3> QED BY <3>1, <2>1, <2>2, <1>3 DEF Tables
  <2> QED BY <2>3, <1>2, SizeFacts DEF TableOK
<1>5. Ranked(<<>>, 0, 0) /\ Ran(<<>>, 0) = {}
  BY <1>2 DEF Ranked, Ran
<1>6. Linked(t, <<>>, 0)
  BY <1>1, <1>2, <1>5 DEF Linked, At
<1>7. FreeOK(t, <<>>, 0)
  BY <1>2 DEF FreeOK
<1>8. IndexInv(t.buckets, t.slots, {})
  <2>1. \A i \in Buckets : ~ Occupied(t.buckets, i)
    BY <1>1 DEF Occupied, EmptyBucket
  <2> QED BY <2>1, <1>3 DEF IndexInv, BucketsOK, KeysDiffer, Lists
<1> QED BY <1>4, <1>5, <1>6, <1>7, <1>8 DEF TableInv

\* The table starts in order (server.rs, ClientTable::new).
LEMMA TableInitIsSound == TableInit => TableIsSound
<1> SUFFICES ASSUME TableInit PROVE TableIsSound
  OBVIOUS
<1>1. TableInv(table, <<>>, 0)
  BY EmptyIsSound DEF TableInit
<1> QED BY <1>1, OrderIsBounded DEF TableInit, TableIsSound

\* An admission leaves the table in order (server.rs, ClientTable::admit_handle).
LEMMA AdmittedIsSound ==
    ASSUME TableIsSound, NEW k \in Keys, UNCHANGED hash, table' = Remembered(k)
    PROVE  TableIsSound'
<1>1. hash \in HashFunctions /\ hash' = hash /\ hash \in [Keys -> Nat]
  BY HashIs DEF TableIsSound
<1>2. PICK n \in 0..Capacity : \E ord \in [1..n -> Slots] : TableInv(table, ord, n)
  BY DEF TableIsSound
<1>3. PICK ord \in [1..n -> Slots] : TableInv(table, ord, n)
  BY <1>2
<1>4. \/ MovesUp(table, table', ord, n, k)
      \/ Joins(table, table', ord, n, k)
      \/ Displaces(table, table', ord, n, k)
  BY <1>1, <1>3, RememberedFacts
<1>5. \E ord2, m : TableInv(table', ord2, m)
  BY <1>4 DEF MovesUp, Joins, Displaces
<1>6. PICK ord2, m : TableInv(table', ord2, m)
  BY <1>5
<1>7. m \in 0..Capacity /\ ord2 \in [1..m -> Slots]
  BY <1>6, OrderIsBounded
<1>8. TableInv(table, ord2, m)'
  BY <1>1, <1>6, HashFrame
<1> QED BY <1>1, <1>7, <1>8 DEF TableIsSound

\* What does not touch the table leaves it in order.
LEMMA TableFrame ==
    ASSUME TableIsSound, UNCHANGED <<table, hash>>
    PROVE  TableIsSound'
<1>1. hash \in HashFunctions /\ hash' = hash /\ table' = table
  BY DEF TableIsSound
<1>2. PICK n \in 0..Capacity : \E ord \in [1..n -> Slots] : TableInv(table, ord, n)
  BY DEF TableIsSound
<1>3. PICK ord \in [1..n -> Slots] : TableInv(table, ord, n)
  BY <1>2
<1>4. TableInv(table', ord, n)
  BY <1>1, <1>3
<1>5. TableInv(table, ord, n)'
  BY <1>1, <1>4, HashFrame
<1> QED BY <1>1, <1>2, <1>5 DEF TableIsSound

\* Every step leaves the table in order: the recency list threads some order of slots, the
\* others are free, and the index holds just those of the list (server.rs, ClientTable).
LEMMA StepKeepsTableSound == TableIsSound /\ [TableNext]_tableVars => TableIsSound'
<1> SUFFICES ASSUME TableIsSound, [TableNext]_tableVars PROVE TableIsSound'
  OBVIOUS
<1>1. CASE TableTick
  BY <1>1, TableFrame DEF TableTick
<1>2. ASSUME NEW k \in Keys, Admit(k) PROVE TableIsSound'
  <2>1. CASE RefuseGlobally
    BY <2>1, <1>2, TableFrame DEF RefuseGlobally, Admit
  <2>2. CASE AdmitClient(k)
    <3>1. table' = Remembered(k) /\ hash' = hash
      BY <2>2, <1>2 DEF AdmitClient, Admit
    <3> QED BY <3>1, AdmittedIsSound
  <2> QED BY <2>1, <2>2, <1>2 DEF Admit
<1>3. CASE UNCHANGED tableVars
  BY <1>3, TableFrame DEF tableVars
<1> QED BY <1>1, <1>2, <1>3 DEF TableNext

\* The slots, the recency list, the free list and the index never disagree, through any
\* sequence of admissions, evictions and reuses (server.rs, ClientTable).
THEOREM TableIsAlwaysSound == TableSpec => []TableIsSound
<1>1. TableInit => TableIsSound
  BY TableInitIsSound
<1>2. TableIsSound /\ [TableNext]_tableVars => TableIsSound'
  BY StepKeepsTableSound
<1> QED BY <1>1, <1>2, PTL DEF TableSpec

\* In a table in order a scan finds every client of the list and no other.
LEMMA SoundFindsEveryClient == TableIsSound => IndexFindsEveryClient
<1> SUFFICES ASSUME TableIsSound PROVE IndexFindsEveryClient
  OBVIOUS
<1>1. hash \in [Keys -> Nat]
  BY HashIs
<1>2. PICK n \in 0..Capacity : \E ord \in [1..n -> Slots] : TableInv(table, ord, n)
  BY DEF TableIsSound
<1>3. PICK ord \in [1..n -> Slots] : TableInv(table, ord, n)
  BY <1>2
<1>4. Order = ord
  BY <1>3, OrderIs
<1>5. n \in Nat /\ Len(ord) = n /\ DOMAIN ord = 1..n
  BY FunctionIsSeq
<1> DEFINE keyAt(p) == table.slots[ord[p]].key
<1>6. Clients = n
  BY <1>3, CountFacts DEF Clients
<1>7. \A p \in 1..n : Find(table, keyAt(p)) = ord[p]
  BY <1>1, <1>3, ListedIsFound
<1>8. ASSUME NEW k \in Keys \ {keyAt(p) : p \in 1..n}
      PROVE  Find(table, k) = NIL
  <2>1. Unknown(table, ord, n, k)
    BY <1>8 DEF Unknown, Ran
  <2> QED BY <2>1, <1>1, <1>3, UnknownIsNotFound
<1> QED BY <1>4, <1>5, <1>6, <1>7, <1>8 DEF IndexFindsEveryClient

\* Whatever the seed, every client on the list, and no other, is reached by a scan from its
\* ideal bucket: backward-shift deletion loses nobody (server.rs, Index::remove).
THEOREM EveryClientIsFound == TableSpec => []IndexFindsEveryClient
BY TableIsAlwaysSound, SoundFindsEveryClient, PTL

-----------------------------------------------------------------------------
\* The table implements the order of use.

\* What the abstract order keeps of the others is what stands before and after the client.
LEMMA OthersAre ==
    ASSUME NEW K, NEW n \in Nat, NEW S, K \in [1..n -> S], OrderOfKeys = K, NEW p \in 1..n,
           \A q \in 1..n : K[q] = K[p] => q = p
    PROVE  Lru!Others(K[p]) = Lru!RemoveAt(K, p)
<1> DEFINE at == Lru!SelectInSeq(K, LAMBDA v : v = K[p])
           I == {i \in 1..Len(K) : K[i] = K[p]}
<1>1. at = IF I # {} THEN Lru!Min(I) ELSE 0
  BY DEF Lru!SelectInSeq
<1>2. Len(K) = n
  OBVIOUS
<1>3. I = {p}
  BY <1>2
<1>4. Lru!Min({p}) = p
  BY DEF Lru!Min
<1>5. Lru!RemoveFirst(K, K[p]) = IF \E i \in 1..Len(K) : K[i] = K[p] THEN Lru!RemoveAt(K, at) ELSE K
  BY DEF Lru!RemoveFirst
<1> HIDE DEF at, I
<1>6. Lru!RemoveFirst(K, K[p]) = Lru!RemoveAt(K, p)
  BY <1>1, <1>2, <1>3, <1>4, <1>5
<1> QED BY <1>6 DEF Lru!Others

\* A sequence without the element at one place.
LEMMA RemoveAtFacts ==
    ASSUME NEW S, NEW n \in Nat, NEW K \in [1..n -> S], NEW p \in 1..n
    PROVE  /\ Lru!RemoveAt(K, p) \in Seq(S) /\ Len(Lru!RemoveAt(K, p)) = n - 1
           /\ \A q \in 1..(n - 1) : Lru!RemoveAt(K, p)[q] = IF q < p THEN K[q] ELSE K[q + 1]
<1> DEFINE a == SubSeq(K, 1, p - 1)
           b == SubSeq(K, p + 1, n)
<1>1. K \in Seq(S) /\ Len(K) = n /\ p \in Nat /\ 1 <= p /\ p <= n
  OBVIOUS
<1>2. a \in Seq(S) /\ Len(a) = p - 1 /\ \A q \in 1..(p - 1) : a[q] = K[q]
  BY <1>1
<1>3. b \in Seq(S) /\ Len(b) = n - p /\ \A q \in 1..(n - p) : b[q] = K[p + q]
  BY <1>1
<1>4. Lru!RemoveAt(K, p) = a \o b
  BY <1>1 DEF Lru!RemoveAt
<1> HIDE DEF a, b
<1>5. a \o b \in Seq(S) /\ Len(a \o b) = (p - 1) + (n - p)
  <2>1. a \in Seq(S) /\ b \in Seq(S) /\ Len(a) = p - 1 /\ Len(b) = n - p
    BY <1>2, <1>3
  <2>2. a \o b \in Seq(S) /\ Len(a \o b) = Len(a) + Len(b)
    BY <2>1
  <2> QED BY <2>1, <2>2
<1>6. \A q \in 1..((p - 1) + (n - p)) : (a \o b)[q] = IF q <= p - 1 THEN a[q] ELSE b[q - (p - 1)]
  BY <1>2, <1>3, ConcatProperties
<1>7. ASSUME NEW q \in 1..(n - 1) PROVE (a \o b)[q] = IF q < p THEN K[q] ELSE K[q + 1]
  <2>1. q \in 1..((p - 1) + (n - p)) /\ (q <= p - 1 <=> q < p)
    BY <1>1
  <2>2. CASE q < p
    <3>1. q \in 1..(p - 1)
      BY <2>2, <1>1
    <3> QED BY <3>1, <2>1, <2>2, <1>2, <1>6
  <2>3. CASE ~ (q < p)
    <3>1. q - (p - 1) \in 1..(n - p) /\ p + (q - (p - 1)) = q + 1
      BY <2>3, <1>1
    <3> QED BY <3>1, <2>1, <2>3, <1>3, <1>6
  <2> QED BY <2>2, <2>3
<1>8. (p - 1) + (n - p) = n - 1
  BY <1>1
<1> QED BY <1>4, <1>5, <1>7, <1>8

\* The abstract order after a use: the client in front, and of the others those that fit.
LEMMA UsedFirst ==
    ASSUME NEW S, NEW k \in S, NEW R \in Seq(S), NEW m \in Nat, Len(R) = m, m <= Capacity
    PROVE  LET u == Lru!FirstOf(<<k>> \o R, Capacity)
           IN  /\ u \in Seq(S)
               /\ Len(u) = IF m < Capacity THEN m + 1 ELSE m
               /\ u[1] = k
               /\ \A q \in 1..Len(u) : q # 1 => u[q] = R[q - 1]
<1> DEFINE s == <<k>> \o R
           u == Lru!FirstOf(s, Capacity)
<1>1. s \in Seq(S) /\ Len(s) = m + 1 /\ s[1] = k
  OBVIOUS
<1>2. \A q \in 1..(m + 1) : q # 1 => s[q] = R[q - 1]
  BY ConcatProperties
<1> HIDE DEF s
<1>3. Capacity \in Nat /\ Capacity > 0
  BY SizeFacts
<1>4. u = SubSeq(s, 1, IF m < Capacity THEN m + 1 ELSE m)
  BY <1>1, <1>3 DEF Lru!FirstOf
<1> HIDE DEF u
<1>5. u \in Seq(S) /\ Len(u) = IF m < Capacity THEN m + 1 ELSE m
  BY <1>1, <1>3, <1>4
<1>6. \A q \in 1..Len(u) : u[q] = s[q] /\ q \in 1..(m + 1)
  BY <1>1, <1>3, <1>4, <1>5
<1>7. 1 \in 1..Len(u)
  BY <1>3, <1>5
<1> QED BY <1>1, <1>2, <1>5, <1>6, <1>7 DEF u, s

\* The clients of the slots, in order.
KeysOf(t, ord, n) == [q \in 1..n |-> t.slots[ord[q]].key]

\* The keys of the list are those of different clients.
LEMMA KeysOfFacts ==
    ASSUME NEW t, NEW ord, NEW n, TableInv(t, ord, n)
    PROVE  /\ n \in Nat /\ n <= Capacity
           /\ KeysOf(t, ord, n) \in [1..n -> Keys]
           /\ \A p, q \in 1..n : KeysOf(t, ord, n)[p] = KeysOf(t, ord, n)[q] => p = q
<1>1. n \in Nat /\ n <= Capacity /\ Ranked(ord, n, Len(t.slots))
  BY CountFacts
<1>2. KeysDiffer(t.slots, Ran(ord, n))
  BY DEF TableInv, IndexInv
<1>3. \A q \in 1..n : ord[q] \in Ran(ord, n)
  BY DEF Ran
<1>4. \A q \in 1..n : t.slots[ord[q]].key \in Keys
  BY <1>2, <1>3 DEF KeysDiffer
<1>5. \A p, q \in 1..n : t.slots[ord[p]].key = t.slots[ord[q]].key => p = q
  BY <1>1, <1>2, <1>3 DEF KeysDiffer, Ranked
<1> QED BY <1>1, <1>4, <1>5 DEF KeysOf

\* The keys read along the list are the keys of its slots.
LEMMA OrderOfKeysIs == \A ord, n : TableInv(table, ord, n) => OrderOfKeys = KeysOf(table, ord, n)
<1> TAKE ord, n
<1> HAVE TableInv(table, ord, n)
<1>1. Order = ord
  BY OrderIs
<1>2. DOMAIN ord = 1..n
  BY CountFacts DEF Ranked
<1> QED BY <1>1, <1>2 DEF OrderOfKeys, KeysOf

\* The keys in the order that an admission leaves are those that the abstract order has.
LEMMA KnownIsUsed ==
    ASSUME NEW ord, NEW n, TableInv(table, ord, n), NEW u, NEW k \in Keys,
           MovesUp(table, u, ord, n, k)
    PROVE  \E ord2, n2 : /\ TableInv(u, ord2, n2)
                         /\ KeysOf(u, ord2, n2) = Lru!FirstOf(<<k>> \o Lru!Others(k), Capacity)
<1> DEFINE t == table
           K == KeysOf(t, ord, n)
<1>1. PICK p \in 1..n : /\ t.slots[ord[p]].key = k
                        /\ TableInv(u, Front(ord, n, p), n) /\ SameClients(t, u)
  BY DEF MovesUp
<1> DEFINE f == Front(ord, n, p)
           w == Without(ord, n, p)
           R == Lru!RemoveAt(K, p)
<1>2. /\ n \in Nat /\ n <= Capacity /\ K \in [1..n -> Keys] /\ K[p] = k
      /\ \A q \in 1..n : K[q] = K[p] => q = p
  BY <1>1, KeysOfFacts DEF KeysOf
<1>3. OrderOfKeys = K
  BY OrderOfKeysIs
<1> HIDE DEF K
<1>4. Lru!Others(k) = R
  BY <1>2, <1>3, OthersAre
<1>5. /\ R \in Seq(Keys) /\ Len(R) = n - 1 /\ n - 1 \in Nat /\ n - 1 < Capacity
      /\ \A q \in 1..(n - 1) : R[q] = IF q < p THEN K[q] ELSE K[q + 1]
  <2>1. n - 1 \in Nat /\ n - 1 < Capacity
    BY <1>2, SizeFacts
  <2>2. n \in Nat /\ K \in [1..n -> Keys]
    BY <1>2
  <2>3. /\ Lru!RemoveAt(K, p) \in Seq(Keys) /\ Len(Lru!RemoveAt(K, p)) = n - 1
        /\ \A q \in 1..(n - 1) : Lru!RemoveAt(K, p)[q] = IF q < p THEN K[q] ELSE K[q + 1]
    BY <2>2, RemoveAtFacts
  <2> QED BY <2>1, <2>3
<1> HIDE DEF R
<1> DEFINE s == Lru!FirstOf(<<k>> \o R, Capacity)
<1>6. s \in Seq(Keys) /\ Len(s) = n /\ s[1] = k /\ \A q \in 1..n : q # 1 => s[q] = R[q - 1]
  <2> DEFINE m == n - 1
  <2>1. m \in Nat /\ Len(R) = m /\ m <= Capacity /\ m < Capacity /\ m + 1 = n
    BY <1>5, <1>2, SizeFacts
  <2> HIDE DEF m
  <2>2. /\ s \in Seq(Keys) /\ Len(s) = m + 1 /\ s[1] = k
        /\ \A q \in 1..Len(s) : q # 1 => s[q] = R[q - 1]
    BY <2>1, <1>5, UsedFirst
  <2> QED BY <2>1, <2>2
<1> HIDE DEF s
<1>7. Ranked(ord, n, Len(t.slots)) /\ Len(t.slots) \in Nat
  BY CountFacts
<1>8. \A q \in 1..n : ord[q] \in 1..Len(t.slots) /\ u.slots[ord[q]].key = K[q]
  BY <1>1, <1>7 DEF SameClients, Ranked, K, KeysOf
<1>9. /\ KeysOf(u, f, n) \in [1..n -> Keys]
      /\ \A q \in 1..n : KeysOf(u, f, n)[q] = u.slots[f[q]].key
  BY <1>1, KeysOfFacts DEF KeysOf
<1>10. \A q \in 1..n : f[q] = IF q = 1 THEN ord[p] ELSE w[q - 1]
  BY <1>2 DEF Front, Cons
<1>11. \A q \in 1..(n - 1) : w[q] = IF q < p THEN ord[q] ELSE ord[q + 1]
  BY DEF Without
<1> HIDE DEF f, w
<1>12. ASSUME NEW q \in 1..n PROVE KeysOf(u, f, n)[q] = s[q]
  <2>1. CASE q = 1
    BY <2>1, <1>2, <1>6, <1>8, <1>9, <1>10
  <2>2. CASE q # 1
    <3> DEFINE r == q - 1
    <3>1. r \in 1..(n - 1) /\ r \in 1..n /\ r + 1 \in 1..n
      BY <2>2, <1>2
    <3>2. s[q] = R[r] /\ f[q] = w[r]
      BY <2>2, <1>6, <1>10
    <3> HIDE DEF r
    <3>3. R[r] = IF r < p THEN K[r] ELSE K[r + 1]
      BY <3>1, <1>5
    <3>4. w[r] = IF r < p THEN ord[r] ELSE ord[r + 1]
      BY <3>1, <1>11
    <3>5. u.slots[ord[r]].key = K[r] /\ u.slots[ord[r + 1]].key = K[r + 1]
      BY <3>1, <1>8
    <3> QED BY <3>2, <3>3, <3>4, <3>5, <1>9
  <2> QED BY <2>1, <2>2
<1>13. KeysOf(u, f, n) = s
  BY <1>2, <1>6, <1>9, <1>12, FunctionIsSeq, SeqEqual
<1> QED BY <1>1, <1>4, <1>13 DEF f, s

\* To a client that is not on the list, the others are all.
LEMMA OthersOfUnknown ==
    ASSUME NEW ord, NEW n, TableInv(table, ord, n), NEW k \in Keys, Unknown(table, ord, n, k)
    PROVE  Lru!Others(k) = KeysOf(table, ord, n)
<1> DEFINE K == KeysOf(table, ord, n)
<1>1. OrderOfKeys = K
  BY OrderOfKeysIs
<1>2. n \in Nat /\ K \in [1..n -> Keys]
  BY KeysOfFacts
<1>3. Len(K) = n
  BY <1>2, FunctionIsSeq
<1>4. \A q \in 1..n : K[q] # k
  BY DEF Unknown, Ran, KeysOf
<1> HIDE DEF K
<1>5. Lru!RemoveFirst(K, k) = K
  BY <1>3, <1>4 DEF Lru!RemoveFirst
<1> QED BY <1>1, <1>5 DEF Lru!Others, K

\* A new client in front of the list, the last gone when the table was full, is what the
\* abstract order makes of its use.
LEMMA NewIsUsed ==
    ASSUME NEW ord, NEW n, TableInv(table, ord, n), NEW u, NEW k \in Keys,
           Unknown(table, ord, n, k),
           NEW w, NEW m \in 0..n, NEW i, m + 1 = (IF n < Capacity THEN n + 1 ELSE n),
           \A q \in 1..m : w[q] = ord[q],
           TableInv(u, Cons(i, w, m), m + 1), GivenAway(table, u, i, k)
    PROVE  KeysOf(u, Cons(i, w, m), m + 1) = Lru!FirstOf(<<k>> \o Lru!Others(k), Capacity)
<1> DEFINE t == table
           K == KeysOf(t, ord, n)
           s == Lru!FirstOf(<<k>> \o K, Capacity)
           c == Cons(i, w, m)
<1>1. /\ n \in Nat /\ n <= Capacity /\ K \in [1..n -> Keys]
      /\ \A q \in 1..n : K[q] = t.slots[ord[q]].key
  BY KeysOfFacts DEF KeysOf
<1>2. Lru!Others(k) = K
  BY OthersOfUnknown
<1>3. K \in Seq(Keys) /\ Len(K) = n
  BY <1>1, FunctionIsSeq
<1>4. m \in Nat /\ m <= n /\ m + 1 \in Nat /\ 1 \in 1..(m + 1)
  BY <1>1
<1> HIDE DEF K
<1>5. s \in Seq(Keys) /\ Len(s) = m + 1 /\ s[1] = k /\ \A q \in 1..(m + 1) : q # 1 => s[q] = K[q - 1]
  <2>1. n \in Nat /\ n <= Capacity /\ K \in Seq(Keys) /\ Len(K) = n
    BY <1>1, <1>3
  <2>2. /\ s \in Seq(Keys) /\ Len(s) = (IF n < Capacity THEN n + 1 ELSE n) /\ s[1] = k
        /\ \A q \in 1..Len(s) : q # 1 => s[q] = K[q - 1]
    BY <2>1, UsedFirst
  <2> HIDE DEF s
  <2> QED BY <2>2
<1> HIDE DEF s
<1>6. \A q \in 1..(m + 1) : c[q] = IF q = 1 THEN i ELSE w[q - 1]
  BY DEF Cons
<1> HIDE DEF c
<1>7. TableInv(u, c, m + 1)
  BY DEF c
<1> DEFINE z == m + 1
<1>8. /\ KeysOf(u, c, z) \in [1..z -> Keys]
      /\ \A q \in 1..z : KeysOf(u, c, z)[q] = u.slots[c[q]].key
      /\ \A p, q \in 1..z : c[p] = c[q] => p = q
  <2> HIDE DEF z
  <2>1. TableInv(u, c, z)
    BY <1>7 DEF z
  <2>2. KeysOf(u, c, z) \in [1..z -> Keys]
    BY <2>1, KeysOfFacts
  <2>3. Ranked(c, z, Len(u.slots))
    BY <2>1, CountFacts
  <2> QED BY <2>2, <2>3 DEF Ranked, KeysOf
<1>9. ASSUME NEW q \in 1..(m + 1) PROVE KeysOf(u, c, m + 1)[q] = s[q]
  <2>1. CASE q = 1
    BY <2>1, <1>5, <1>6, <1>8 DEF GivenAway
  <2>2. CASE q # 1
    <3> DEFINE r == q - 1
    <3>1. r \in 1..m /\ r \in 1..n
      BY <2>2, <1>1, <1>4
    <3>2. c[q] = w[r] /\ s[q] = K[r] /\ c[1] = i /\ c[q] # c[1]
      BY <2>2, <1>4, <1>5, <1>6, <1>8
    <3> HIDE DEF r
    <3>3. w[r] = ord[r] /\ K[r] = t.slots[ord[r]].key
      BY <3>1, <1>1
    <3>4. ord[r] \in 1..Len(t.slots)
      <4>1. Ranked(ord, n, Len(t.slots))
        BY CountFacts
      <4> QED BY <4>1, <3>1 DEF Ranked
    <3>5. u.slots[ord[r]].key = t.slots[ord[r]].key
      BY <3>2, <3>3, <3>4 DEF GivenAway
    <3> QED BY <3>2, <3>3, <3>5, <1>8
  <2> QED BY <2>1, <2>2
<1>10. KeysOf(u, c, m + 1) = s
  BY <1>4, <1>5, <1>8, <1>9, FunctionIsSeq, SeqEqual
<1> QED BY <1>2, <1>10 DEF c, s

\* And so after a step.
LEMMA NextOrderOfKeysIs ==
    (\A ord, n : TableInv(table, ord, n) => OrderOfKeys = KeysOf(table, ord, n))'
BY OrderOfKeysIs, PTL

\* An admission does to the keys what a use does in the abstract order (server.rs,
\* ClientTable::admit_handle).
LEMMA UsedInOrder ==
    ASSUME TableIsSound, NEW k \in Keys, hash' = hash, table' = Remembered(k)
    PROVE  OrderOfKeys' = Lru!FirstOf(<<k>> \o Lru!Others(k), Capacity)
<1> DEFINE goal == Lru!FirstOf(<<k>> \o Lru!Others(k), Capacity)
           u == table'
<1>1. PICK n \in 0..Capacity : \E ord \in [1..n -> Slots] : TableInv(table, ord, n)
  BY DEF TableIsSound
<1>2. PICK ord \in [1..n -> Slots] : TableInv(table, ord, n)
  BY <1>1
<1>3. n \in Nat /\ n <= Capacity
  BY <1>2, CountFacts
<1>4. \/ MovesUp(table, u, ord, n, k)
      \/ Joins(table, u, ord, n, k)
      \/ Displaces(table, u, ord, n, k)
  BY <1>2, HashIs, RememberedFacts
<1> HIDE DEF u
<1>5. \E ord2, n2 : TableInv(u, ord2, n2) /\ KeysOf(u, ord2, n2) = goal
  <2>1. CASE MovesUp(table, u, ord, n, k)
    BY <2>1, <1>2, KnownIsUsed
  <2>2. CASE Joins(table, u, ord, n, k)
    <3>1. PICK i : TableInv(u, Cons(i, ord, n), n + 1) /\ GivenAway(table, u, i, k)
      BY <2>2 DEF Joins
    <3>2. n < Capacity /\ Unknown(table, ord, n, k) /\ n \in 0..n
      BY <2>2, <1>3 DEF Joins
    <3>3. KeysOf(u, Cons(i, ord, n), n + 1) = goal
      BY <3>1, <3>2, <1>2, NewIsUsed
    <3> QED BY <3>1, <3>3
  <2>3. CASE Displaces(table, u, ord, n, k)
    <3> DEFINE w == Without(ord, n, n)
               m == n - 1
    <3>1. PICK i : TableInv(u, Cons(i, w, m), n) /\ GivenAway(table, u, i, k)
      BY <2>3 DEF Displaces
    <3>2. n = Capacity /\ Unknown(table, ord, n, k)
      BY <2>3 DEF Displaces
    <3>3. m \in 0..n /\ m + 1 = n /\ ~ (n < Capacity)
      BY <3>2, SizeFacts
    <3>4. \A q \in 1..m : w[q] = ord[q]
      BY <1>3 DEF Without
    <3> HIDE DEF w, m
    <3>5. KeysOf(u, Cons(i, w, m), m + 1) = goal
      BY <3>1, <3>2, <3>3, <3>4, <1>2, NewIsUsed
    <3> QED BY <3>1, <3>3, <3>5
  <2> QED BY <1>4, <2>1, <2>2, <2>3
<1>6. PICK ord2, n2 : TableInv(u, ord2, n2) /\ KeysOf(u, ord2, n2) = goal
  BY <1>5
<1>7. TableInv(table, ord2, n2)'
  BY <1>6, HashFrame DEF u
<1>8. OrderOfKeys' = KeysOf(table, ord2, n2)'
  BY <1>7, NextOrderOfKeysIs
<1> QED BY <1>6, <1>8 DEF KeysOf, u

\* Every step of the table is a step of the abstract order, or changes nothing it sees.
LEMMA StepsFollowLru == TableIsSound /\ [TableNext]_tableVars => [Lru!Next]_<<OrderOfKeys, user>>
<1> SUFFICES ASSUME TableIsSound, [TableNext]_tableVars
             PROVE  Lru!Next \/ UNCHANGED <<OrderOfKeys, user>>
  OBVIOUS
<1>0. table' = table => OrderOfKeys' = OrderOfKeys
  BY DEF OrderOfKeys, Order
<1>1. CASE TableTick
  BY <1>0, <1>1 DEF TableTick
<1>2. ASSUME NEW k \in Keys, Admit(k) PROVE Lru!Next \/ UNCHANGED <<OrderOfKeys, user>>
  <2>1. CASE RefuseGlobally
    BY <2>1, <1>0 DEF RefuseGlobally
  <2>2. CASE AdmitClient(k)
    <3>1. table' = Remembered(k) /\ hash' = hash /\ user' = k
      BY <2>2, <1>2 DEF AdmitClient, Admit
    <3>2. OrderOfKeys' = Lru!FirstOf(<<k>> \o Lru!Others(k), Capacity)
      BY <3>1, UsedInOrder
    <3> QED BY <3>1, <3>2 DEF Lru!Next, Lru!Use
  <2> QED BY <2>1, <2>2, <1>2 DEF Admit
<1>3. CASE UNCHANGED tableVars
  BY <1>0, <1>3 DEF tableVars
<1> QED BY <1>1, <1>2, <1>3 DEF TableNext

\* The intrusive list, the slots and the free list implement the plain order of use: when the
\* table is full, the least recently seen client is evicted (server.rs, ClientTable).
THEOREM TableIsAnLru == TableSpec => ImplementsLru
<1>1. TableInit => Lru!Init
  <2> SUFFICES ASSUME TableInit PROVE Lru!Init
    OBVIOUS
  <2>1. TableInv(table, <<>>, 0)
    BY EmptyIsSound DEF TableInit
  <2>2. OrderOfKeys = KeysOf(table, <<>>, 0)
    BY <2>1, OrderOfKeysIs
  <2>3. KeysOf(table, <<>>, 0) = <<>>
    BY DEF KeysOf
  <2> QED BY <2>2, <2>3 DEF Lru!Init, TableInit
<1>2. TableIsSound /\ [TableNext]_tableVars => [Lru!Next]_<<OrderOfKeys, user>>
  BY StepsFollowLru
<1> QED BY <1>1, <1>2, TableIsAlwaysSound, PTL DEF TableSpec, ImplementsLru, Lru!Spec

-----------------------------------------------------------------------------
\* What an admission leaves to everyone.

\* What a scan finds is on the list, and is the client's.
LEMMA FoundIsListed ==
    ASSUME hash \in [Keys -> Nat], NEW t, NEW ord, NEW n, TableInv(t, ord, n),
           NEW k \in Keys, Find(t, k) # NIL
    PROVE  \E p \in 1..n : ord[p] = Find(t, k) /\ t.slots[ord[p]].key = k
<1>1. ~ Unknown(t, ord, n, k)
  BY UnknownIsNotFound
<1>2. PICK p \in 1..n : t.slots[ord[p]].key = k
  BY <1>1 DEF Unknown, Ran
<1>3. Find(t, t.slots[ord[p]].key) = ord[p]
  BY ListedIsFound
<1> QED BY <1>2, <1>3

\* Whom the table remembers after an admission, and what becomes of the handles.
Remembers(t, u, k) ==
    LET i == Find(u, k)
    IN  /\ i \in Slots /\ i \in 1..Len(u.slots) /\ i # NIL /\ u.slots[i].key = k
        /\ Find(t, k) # NIL => i = Find(t, k) /\ SameClients(t, u)
        /\ Find(t, k) = NIL => GivenAway(t, u, i, k)
        /\ \A other \in Keys \ {k} : Find(u, other) # NIL => Find(u, other) = Find(t, other)

\* The front of the list is found.
LEMMA FrontIsFound ==
    ASSUME hash \in [Keys -> Nat], NEW u, NEW ord, NEW n, TableInv(u, ord, n), 1 \in 1..n,
           NEW k, u.slots[ord[1]].key = k
    PROVE  /\ Find(u, k) = ord[1] /\ ord[1] \in Slots /\ ord[1] \in 1..Len(u.slots)
           /\ ord[1] # NIL
<1>1. Find(u, u.slots[ord[1]].key) = ord[1] /\ ord[1] # NIL /\ ord[1] \in 1..Len(u.slots)
  BY ListedIsFound
<1>2. Len(u.slots) \in Nat /\ Len(u.slots) <= Capacity
  BY CountFacts
<1>3. ord[1] \in Slots
  BY <1>1, <1>2, SizeFacts DEF Slots
<1> QED BY <1>1, <1>3

\* A known client keeps its slot, and everyone else theirs.
LEMMA KnownRemembers ==
    ASSUME hash \in [Keys -> Nat], NEW t, NEW u, NEW ord, NEW n, TableInv(t, ord, n),
           NEW k \in Keys, MovesUp(t, u, ord, n, k)
    PROVE  Remembers(t, u, k)
<1>1. PICK p \in 1..n : /\ t.slots[ord[p]].key = k
                        /\ TableInv(u, Front(ord, n, p), n) /\ SameClients(t, u)
  BY DEF MovesUp
<1> DEFINE f == Front(ord, n, p)
<1>2. n \in Nat /\ Ranked(ord, n, Len(t.slots)) /\ Len(t.slots) \in Nat
  BY CountFacts
<1>3. 1 \in 1..n /\ f[1] = ord[p]
  BY <1>2 DEF Front, Cons
<1>4. ord[p] \in 1..Len(t.slots)
  BY <1>2 DEF Ranked
<1>5. Find(t, k) = ord[p] /\ ord[p] # NIL
  BY <1>1, ListedIsFound
<1>6. u.slots[f[1]].key = k
  BY <1>1, <1>3, <1>4 DEF SameClients
<1>7. Ran(f, n) = Ran(ord, n)
  BY <1>2, FrontFacts
<1> HIDE DEF f
<1>8. TableInv(u, f, n)
  BY <1>1 DEF f
<1>9. Find(u, k) = f[1] /\ f[1] \in Slots /\ f[1] \in 1..Len(u.slots) /\ f[1] # NIL
  BY <1>3, <1>6, <1>8, FrontIsFound
<1>10. ASSUME NEW other \in Keys \ {k}, Find(u, other) # NIL
       PROVE  Find(u, other) = Find(t, other)
  <2>1. PICK q \in 1..n : f[q] = Find(u, other) /\ u.slots[f[q]].key = other
    BY <1>8, <1>10, FoundIsListed
  <2>2. PICK r \in 1..n : f[q] = ord[r]
    BY <1>7 DEF Ran
  <2>3. t.slots[ord[r]].key = other
    BY <2>1, <2>2, <1>1, <1>2 DEF SameClients, Ranked
  <2>4. Find(t, t.slots[ord[r]].key) = ord[r]
    BY ListedIsFound
  <2> QED BY <2>1, <2>2, <2>3, <2>4
<1> QED BY <1>1, <1>3, <1>5, <1>6, <1>9, <1>10 DEF Remembers

\* A new client has the slot in front, the others that remain keep theirs.
LEMMA NewRemembers ==
    ASSUME hash \in [Keys -> Nat], NEW t, NEW u, NEW ord, NEW n, TableInv(t, ord, n),
           NEW k \in Keys, Unknown(t, ord, n, k),
           NEW w, NEW m \in 0..n, NEW i, \A q \in 1..m : w[q] = ord[q],
           TableInv(u, Cons(i, w, m), m + 1), GivenAway(t, u, i, k)
    PROVE  Remembers(t, u, k)
<1> DEFINE c == Cons(i, w, m)
           z == m + 1
<1>1. Find(t, k) = NIL
  BY UnknownIsNotFound
<1>2. n \in Nat /\ Ranked(ord, n, Len(t.slots)) /\ m \in Nat /\ 1 \in 1..z
  <2>1. n \in Nat /\ Ranked(ord, n, Len(t.slots))
    BY CountFacts
  <2> QED BY <2>1
<1>3. c[1] = i /\ \A q \in 1..z : q # 1 => c[q] = w[q - 1] /\ q - 1 \in 1..m /\ q - 1 \in 1..n
  BY <1>2 DEF Cons
<1> HIDE DEF c
<1>4. u.slots[c[1]].key = k
  BY <1>3 DEF GivenAway
<1>5. TableInv(u, c, z)
  BY DEF c
<1> HIDE DEF z
<1>6. Find(u, k) = i /\ i \in Slots /\ i \in 1..Len(u.slots) /\ i # NIL
  BY <1>2, <1>3, <1>4, <1>5, FrontIsFound
<1>7. ASSUME NEW other \in Keys \ {k}, Find(u, other) # NIL
      PROVE  Find(u, other) = Find(t, other)
  <2>1. PICK q \in 1..z : c[q] = Find(u, other) /\ u.slots[c[q]].key = other
    BY <1>5, <1>7, FoundIsListed
  <2>2. q # 1 /\ c[q] # i
    BY <2>1, <1>3, <1>4
  <2> DEFINE r == q - 1
  <2>3. c[q] = ord[r] /\ r \in 1..n
    BY <2>2, <1>3
  <2> HIDE DEF r
  <2>4. ord[r] \in 1..Len(t.slots) /\ ord[r] # i
    BY <2>2, <2>3, <1>2 DEF Ranked
  <2>5. t.slots[ord[r]].key = other
    BY <2>1, <2>3, <2>4 DEF GivenAway
  <2>6. Find(t, t.slots[ord[r]].key) = ord[r]
    BY <2>3, ListedIsFound
  <2> QED BY <2>1, <2>3, <2>5, <2>6
<1> QED BY <1>1, <1>3, <1>4, <1>6, <1>7 DEF Remembers

\* After an admission the client is found, the others are where they were or gone, and a slot
\* that changed hands has a later generation (server.rs, ClientTable::admit_handle).
LEMMA AdmissionRemembers ==
    ASSUME TableIsSound, NEW k \in Keys
    PROVE  Remembers(table, Remembered(k), k)
<1> DEFINE t == table
           u == Remembered(k)
<1>0. hash \in [Keys -> Nat]
  BY HashIs
<1>1. PICK n \in 0..Capacity : \E ord \in [1..n -> Slots] : TableInv(t, ord, n)
  BY DEF TableIsSound
<1>2. PICK ord \in [1..n -> Slots] : TableInv(t, ord, n)
  BY <1>1
<1>3. n \in Nat /\ n <= Capacity
  BY <1>2, CountFacts
<1>4. \/ MovesUp(t, u, ord, n, k)
      \/ Joins(t, u, ord, n, k)
      \/ Displaces(t, u, ord, n, k)
  BY <1>0, <1>2, RememberedFacts
<1> HIDE DEF u
<1>5. CASE MovesUp(t, u, ord, n, k)
  BY <1>0, <1>2, <1>5, KnownRemembers DEF u
<1>6. CASE Joins(t, u, ord, n, k)
  <2>1. PICK i : TableInv(u, Cons(i, ord, n), n + 1) /\ GivenAway(t, u, i, k)
    BY <1>6 DEF Joins
  <2>2. Unknown(t, ord, n, k) /\ n \in 0..n
    BY <1>3, <1>6 DEF Joins
  <2>3. Remembers(t, u, k)
    BY <2>1, <2>2, <1>0, <1>2, NewRemembers
  <2> QED BY <2>3 DEF u
<1>7. CASE Displaces(t, u, ord, n, k)
  <2> DEFINE w == Without(ord, n, n)
             m == n - 1
  <2>1. PICK i : TableInv(u, Cons(i, w, m), n) /\ GivenAway(t, u, i, k)
    BY <1>7 DEF Displaces
  <2>2. n = Capacity /\ Unknown(t, ord, n, k)
    BY <1>7 DEF Displaces
  <2>3. m \in 0..n /\ m + 1 = n
    BY <2>2, SizeFacts
  <2>4. \A q \in 1..m : w[q] = ord[q]
    BY <1>3 DEF Without
  <2> HIDE DEF w, m
  <2>5. TableInv(u, Cons(i, w, m), m + 1)
    BY <2>1, <2>3
  <2>6. Remembers(t, u, k)
    BY <2>1, <2>2, <2>3, <2>4, <2>5, <1>0, <1>2, NewRemembers
  <2> QED BY <2>6 DEF u
<1> QED BY <1>4, <1>5, <1>6, <1>7

-----------------------------------------------------------------------------
\* Every kiss is paid for.

\* The drops that have not been answered by a kiss yet, of every slot.
Pile(f) == {d \in Slots \X (1..Leak) : d[2] <= f[d[1]]}

\* The drops that a record counts are set apart from those of the others.
LEMMA PileFacts ==
    ASSUME NEW f \in [Slots -> 0..(Leak - 1)], NEW i \in Slots
    PROVE  LET rest == {d \in Pile(f) : d[1] # i}
           IN  /\ IsFiniteSet(rest) /\ Cardinality(rest) \in Nat
               /\ IsFiniteSet(Pile(f)) /\ Cardinality(Pile(f)) = Cardinality(rest) + f[i]
<1> DEFINE rest == {d \in Pile(f) : d[1] # i}
           col == {d \in Pile(f) : d[1] = i}
           g == [q \in 1..f[i] |-> <<i, q>>]
<1>1. Leak \in Nat /\ Capacity \in Nat /\ f[i] \in Nat /\ f[i] <= Leak
  BY LimitsAssumption, SizeFacts
<1>2. IsFiniteSet(Slots \X (1..Leak))
  BY <1>1, FirstNumbers, FS_Product DEF Slots
<1>3. /\ IsFiniteSet(Pile(f)) /\ IsFiniteSet(rest) /\ IsFiniteSet(col)
      /\ Cardinality(rest) \in Nat
  BY <1>2, FS_Subset, FS_CardinalityType DEF Pile
<1>4. g \in Bijection(1..f[i], col)
  <2>1. \A q \in 1..f[i] : <<i, q>> \in col
    BY <1>1 DEF Pile
  <2>2. \A d \in col : d[2] \in 1..f[i] /\ d = <<i, d[2]>>
    BY <1>1 DEF Pile
  <2> HIDE DEF col
  <2>3. g \in Injection(1..f[i], col)
    BY <2>1 DEF Injection, IsInjective
  <2>4. g \in Surjection(1..f[i], col)
    BY <2>1, <2>2 DEF Surjection
  <2> QED BY <2>3, <2>4 DEF Bijection
<1>5. Cardinality(col) = f[i]
  <2>1. ExistsBijection(1..f[i], col)
    BY <1>4 DEF ExistsBijection
  <2> HIDE DEF col
  <2> QED BY <2>1, <1>1, FirstNumbers, FS_Bijection
<1>6. Pile(f) = rest \cup col /\ rest \cap col = {}
  OBVIOUS
<1> HIDE DEF rest, col
<1>7. Cardinality(Pile(f)) = Cardinality(rest) + Cardinality(col)
  <2>1. Cardinality(rest \cup col) = Cardinality(rest) + Cardinality(col) - Cardinality(rest \cap col)
    BY <1>3, FS_Union
  <2>2. Cardinality({}) = 0
    BY FS_EmptySet
  <2>3. Cardinality(rest \cap col) = 0 /\ Cardinality(Pile(f)) = Cardinality(rest \cup col)
    BY <2>2, <1>6
  <2>4. Cardinality(rest) \in Nat /\ Cardinality(col) \in Nat
    BY <1>1, <1>3, <1>5
  <2> QED BY <2>1, <2>3, <2>4
<1> QED BY <1>3, <1>5, <1>7 DEF rest

\* When one record's count changes, the sum changes by as much.
LEMMA PileChanges ==
    ASSUME NEW f \in [Slots -> 0..(Leak - 1)], NEW i \in Slots, NEW v \in 0..(Leak - 1),
           NEW g, g = [f EXCEPT ![i] = v]
    PROVE  /\ Cardinality(Pile(f)) \in Nat /\ Cardinality(Pile(g)) \in Nat
           /\ f[i] \in Nat /\ f[i] <= Leak - 1 /\ v \in Nat
           /\ Cardinality(Pile(g)) = Cardinality(Pile(f)) - f[i] + v
           /\ Cardinality(Pile(f)) - f[i] \in Nat
<1> DEFINE rest(h) == {d \in Pile(h) : d[1] # i}
<1>1. g \in [Slots -> 0..(Leak - 1)] /\ g[i] = v /\ Leak \in Nat
  BY LimitsAssumption
<1>2. rest(g) = rest(f)
  BY DEF Pile
<1>3. Cardinality(Pile(f)) = Cardinality(rest(f)) + f[i] /\ Cardinality(rest(f)) \in Nat
  BY PileFacts
<1>4. Cardinality(Pile(g)) = Cardinality(rest(g)) + v
  BY <1>1, PileFacts
<1>5. f[i] \in Nat /\ f[i] <= Leak - 1 /\ v \in Nat
  BY <1>1
<1> HIDE DEF rest
<1> QED BY <1>2, <1>3, <1>4, <1>5

\* The type of a client's record, and the drops that are owed for.
Record == [tokens : Int, lastSeen : Nat, responses : Nat, dropped : Nat, drops : 0..(Leak - 1)]
DropsOf(r) == [i \in Slots |-> r[i].drops]
Owed(r) == Cardinality(Pile(DropsOf(r)))

\* Every kiss was paid for by a leak's worth of drops, and every drop still counted by a
\* limiter is one that no kiss has answered.
KissInv ==
    /\ records \in [Slots -> Record]
    /\ globalDrops \in 0..(Leak - 1)
    /\ stats.kisses * Leak + globalDrops + Owed(records) <= stats.dropped

\* What counting one more drop does.
LEMMA CountsDrops ==
    ASSUME NEW d \in 0..(Leak - 1)
    PROVE  /\ CountAfter(d) \in 0..(Leak - 1)
           /\ KissIsDue(d) => d = Leak - 1 /\ CountAfter(d) = 0
           /\ ~ KissIsDue(d) => CountAfter(d) = d + 1
BY LimitsAssumption DEF CountAfter, KissIsDue

\* One kiss more costs a leak's worth of drops.
LEMMA KissCosts ==
    ASSUME NEW n \in Nat
    PROVE  n * Leak \in Nat /\ (n + 1) * Leak = n * Leak + Leak /\ (n + 0) * Leak = n * Leak
<1>1. Leak \in Nat
  BY LimitsAssumption
<1> QED BY <1>1

\* What a refusal adds to the counters (server.rs, admit_handle).
LEMMA RefusalCounts ==
    ASSUME NEW s \in Stats, NEW d
    PROVE  /\ StatsRefused(s, d) \in Stats
           /\ StatsRefused(s, d).dropped = s.dropped + 1
           /\ StatsRefused(s, d).kisses = s.kisses + (IF KissIsDue(d) THEN 1 ELSE 0)
<1> DEFINE kiss == IF KissIsDue(d) THEN 1 ELSE 0
<1>1. kiss \in Nat
  BY Zenon
<1>2. StatsRefused(s, d) =
          [s EXCEPT !.requests = @ + 1, !.dropped = @ + 1, !.kisses = @ + kiss]
  BY DEF StatsRefused
<1> HIDE DEF kiss
<1>3. s.requests + 1 \in Nat /\ s.dropped + 1 \in Nat /\ s.kisses + kiss \in Nat
  BY <1>1 DEF Stats
<1>4. /\ StatsRefused(s, d) \in Stats
      /\ StatsRefused(s, d).dropped = s.dropped + 1
      /\ StatsRefused(s, d).kisses = s.kisses + kiss
  BY <1>2, <1>3 DEF Stats
<1> QED BY <1>4 DEF kiss

\* A new record owes nothing.
LEMMA NewRecordIs == ASSUME now \in Nat PROVE NewRecord \in Record /\ NewRecord.drops = 0
<1> DEFINE b == Burst * TokenTicks
<1>1. b \in Int /\ 0 \in 0..(Leak - 1)
  BY LimitsAssumption
<1> HIDE DEF b
<1> QED BY <1>1 DEF NewRecord, Record, b

\* A refilled bucket holds a number.
LEMMA RefillIs == ASSUME now \in Nat, NEW r \in Record PROVE Refill(r) \in Int
<1> DEFINE b == Burst * TokenTicks
<1>1. b \in Int
  BY LimitsAssumption
<1>2. r.tokens \in Int /\ r.lastSeen \in Nat
  BY DEF Record
<1> HIDE DEF b
<1> QED BY <1>1, <1>2 DEF Refill, Least, b

\* What an answer and a refusal write into a client's record.
Answered(r, t) == [[r EXCEPT !.tokens = t, !.lastSeen = now]
                      EXCEPT !.tokens = @ - TokenTicks, !.responses = @ + 1]
Turned(r, t) == [[r EXCEPT !.tokens = t, !.lastSeen = now]
                      EXCEPT !.dropped = @ + 1, !.drops = CountAfter(@)]

\* An answer leaves the count of drops alone, a refusal counts one (server.rs,
\* admit_handle).
LEMMA Rewritten ==
    ASSUME now \in Nat, NEW r \in Record, NEW t \in Int
    PROVE  /\ Answered(r, t) \in Record /\ Answered(r, t).drops = r.drops
           /\ Turned(r, t) \in Record /\ Turned(r, t).drops = CountAfter(r.drops)
<1>1. /\ r.tokens \in Int /\ r.lastSeen \in Nat /\ r.responses \in Nat /\ r.dropped \in Nat
      /\ r.drops \in 0..(Leak - 1)
      /\ r = [tokens |-> r.tokens, lastSeen |-> r.lastSeen, responses |-> r.responses,
              dropped |-> r.dropped, drops |-> r.drops]
  BY DEF Record
<1> DEFINE x == [r EXCEPT !.tokens = t]
           s == [x EXCEPT !.lastSeen = now]
           a == [s EXCEPT !.tokens = @ - TokenTicks]
           b == [s EXCEPT !.dropped = @ + 1]
           a2 == [a EXCEPT !.responses = @ + 1]
           b2 == [b EXCEPT !.drops = CountAfter(@)]
<1>2. Answered(r, t) = a2 /\ Turned(r, t) = b2
  BY DEF Answered, Turned
<1>3. x = [tokens |-> t, lastSeen |-> r.lastSeen, responses |-> r.responses,
           dropped |-> r.dropped, drops |-> r.drops]
  BY <1>1
<1> HIDE DEF x
<1>4. s = [tokens |-> t, lastSeen |-> now, responses |-> r.responses,
           dropped |-> r.dropped, drops |-> r.drops]
  BY <1>3
<1> HIDE DEF s
<1>5. /\ a = [tokens |-> t - TokenTicks, lastSeen |-> now, responses |-> r.responses,
              dropped |-> r.dropped, drops |-> r.drops]
      /\ b = [tokens |-> t, lastSeen |-> now, responses |-> r.responses,
              dropped |-> r.dropped + 1, drops |-> r.drops]
  BY <1>4
<1> HIDE DEF a, b
<1>6. /\ a2 = [tokens |-> t - TokenTicks, lastSeen |-> now, responses |-> r.responses + 1,
               dropped |-> r.dropped, drops |-> r.drops]
      /\ b2 = [tokens |-> t, lastSeen |-> now, responses |-> r.responses,
               dropped |-> r.dropped + 1, drops |-> CountAfter(r.drops)]
  BY <1>5
<1>7. /\ t - TokenTicks \in Int /\ r.responses + 1 \in Nat /\ r.dropped + 1 \in Nat
      /\ CountAfter(r.drops) \in 0..(Leak - 1)
  BY <1>1, CountsDrops, LimitsAssumption
<1> HIDE DEF a2, b2
<1> QED BY <1>1, <1>2, <1>6, <1>7 DEF Record

\* Nothing is owed at the start.
LEMMA KissInit == TableInit => KissInv
<1> SUFFICES ASSUME TableInit PROVE KissInv
  OBVIOUS
<1>1. /\ now = 1 /\ records = [i \in Slots |-> NewRecord] /\ globalDrops = 0
      /\ stats.kisses = 0 /\ stats.dropped = 0
  BY DEF TableInit
<1>2. NewRecord \in Record /\ NewRecord.drops = 0
  BY <1>1, NewRecordIs
<1>3. records \in [Slots -> Record] /\ globalDrops \in 0..(Leak - 1)
  BY <1>1, <1>2, LimitsAssumption
<1>4. Owed(records) = 0
  <2>1. Pile(DropsOf(records)) = {}
    <3>1. \A d \in Slots \X (1..Leak) : ~ (d[2] <= DropsOf(records)[d[1]])
      BY <1>1, <1>2, LimitsAssumption DEF DropsOf
    <3> QED BY <3>1 DEF Pile
  <2> QED BY <2>1, FS_EmptySet DEF Owed
<1>5. stats.kisses * Leak = 0
  BY <1>1, LimitsAssumption
<1> QED BY <1>1, <1>3, <1>4, <1>5 DEF KissInv

\* Past the global ceiling, a record that is made forgets its drops, and one that refuses
\* counts a drop or pays for a kiss with a leak's worth of them (server.rs, admit_handle).
LEMMA AdmitKeepsKiss ==
    ASSUME KissInv, LimiterInv, TableIsSound, NEW k \in Keys, AdmitClient(k)
    PROVE  KissInv'
<1> DEFINE i      == Find(table', k)
           isNew  == Find(table, k) = NIL
           before == IF isNew THEN NewRecord ELSE records[i]
           tokens == Refill(before)
           counted == [stats EXCEPT !.evicted = @ + (IF isNew /\ IsFull THEN 1 ELSE 0)]
<1>1. /\ table' = Remembered(k) /\ globalDrops' = globalDrops
      /\ IF tokens >= TokenTicks
         THEN /\ records' = [records EXCEPT ![i] = Answered(before, tokens)]
              /\ stats' = [counted EXCEPT !.requests = @ + 1, !.responses = @ + 1]
         ELSE /\ records' = [records EXCEPT ![i] = Turned(before, tokens)]
              /\ stats' = StatsRefused(counted, before.drops)
  BY DEF AdmitClient, Answered, Turned
<1>2. i \in Slots
  BY <1>1, AdmissionRemembers DEF Remembers
<1>3. now \in Nat /\ stats \in Stats /\ Leak \in Nat /\ Leak # 0
  BY LimitsAssumption DEF LimiterInv, LimiterTypeOK
<1>4. /\ records \in [Slots -> Record] /\ globalDrops \in 0..(Leak - 1)
      /\ stats.kisses * Leak + globalDrops + Owed(records) <= stats.dropped
  BY DEF KissInv
<1> HIDE DEF i, isNew
<1>5. /\ counted \in Stats /\ counted.dropped = stats.dropped
      /\ counted.kisses = stats.kisses
  BY <1>3 DEF Stats
<1>6. before \in Record /\ before.drops <= records[i].drops /\ before.drops \in 0..(Leak - 1)
      /\ records[i].drops \in 0..(Leak - 1)
  <2>1. records[i] \in Record /\ records[i].drops \in 0..(Leak - 1)
    BY <1>2, <1>4 DEF Record
  <2>2. NewRecord \in Record /\ NewRecord.drops = 0
    BY <1>3, NewRecordIs
  <2>3. CASE isNew
    <3>1. before = NewRecord
      BY <2>3
    <3> HIDE DEF before
    <3> QED BY <3>1, <2>1, <2>2, <1>3
  <2>4. CASE ~ isNew
    <3>1. before = records[i]
      BY <2>4
    <3>2. before.drops = records[i].drops
      BY <3>1
    <3> HIDE DEF before
    <3> QED BY <3>1, <3>2, <2>1, <1>3
  <2> QED BY <2>3, <2>4
<1> HIDE DEF counted, before
<1>7. tokens \in Int
  BY <1>3, <1>6, RefillIs
<1> HIDE DEF tokens
<1>8. /\ Answered(before, tokens) \in Record /\ Answered(before, tokens).drops = before.drops
      /\ Turned(before, tokens) \in Record
      /\ Turned(before, tokens).drops = CountAfter(before.drops)
  BY <1>3, <1>6, <1>7, Rewritten
<1>9. ASSUME NEW r \in Record, records' = [records EXCEPT ![i] = r]
      PROVE  /\ records' \in [Slots -> Record]
             /\ Owed(records') = Owed(records) - records[i].drops + r.drops
             /\ Owed(records) - records[i].drops \in Nat /\ Owed(records) \in Nat
  <2> DEFINE f == DropsOf(records)
             g == DropsOf(records')
  <2>1. r.drops \in 0..(Leak - 1)
    BY DEF Record
  <2>2. f \in [Slots -> 0..(Leak - 1)] /\ f[i] = records[i].drops
    BY <1>2, <1>4 DEF DropsOf, Record
  <2>3. g = [f EXCEPT ![i] = r.drops]
    BY <1>2, <1>4, <1>9 DEF DropsOf
  <2> HIDE DEF f, g
  <2>4. /\ Cardinality(Pile(f)) \in Nat /\ Cardinality(Pile(f)) - f[i] \in Nat
        /\ Cardinality(Pile(g)) = Cardinality(Pile(f)) - f[i] + r.drops
    BY <2>1, <2>2, <2>3, <1>2, PileChanges
  <2>5. records' \in [Slots -> Record]
    BY <1>4, <1>9
  <2> QED BY <2>2, <2>4, <2>5 DEF Owed, f, g
<1> DEFINE owed == Owed(records)
           owed2 == Owed(records')
           paid == stats.kisses * Leak
<1>10. stats.kisses \in Nat /\ stats.dropped \in Nat /\ paid \in Nat
       /\ (stats.kisses + 1) * Leak = paid + Leak /\ (stats.kisses + 0) * Leak = paid
  <2>1. stats.kisses \in Nat /\ stats.dropped \in Nat
    BY <1>3 DEF Stats
  <2> QED BY <2>1, KissCosts
<1>11. CASE tokens >= TokenTicks
  <2>1. records' = [records EXCEPT ![i] = Answered(before, tokens)]
        /\ stats'.kisses = stats.kisses /\ stats'.dropped = stats.dropped
    BY <1>1, <1>5, <1>11 DEF Stats
  <2>2. /\ records' \in [Slots -> Record] /\ owed2 = owed - records[i].drops + before.drops
        /\ owed - records[i].drops \in Nat /\ owed \in Nat
    BY <2>1, <1>8, <1>9
  <2>3. stats'.kisses * Leak = paid
    BY <2>1
  <2> HIDE DEF owed, owed2, paid
  <2>4. paid + globalDrops + owed2 <= stats.dropped
    BY <2>2, <1>3, <1>4, <1>6, <1>10 DEF owed, paid
  <2> QED BY <2>1, <2>2, <2>3, <2>4, <1>1, <1>4 DEF KissInv, owed2
<1>12. CASE ~ (tokens >= TokenTicks)
  <2> DEFINE kiss == IF KissIsDue(before.drops) THEN 1 ELSE 0
  <2>1. /\ records' = [records EXCEPT ![i] = Turned(before, tokens)]
        /\ stats' = StatsRefused(counted, before.drops)
    BY <1>1, <1>12
  <2>2. stats'.dropped = stats.dropped + 1 /\ stats'.kisses = stats.kisses + kiss
    <3> DEFINE d == before.drops
    <3> HIDE DEF d
    <3>1. /\ StatsRefused(counted, d).dropped = counted.dropped + 1
          /\ StatsRefused(counted, d).kisses = counted.kisses + (IF KissIsDue(d) THEN 1 ELSE 0)
      BY <1>5, RefusalCounts
    <3> QED BY <3>1, <2>1, <1>5 DEF d
  <2>3. /\ records' \in [Slots -> Record]
        /\ owed2 = owed - records[i].drops + CountAfter(before.drops)
        /\ owed - records[i].drops \in Nat /\ owed \in Nat
    BY <2>1, <1>8, <1>9
  <2>4. /\ CountAfter(before.drops) \in 0..(Leak - 1)
        /\ KissIsDue(before.drops) => before.drops = Leak - 1 /\ CountAfter(before.drops) = 0
        /\ ~ KissIsDue(before.drops) => CountAfter(before.drops) = before.drops + 1
    BY <1>6, CountsDrops
  <2>5. stats'.kisses * Leak + globalDrops + owed2 <= stats.dropped + 1
    <3>1. CASE KissIsDue(before.drops)
      <4>1. stats'.kisses * Leak = paid + Leak
        BY <3>1, <2>2, <1>10
      <4> HIDE DEF owed, owed2, paid
      <4>2. paid + Leak + globalDrops + owed2 <= stats.dropped + 1
        BY <3>1, <2>3, <2>4, <1>3, <1>4, <1>6, <1>10 DEF owed, paid
      <4> QED BY <4>1, <4>2
    <3>2. CASE ~ KissIsDue(before.drops)
      <4>1. stats'.kisses * Leak = paid
        BY <3>2, <2>2, <1>10
      <4> HIDE DEF owed, owed2, paid
      <4>2. paid + globalDrops + owed2 <= stats.dropped + 1
        BY <3>2, <2>3, <2>4, <1>3, <1>4, <1>6, <1>10 DEF owed, paid
      <4> QED BY <4>1, <4>2
    <3> QED BY <3>1, <3>2
  <2> QED BY <2>2, <2>3, <2>5, <1>1, <1>4 DEF KissInv
<1> QED BY <1>11, <1>12

\* At the global ceiling the refusal is counted, or paid for, in the same way (server.rs,
\* admit_handle).
LEMMA RefuseKeepsKiss ==
    ASSUME KissInv, LimiterInv, RefuseGlobally
    PROVE  KissInv'
<1> DEFINE paid == stats.kisses * Leak
           owed == Owed(records)
           kiss == IF KissIsDue(globalDrops) THEN 1 ELSE 0
<1>1. /\ records' = records /\ globalDrops' = CountAfter(globalDrops)
      /\ stats' = StatsRefused(stats, globalDrops)
  BY DEF RefuseGlobally
<1>2. stats \in Stats /\ Leak \in Nat /\ Leak # 0
  BY LimitsAssumption DEF LimiterInv, LimiterTypeOK
<1>3. /\ records \in [Slots -> Record] /\ globalDrops \in 0..(Leak - 1)
      /\ paid + globalDrops + owed <= stats.dropped
  BY DEF KissInv
<1>4. stats'.dropped = stats.dropped + 1 /\ stats'.kisses = stats.kisses + kiss
  BY <1>1, <1>2, RefusalCounts
<1>5. stats.kisses \in Nat /\ stats.dropped \in Nat /\ paid \in Nat
      /\ (stats.kisses + 1) * Leak = paid + Leak /\ (stats.kisses + 0) * Leak = paid
  <2>1. stats.kisses \in Nat /\ stats.dropped \in Nat
    BY <1>2 DEF Stats
  <2> QED BY <2>1, KissCosts
<1>6. owed \in Nat
  <2>1. DropsOf(records) \in [Slots -> 0..(Leak - 1)]
    BY <1>3 DEF DropsOf, Record
  <2>2. 1 \in Slots
    BY SizeFacts DEF Slots
  <2>3. Cardinality(Pile(DropsOf(records))) \in Nat
    <3> DEFINE f == DropsOf(records)
    <3> HIDE DEF f
    <3>1. f \in [Slots -> 0..(Leak - 1)]
      BY <2>1 DEF f
    <3>2. IsFiniteSet(Pile(f))
      BY <3>1, <2>2, PileFacts
    <3> QED BY <3>2, FS_CardinalityType DEF f
  <2> QED BY <2>3 DEF Owed
<1>7. /\ CountAfter(globalDrops) \in 0..(Leak - 1)
      /\ KissIsDue(globalDrops) => globalDrops = Leak - 1 /\ CountAfter(globalDrops) = 0
      /\ ~ KissIsDue(globalDrops) => CountAfter(globalDrops) = globalDrops + 1
  BY <1>3, CountsDrops
<1>8. stats'.kisses * Leak + globalDrops' + owed <= stats.dropped + 1
  <2>1. CASE KissIsDue(globalDrops)
    <3>1. stats'.kisses * Leak = paid + Leak
      BY <2>1, <1>4, <1>5
    <3> HIDE DEF owed, paid
    <3>2. paid + Leak + globalDrops' + owed <= stats.dropped + 1
      BY <2>1, <1>1, <1>2, <1>3, <1>5, <1>6, <1>7
    <3> QED BY <3>1, <3>2
  <2>2. CASE ~ KissIsDue(globalDrops)
    <3>1. stats'.kisses * Leak = paid
      BY <2>2, <1>4, <1>5
    <3> HIDE DEF owed, paid
    <3>2. paid + globalDrops' + owed <= stats.dropped + 1
      BY <2>2, <1>1, <1>2, <1>3, <1>5, <1>6, <1>7
    <3> QED BY <3>1, <3>2
  <2> QED BY <2>1, <2>2
<1> QED BY <1>1, <1>3, <1>4, <1>7, <1>8 DEF KissInv

\* Kisses that were paid for are rare.
LEMMA KissInvPays == KissInv /\ LimiterInv => KissesAreRare
<1> SUFFICES ASSUME KissInv, LimiterInv PROVE KissesAreRare
  OBVIOUS
<1> DEFINE paid == stats.kisses * Leak
           owed == Owed(records)
<1>1. stats.kisses \in Nat /\ stats.dropped \in Nat
  BY DEF LimiterInv, LimiterTypeOK, Stats
<1>2. paid \in Nat
  BY <1>1, KissCosts
<1>3. owed \in Nat
  <2> DEFINE f == DropsOf(records)
  <2>1. f \in [Slots -> 0..(Leak - 1)]
    BY DEF KissInv, DropsOf, Record
  <2>2. 1 \in Slots
    BY SizeFacts DEF Slots
  <2> HIDE DEF f
  <2>3. IsFiniteSet(Pile(f))
    BY <2>1, <2>2, PileFacts
  <2> QED BY <2>3, FS_CardinalityType DEF Owed, f
<1>4. globalDrops \in 0..(Leak - 1) /\ paid + globalDrops + owed <= stats.dropped
  BY DEF KissInv
<1> HIDE DEF paid, owed
<1>5. paid <= stats.dropped
  BY <1>1, <1>2, <1>3, <1>4, LimitsAssumption
<1> QED BY <1>5 DEF KissesAreRare, paid

\* All that the table and the limiter keep.
TableInvariant == TableIsSound /\ LimiterInv /\ KissInv

\* What the table and its limiters keep holds at the start and after every step.
LEMMA TableInvariantHolds ==
    /\ TableInit => TableInvariant
    /\ TableInvariant /\ [TableNext]_tableVars => TableInvariant'
<1>1. TableInit => TableInvariant
  BY TableInitIsSound, LimiterInit, KissInit DEF TableInvariant
<1>2. ASSUME TableInvariant, [TableNext]_tableVars PROVE TableInvariant'
  <2>1. TableIsSound'
    BY <1>2, StepKeepsTableSound DEF TableInvariant
  <2>2. LimiterInv'
    BY <1>2, StepKeepsLimiter DEF TableInvariant
  <2>3. KissInv'
    <3>1. CASE TableTick \/ UNCHANGED tableVars
      <4>1. records' = records /\ globalDrops' = globalDrops /\ stats' = stats
        BY <3>1 DEF TableTick, tableVars, limits
      <4> QED BY <4>1, <1>2 DEF TableInvariant, KissInv, Owed, DropsOf, Pile
    <3>2. ASSUME NEW k \in Keys, Admit(k) PROVE KissInv'
      BY <3>2, <1>2, AdmitKeepsKiss, RefuseKeepsKiss DEF Admit, TableInvariant
    <3> QED BY <3>1, <3>2, <1>2 DEF TableNext
  <2> QED BY <2>1, <2>2, <2>3 DEF TableInvariant
<1> QED BY <1>1, <1>2

\* Kisses of death are rarer than the drops they answer by the factor of the leak, over both
\* limiters and all evictions together (server.rs, leak_shift).
THEOREM KissesStayRare == TableSpec => []KissesAreRare
<1>1. TableInvariant => KissesAreRare
  BY KissInvPays DEF TableInvariant
<1> QED BY <1>1, TableInvariantHolds, PTL DEF TableSpec

-----------------------------------------------------------------------------
\* The server: types, and what building a reply does.

\* The types of the server's state.
Stamp   == [receive : Nat, transmit : Nat]
Request == [key : Keys, origin : Nat]
Reply   == [key : Keys, handle : Handles, kind : {"time", "nak", "kiss"}, receive : Nat]
Phases  == {"idle", "received", "build", "send", "note"}

\* The server is well typed.
ServerTypeOK ==
    /\ stamps \in [Slots -> Stamp]
    /\ phase \in Phases
    /\ batch \in Seq(Request) /\ recvTs \in Nat
    /\ replies \in Seq(Reply) /\ sentTs \in Nat /\ sent \in Nat
    /\ phase = "note" => sent <= Len(replies)
    /\ told \in [Keys -> SUBSET [receive : Nat, sent : Nat]]
    /\ sentAt \in [Keys -> SUBSET Nat]
    /\ kissed \in SUBSET Keys /\ webbed \in SUBSET Keys

\* A stamp is a number, and the receive kind is never the unset one (server.rs,
\* mark_server_timestamps).
LEMMA StampTimes ==
    ASSUME NEW t \in Nat PROVE Receive(t) \in Nat /\ Receive(t) # ZERO /\ Transmit(t) \in Nat
BY DEF Receive, Transmit, ZERO

\* The server starts well typed.
LEMMA ServerTypeInit == Init => ServerTypeOK
<1> SUFFICES ASSUME Init PROVE ServerTypeOK
  OBVIOUS
<1>1. Unset \in Stamp
  BY DEF Unset, Stamp, ZERO
<1> QED BY <1>1 DEF Init, ServerTypeOK, Phases, ZERO

\* An admission is refused before the table is looked at, or remembers the client.
RefusedByCeiling(k) ==
    /\ table' = table /\ admitted'.handle = INVALID /\ admitted'.disposition # "respond"
    /\ admitted'.disposition \in Dispositions
LetIntoTable(k) ==
    /\ Remembers(table, table', k) /\ admitted'.handle = HandleFor(table', Find(table', k))
    /\ admitted'.handle \in Handles /\ admitted'.handle # INVALID
    /\ admitted'.handle.slot = Find(table', k) /\ admitted'.disposition \in Dispositions
    /\ admitted'.handle.generation = table'.slots[Find(table', k)].generation

\* A refusal kisses or drops.
LEMMA RefusalIs == ASSUME NEW d PROVE Refusal(d) \in {"kiss", "drop"} /\ Refusal(d) # "respond"
BY Zenon DEF Refusal

\* An admission returns no handle and leaves the table alone, or remembers the client and
\* returns a handle to its slot (server.rs, ClientTable::admit_handle).
LEMMA AdmitFacts ==
    ASSUME TableIsSound, TableIsSound', NEW k \in Keys, Admit(k)
    PROVE  /\ hash' = hash /\ now' = now
           /\ RefusedByCeiling(k) \/ LetIntoTable(k)
<1>1. hash' = hash /\ now' = now
  BY DEF Admit
<1>2. CASE RefuseGlobally
  <2>1. /\ table' = table
        /\ admitted' = [disposition |-> Refusal(globalDrops), handle |-> INVALID]
    BY <1>2 DEF RefuseGlobally
  <2> QED BY <2>1, <1>1, RefusalIs DEF RefusedByCeiling, Dispositions
<1>3. CASE AdmitClient(k)
  <2> DEFINE i == Find(table', k)
             r == IF Find(table, k) = NIL THEN NewRecord ELSE records[i]
  <2>1. /\ table' = Remembered(k)
        /\ \/ admitted' = [disposition |-> "respond", handle |-> HandleFor(table', i)]
           \/ admitted' = [disposition |-> Refusal(r.drops), handle |-> HandleFor(table', i)]
    BY <1>3 DEF AdmitClient
  <2>2. Remembers(table, table', k)
    BY <2>1, AdmissionRemembers
  <2>3. i \in Slots /\ i \in 1..Len(table'.slots) /\ i # NIL
    BY <2>2 DEF Remembers
  <2>4. HandleFor(table', i) \in Handles
    <3>1. TableOK(table')
      BY DEF TableIsSound, TableInv, TableOK, Tables, SlotType, Buckets, Slots
    <3>2. table'.slots[i] \in SlotType
      BY <3>1, <2>3, TableFacts
    <3>3. i \in 0..Capacity
      BY <2>3, SizeFacts DEF Slots
    <3> QED BY <3>2, <3>3 DEF HandleFor, Handles, SlotType
  <2>5. HandleFor(table', i) # INVALID
    BY <2>3 DEF HandleFor, INVALID
  <2>6. /\ HandleFor(table', i).slot = i
        /\ HandleFor(table', i).generation = table'.slots[i].generation
    BY DEF HandleFor
  <2> HIDE DEF i, r
  <2>7. admitted'.disposition \in Dispositions /\ admitted'.handle = HandleFor(table', i)
    BY <2>1, RefusalIs DEF Dispositions
  <2>8. LetIntoTable(k)
    BY <2>2, <2>4, <2>5, <2>6, <2>7 DEF LetIntoTable, i
  <2> QED BY <2>8, <1>1
<1> QED BY <1>2, <1>3 DEF Admit

\* The slot of a client, or NIL.
Place(k) == Find(table, k)

\* A client's slot after a step is what a scan of the new table finds.
LEMMA PlaceNext ==
    ASSUME hash' = hash, NEW k
    PROVE  Place(k)' = Find(table', k)
<1>1. Probe(table, k)' = Probe(table', k)
  BY DEF Probe, Run, Occupied, Forward, Ideal
<1> QED BY <1>1 DEF Place, Find

\* What the server needs to know of its table.
TableReads ==
    /\ DOMAIN table.slots = 1..Len(table.slots)
    /\ Len(table.slots) \in Nat /\ Len(table.slots) <= Capacity
    /\ \A s \in 1..Len(table.slots) : table.slots[s].key \in Keys /\ table.slots[s].generation \in Nat
    /\ \A k \in Keys : Place(k) # NIL =>
          /\ Place(k) \in 1..Len(table.slots) /\ Place(k) \in Slots
          /\ table.slots[Place(k)].key = k

\* What the server reads of a table in order.
LEMMA SoundTableReads == TableIsSound => TableReads
<1> SUFFICES ASSUME TableIsSound PROVE TableReads
  OBVIOUS
<1>1. hash \in [Keys -> Nat]
  BY HashIs
<1>2. PICK n \in 0..Capacity : \E ord \in [1..n -> Slots] : TableInv(table, ord, n)
  BY DEF TableIsSound
<1>3. PICK ord \in [1..n -> Slots] : TableInv(table, ord, n)
  BY <1>2
<1>4. TableOK(table)
  BY <1>3 DEF TableInv
<1>5. /\ table.slots \in Seq(SlotType) /\ Len(table.slots) \in Nat
      /\ Len(table.slots) <= Capacity
      /\ \A s \in 1..Len(table.slots) : table.slots[s] \in SlotType
  BY <1>4, TableFacts
<1>6. DOMAIN table.slots = 1..Len(table.slots)
  BY <1>5
<1>7. \A s \in 1..Len(table.slots) : table.slots[s].key \in Keys /\ table.slots[s].generation \in Nat
  BY <1>5 DEF SlotType
<1>8. ASSUME NEW k \in Keys, Find(table, k) # NIL
      PROVE  /\ Find(table, k) \in 1..Len(table.slots) /\ Find(table, k) \in Slots
             /\ table.slots[Find(table, k)].key = k
  <2>1. PICK p \in 1..n : ord[p] = Find(table, k) /\ table.slots[ord[p]].key = k
    BY <1>1, <1>3, <1>8, FoundIsListed
  <2>2. ord[p] \in 1..Len(table.slots)
    BY <1>1, <1>3, ListedIsFound
  <2>3. ord[p] \in Slots
    OBVIOUS
  <2> QED BY <2>1, <2>2, <2>3
<1> QED BY <1>5, <1>6, <1>7, <1>8 DEF TableReads, Place

\* And of the next one.
LEMMA SoundTableReadsNext == TableIsSound' => TableReads'
BY SoundTableReads, PTL

\* What building a reply to k does: nothing to the table and the stamps when the global
\* limiter refuses, and otherwise to nobody's stamps but k's.
Built(k, origin, recv) ==
    /\ built'.key = k /\ built'.origin = origin /\ built'.receive = Receive(recv)
    /\ built'.kind \in {"time", "nak", "none", "kiss"} /\ built'.handle \in Handles
    /\ stamps' \in [Slots -> Stamp] /\ hash' = hash /\ now' = now
TurnedAway ==
    /\ table' = table /\ stamps' = stamps /\ ~ built'.interleaved
    /\ built'.handle = INVALID /\ built'.kind \notin {"time", "nak"}
RecordedIn(k, origin, recv, i, known) ==
    /\ Remembers(table, table', k) /\ Find(table', k) = i /\ known = (Find(table, k) # NIL)
    /\ \A s \in Slots \ {i} : stamps'[s] = stamps[s]
    /\ stamps'[i].transmit = IF known THEN stamps[i].transmit ELSE ZERO
    /\ \/ stamps'[i].receive = Receive(recv)
       \/ /\ built'.kind \notin {"time", "nak"}
          /\ stamps'[i].receive = IF known THEN stamps[i].receive ELSE ZERO
    /\ built'.handle.slot = i /\ built'.handle.generation = table'.slots[i].generation
    /\ built'.interleaved => /\ known /\ origin # ZERO /\ origin = stamps[i].receive
                             /\ stamps[i].transmit # ZERO /\ built'.transmit = stamps[i].transmit
Recorded(k, origin, recv) == \E i \in Slots, known \in BOOLEAN : RecordedIn(k, origin, recv, i, known)

\* Stamping one record.
LEMMA Stamped ==
    ASSUME NEW ss \in [Slots -> Stamp], NEW i \in Slots, NEW t \in Nat
    PROVE  LET r == [ss EXCEPT ![i].receive = t]
           IN  /\ r \in [Slots -> Stamp]
               /\ \A s \in Slots \ {i} : r[s] = ss[s]
               /\ r[i].receive = t /\ r[i].transmit = ss[i].transmit
<1> DEFINE r == [ss EXCEPT ![i].receive = t]
<1>1. ss[i] = [receive |-> ss[i].receive, transmit |-> ss[i].transmit] /\ ss[i].transmit \in Nat
  BY DEF Stamp
<1>2. r[i] = [ss[i] EXCEPT !.receive = t]
  OBVIOUS
<1>3. r[i] = [receive |-> t, transmit |-> ss[i].transmit]
  BY <1>1, <1>2
<1>4. r[i] \in Stamp
  BY <1>1, <1>3 DEF Stamp
<1>5. DOMAIN r = Slots /\ r = [s \in Slots |-> r[s]] /\ \A s \in Slots \ {i} : r[s] = ss[s]
  OBVIOUS
<1> HIDE DEF r
<1>6. r \in [Slots -> Stamp]
  BY <1>4, <1>5
<1> QED BY <1>3, <1>5, <1>6 DEF r

\* Building a reply refuses at the ceiling and touches nothing, or rewrites the stamps of
\* the client's own record alone (server.rs, build_reply_in).
LEMMA BuildIs ==
    ASSUME TableIsSound, TableIsSound', stamps \in [Slots -> Stamp],
           NEW k \in Keys, NEW origin, NEW recv \in Nat, NEW what \in Outcomes,
           Build(k, origin, recv, what)
    PROVE  Built(k, origin, recv) /\ (TurnedAway \/ Recorded(k, origin, recv))
<1> DEFINE h     == admitted'.handle
           fresh == IF Find(table, k) = NIL /\ h # INVALID
                    THEN [stamps EXCEPT ![h.slot] = Unset] ELSE stamps
           asked == admitted'.disposition = "respond"
           mode  == asked /\ Interleaves(table', fresh, h, origin)
           kind  == IF asked THEN what
                    ELSE IF admitted'.disposition = "kiss" THEN "kiss" ELSE "none"
<1>1. /\ Admit(k)
      /\ stamps' = IF asked THEN [fresh EXCEPT ![h.slot].receive = Receive(recv)] ELSE fresh
      /\ built' = [key |-> k, origin |-> origin, handle |-> h, kind |-> kind,
                   receive |-> Receive(recv), interleaved |-> mode,
                   transmit |-> IF mode THEN fresh[h.slot].transmit ELSE ZERO]
  BY DEF Build
<1>2. hash' = hash /\ now' = now /\ (RefusedByCeiling(k) \/ LetIntoTable(k))
  BY <1>1, AdmitFacts
<1>3. /\ built'.key = k /\ built'.origin = origin /\ built'.handle = h /\ built'.kind = kind
      /\ built'.receive = Receive(recv) /\ built'.interleaved = mode
      /\ built'.transmit = IF mode THEN fresh[h.slot].transmit ELSE ZERO
  BY <1>1
<1>4. kind \in {"time", "nak", "none", "kiss"} /\ (~ asked => kind \notin {"time", "nak"})
  BY DEF Outcomes
<1>5. Receive(recv) \in Nat
  BY StampTimes
<1>6. CASE RefusedByCeiling(k)
  <2>1. table' = table /\ h = INVALID /\ ~ asked
    BY <1>6 DEF RefusedByCeiling
  <2>2. stamps' = stamps /\ ~ mode
    BY <1>1, <2>1
  <2>3. INVALID \in Handles
    BY SizeFacts DEF INVALID, Handles, NIL
  <2> HIDE DEF h, fresh, asked, mode, kind
  <2> QED BY <2>1, <2>2, <2>3, <1>2, <1>3, <1>4, <1>5 DEF Built, TurnedAway
<1>7. CASE LetIntoTable(k)
  <2> DEFINE i == Find(table', k)
             known == Find(table, k) # NIL
  <2>1. /\ Remembers(table, table', k) /\ h \in Handles /\ h # INVALID
        /\ h.slot = i /\ h.generation = table'.slots[i].generation
    BY <1>7 DEF LetIntoTable
  <2>2. i \in Slots
    BY <2>1 DEF Remembers
  <2>3. Unset \in Stamp /\ Unset.transmit = ZERO /\ Unset.receive = ZERO
    BY DEF Unset, Stamp, ZERO
  <2>4. fresh = IF known THEN stamps ELSE [stamps EXCEPT ![i] = Unset]
    BY <2>1
  <2> HIDE DEF i, known, fresh, h
  <2>5. /\ fresh \in [Slots -> Stamp] /\ \A s \in Slots \ {i} : fresh[s] = stamps[s]
        /\ fresh[i] = IF known THEN stamps[i] ELSE Unset
    BY <2>2, <2>3, <2>4
  <2>6. asked => stamps' = [fresh EXCEPT ![i].receive = Receive(recv)]
    BY <1>1, <2>1
  <2>7. ~ asked => stamps' = fresh
    BY <1>1
  <2>8. /\ stamps' \in [Slots -> Stamp] /\ \A s \in Slots \ {i} : stamps'[s] = fresh[s]
        /\ stamps'[i].transmit = fresh[i].transmit
        /\ stamps'[i].receive = IF asked THEN Receive(recv) ELSE fresh[i].receive
    <3>1. CASE asked
      <4> DEFINE r == [fresh EXCEPT ![i].receive = Receive(recv)]
      <4>0. fresh \in [Slots -> Stamp]
        BY <2>5
      <4>1. /\ r \in [Slots -> Stamp] /\ \A s \in Slots \ {i} : r[s] = fresh[s]
            /\ r[i].receive = Receive(recv) /\ r[i].transmit = fresh[i].transmit
        BY ONLY <4>0, <2>2, <1>5, Stamped
      <4>2. stamps' = r
        BY <2>6, <3>1
      <4> HIDE DEF r
      <4> QED BY <4>1, <4>2, <3>1
    <3>2. CASE ~ asked
      BY <3>2, <2>5, <2>7
    <3> QED BY <3>1, <3>2
  <2>9. mode => /\ known /\ origin # ZERO /\ origin = stamps[i].receive
                /\ stamps[i].transmit # ZERO /\ fresh[h.slot].transmit = stamps[i].transmit
    BY <2>1, <2>3, <2>5 DEF Interleaves, Names
  <2> HIDE DEF asked, mode, kind
  <2>10. RecordedIn(k, origin, recv, i, known)
    BY <2>1, <2>3, <2>5, <2>8, <2>9, <1>3, <1>4 DEF RecordedIn, i, known
  <2>11. Recorded(k, origin, recv)
    <3>1. known \in BOOLEAN
      BY DEF known
    <3> QED BY <2>2, <2>10, <3>1 DEF Recorded
  <2> QED BY <2>1, <2>8, <2>11, <1>2, <1>3, <1>4 DEF Built
<1> QED BY <1>2, <1>6, <1>7

\* The next request of a batch and those after it.
LEMMA NextRequest ==
    ASSUME ServerTypeOK, batch # <<>>
    PROVE  /\ batch[1] \in Request /\ batch[1].key \in Keys /\ batch[1].origin \in Nat
           /\ Tail(batch) \in Seq(Request) /\ Len(batch) \in Nat \ {0}
           /\ Len(Tail(batch)) = Len(batch) - 1
           /\ \A n \in 1..Len(Tail(batch)) : Tail(batch)[n] = batch[n + 1]
<1>1. batch \in Seq(Request) /\ Len(batch) \in Nat \ {0}
  BY DEF ServerTypeOK
<1>2. batch[1] \in Request
  BY <1>1
<1> QED BY <1>1, <1>2 DEF Request

\* A step of the server is a step of its table, or leaves it alone.
LEMMA StepUsesTable == ServerTypeOK /\ [Next]_serverVars => [TableNext]_tableVars
<1> SUFFICES ASSUME ServerTypeOK, [Next]_serverVars PROVE [TableNext]_tableVars
  OBVIOUS
<1>1. CASE UNCHANGED tableVars
  BY <1>1
<1>2. CASE \E what \in Outcomes : BuildNext(what)
  <2>1. Admit(batch[1].key) /\ batch # <<>>
    BY <1>2 DEF BuildNext, Build
  <2>2. batch[1].key \in Keys
    BY <2>1, NextRequest
  <2> QED BY <2>1, <2>2 DEF TableNext
<1>3. CASE \E k \in WebKeys, what \in Outcomes : Gateway(k, what)
  <2>1. PICK k \in WebKeys : Admit(k)
    BY <1>3 DEF Gateway, Build
  <2>2. k \in Keys
    BY ServerAssumption
  <2> QED BY <2>1, <2>2 DEF TableNext
<1>4. CASE Tick
  BY <1>4 DEF Tick, TableNext
<1>5. CASE ReceiveBatch
  BY <1>1, <1>5 DEF ReceiveBatch
<1>6. CASE Lock
  BY <1>1, <1>6 DEF Lock
<1>7. CASE Unlock
  BY <1>1, <1>7 DEF Unlock
<1>8. CASE Send
  BY <1>1, <1>8 DEF Send
<1>9. CASE Note
  BY <1>1, <1>9 DEF Note
<1> QED BY <1>1, <1>2, <1>3, <1>4, <1>5, <1>6, <1>7, <1>8, <1>9 DEF Next, serverVars

\* A batch that is received is one of requests.
LEMMA ReceiveTyped ==
    ASSUME ServerTypeOK, now \in Nat, ReceiveBatch
    PROVE  ServerTypeOK'
<1>1. PICK n \in 1..BatchMax, keys \in [1..BatchMax -> Keys] :
        \E origins \in [1..n -> UNION {Origins(k) : k \in Keys}] :
           /\ \A i \in 1..n : origins[i] \in Origins(keys[i])
           /\ batch' = [i \in 1..n |-> [key |-> keys[i], origin |-> origins[i]]]
  BY DEF ReceiveBatch
<1>2. PICK origins \in [1..n -> UNION {Origins(k) : k \in Keys}] :
           /\ \A i \in 1..n : origins[i] \in Origins(keys[i])
           /\ batch' = [i \in 1..n |-> [key |-> keys[i], origin |-> origins[i]]]
  BY <1>1
<1>3. n \in Nat /\ 1..n \subseteq 1..BatchMax
  BY ServerAssumption
<1>4. \A k \in Keys : Origins(k) \subseteq Nat
  BY DEF Origins, ServerTypeOK, ZERO
<1>5. ASSUME NEW i \in 1..n PROVE [key |-> keys[i], origin |-> origins[i]] \in Request
  <2>1. keys[i] \in Keys
    BY <1>3
  <2>2. origins[i] \in Origins(keys[i])
    BY <1>2
  <2>3. origins[i] \in Nat
    BY <2>1, <2>2, <1>4
  <2> QED BY <2>1, <2>3 DEF Request
<1>6. batch' \in [1..n -> Request]
  BY <1>2, <1>5
<1>7. batch' \in Seq(Request)
  BY <1>3, <1>6, FunctionIsSeq
<1>8. /\ phase' = "received" /\ recvTs' = now /\ replies' = <<>>
      /\ UNCHANGED <<stamps, sentTs, sent, history>>
  BY DEF ReceiveBatch
<1>9. replies' \in Seq(Reply)
  BY <1>8
<1> QED BY <1>7, <1>8, <1>9 DEF ServerTypeOK, Phases, history

\* A reply that is built is one of replies.
LEMMA BuildNextTyped ==
    ASSUME ServerTypeOK, TableIsSound, TableIsSound', NEW what \in Outcomes, BuildNext(what)
    PROVE  ServerTypeOK'
<1>1. /\ batch # <<>> /\ batch' = Tail(batch)
      /\ Build(batch[1].key, batch[1].origin, recvTs, what)
      /\ replies' = IF built'.kind = "none" THEN replies
                    ELSE Append(replies, [key |-> built'.key, handle |-> built'.handle,
                                          kind |-> built'.kind, receive |-> built'.receive])
      /\ UNCHANGED <<phase, recvTs, sentTs, sent, history>> /\ phase = "build"
  BY DEF BuildNext
<1>2. batch' \in Seq(Request) /\ batch[1].key \in Keys /\ batch[1].origin \in Nat
  BY <1>1, NextRequest
<1>3. recvTs \in Nat /\ stamps \in [Slots -> Stamp]
  BY DEF ServerTypeOK
<1>4. \E k \in Keys, origin \in Nat : Built(k, origin, recvTs)
  <2>1. PICK k \in Keys, origin \in Nat : Build(k, origin, recvTs, what)
    BY <1>1, <1>2
  <2>2. Built(k, origin, recvTs)
    BY <2>1, <1>3, BuildIs
  <2> QED BY <2>2
<1>5. replies' \in Seq(Reply)
  <2>1. CASE built'.kind = "none"
    BY <2>1, <1>1 DEF ServerTypeOK
  <2>2. CASE built'.kind # "none"
    <3> DEFINE r == [key |-> built'.key, handle |-> built'.handle,
                     kind |-> built'.kind, receive |-> built'.receive]
    <3>1. Receive(recvTs) \in Nat
      BY <1>3, StampTimes
    <3>2. r \in Reply
      BY <3>1, <2>2, <1>2, <1>4 DEF Built, Reply
    <3>3. replies' = Append(replies, r) /\ replies \in Seq(Reply)
      BY <2>2, <1>1 DEF ServerTypeOK
    <3> HIDE DEF r
    <3> QED BY <3>2, <3>3
  <2> QED BY <2>1, <2>2
<1> QED BY <1>1, <1>2, <1>3, <1>4, <1>5 DEF ServerTypeOK, Built, history

\* Sending keeps the types.
LEMMA SendTyped ==
    ASSUME ServerTypeOK, now \in Nat, Send
    PROVE  ServerTypeOK'
<1>1. PICK n \in 0..Len(replies) :
        /\ sent' = n /\ sentTs' = Transmit(now)
        /\ phase' = IF n = 0 THEN "idle" ELSE "note"
        /\ sentAt' = [k \in Keys |->
               sentAt[k] \cup {t \in {sentTs'} : \E i \in 1..n : replies[i].key = k}]
        /\ told' = [k \in Keys |->
               told[k] \cup {[receive |-> replies[i].receive, sent |-> sentTs'] :
                              i \in {j \in 1..n : replies[j].key = k /\ replies[j].kind = "time"}}]
        /\ kissed' = {k \in Keys : \/ Left(k, n, "kiss")
                                   \/ k \in kissed /\ ~Left(k, n, "time")}
  BY DEF Send
<1>2. UNCHANGED <<stamps, batch, recvTs, replies, webbed>>
  BY DEF Send
<1>3. sentTs' \in Nat
  BY <1>1, StampTimes
<1>4. replies \in Seq(Reply) /\ Len(replies) \in Nat /\ n \in Nat /\ n <= Len(replies)
  BY DEF ServerTypeOK
<1>5. \A i \in 1..n : replies[i] \in Reply
  BY <1>4
<1>6. told' \in [Keys -> SUBSET [receive : Nat, sent : Nat]]
  BY <1>1, <1>3, <1>5 DEF ServerTypeOK, Reply
<1>7. sentAt' \in [Keys -> SUBSET Nat]
  BY <1>1, <1>3 DEF ServerTypeOK
<1>8. kissed' \in SUBSET Keys
  BY <1>1
<1>9. sent' \in Nat /\ sent' <= Len(replies') /\ phase' \in Phases
  BY <1>1, <1>2, <1>4 DEF Phases
<1> QED BY <1>2, <1>3, <1>6, <1>7, <1>8, <1>9 DEF ServerTypeOK

\* Noting keeps the types.
LEMMA NoteTyped ==
    ASSUME ServerTypeOK, Note
    PROVE  ServerTypeOK'
<1>1. \A i \in Slots : [stamps[i] EXCEPT !.transmit = sentTs] \in Stamp /\ stamps[i] \in Stamp
  BY DEF ServerTypeOK, Stamp
<1>2. stamps' \in [Slots -> Stamp]
  BY <1>1 DEF Note, Noted
<1> QED BY <1>2 DEF Note, ServerTypeOK, Phases, history

\* The gateway keeps the types.
LEMMA GatewayTyped ==
    ASSUME ServerTypeOK, TableIsSound, TableIsSound', now \in Nat,
           NEW k \in WebKeys, NEW what \in Outcomes, Gateway(k, what)
    PROVE  ServerTypeOK'
<1>1. k \in Keys
  BY ServerAssumption
<1>2. PICK origin : Build(k, origin, now, what)
  BY DEF Gateway
<1>3. Built(k, origin, now)
  BY <1>1, <1>2, BuildIs DEF ServerTypeOK
<1>4. /\ webbed' = webbed \cup {k} /\ UNCHANGED <<thread, sentAt, kissed>>
      /\ told' = IF built'.kind = "time"
                 THEN [told EXCEPT ![k] = @ \cup {[receive |-> built'.receive, sent |-> Transmit(now)]}]
                 ELSE told
  BY DEF Gateway
<1>5. Receive(now) \in Nat /\ Transmit(now) \in Nat
  BY StampTimes
<1>6. [receive |-> built'.receive, sent |-> Transmit(now)] \in [receive : Nat, sent : Nat]
  BY <1>3, <1>5 DEF Built
<1>7. told' \in [Keys -> SUBSET [receive : Nat, sent : Nat]]
  BY <1>1, <1>4, <1>6 DEF ServerTypeOK
<1> QED BY <1>1, <1>3, <1>4, <1>7 DEF ServerTypeOK, Built, thread

\* Every step keeps the types.
LEMMA ServerTyped ==
    ASSUME ServerTypeOK, TableIsSound, TableIsSound', now \in Nat, [Next]_serverVars
    PROVE  ServerTypeOK'
<1>1. CASE Lock
  BY <1>1 DEF Lock, ServerTypeOK, Phases, history
<1>2. CASE Unlock
  BY <1>2 DEF Unlock, ServerTypeOK, Phases, history
<1>3. CASE Tick
  BY <1>3 DEF Tick, ServerTypeOK, thread, history
<1>4. CASE UNCHANGED serverVars
  BY <1>4 DEF ServerTypeOK, serverVars, thread, history
<1>5. ASSUME NEW what \in Outcomes, BuildNext(what) PROVE ServerTypeOK'
  BY <1>5, BuildNextTyped
<1>6. ASSUME NEW k \in WebKeys, NEW what \in Outcomes, Gateway(k, what) PROVE ServerTypeOK'
  BY <1>6, GatewayTyped
<1> QED BY <1>1, <1>2, <1>3, <1>4, <1>5, <1>6, ReceiveTyped, SendTyped, NoteTyped DEF Next

\* A handle was given to k: its slot is k's still, or has a later generation.
GivenTo(h, k) ==
    h.slot # NIL =>
        /\ h.slot \in 1..Len(table.slots) /\ h.generation \in Nat
        /\ h.generation <= table.slots[h.slot].generation
        /\ h.generation = table.slots[h.slot].generation => table.slots[h.slot].key = k

\* What an admission of k leaves to the others, and to the handles given before.
Spares(k, i, known) ==
    /\ Place(k)' = i /\ i \in Slots /\ i # NIL /\ i \in 1..Len(table'.slots)
    /\ table'.slots[i].key = k /\ known = (Place(k) # NIL)
    /\ known => i = Place(k) /\ \A h : Resolves(table, h) <=> Resolves(table', h)
    /\ \A other \in Keys \ {k} : Place(other)' # NIL =>
          /\ Place(other)' = Place(other) /\ Place(other) # i /\ Place(other) \in Slots
          /\ \A h : h.slot = Place(other) => (Resolves(table, h) <=> Resolves(table', h))
    /\ \A h, c : GivenTo(h, c) => GivenTo(h, c)'

\* An admission leaves the slots and the handles of the others alone, and a handle given
\* before is its client's still, or stale (server.rs, ClientTable::resolve).
LEMMA AdmissionSpares ==
    ASSUME TableReads, TableReads', hash' = hash, NEW k \in Keys, NEW i, NEW known,
           Remembers(table, table', k), Find(table', k) = i, known = (Find(table, k) # NIL)
    PROVE  Spares(k, i, known)
<1> DEFINE S == table.slots
           U == table'.slots
           N == Len(S)
           M == Len(U)
<1>1. /\ i \in Slots /\ i \in 1..M /\ i # NIL /\ U[i].key = k
      /\ known => i = Place(k) /\ SameClients(table, table')
      /\ ~ known => GivenAway(table, table', i, k)
      /\ \A other \in Keys \ {k} : Place(other)' # NIL => Place(other)' = Place(other)
  <2>1. \A c : Place(c)' = Find(table', c) /\ Place(c) = Find(table, c)
    BY PlaceNext DEF Place
  <2> QED BY <2>1 DEF Remembers
<1>2. Place(k)' = i /\ known = (Place(k) # NIL)
  BY PlaceNext DEF Place
<1>3. /\ N \in Nat /\ M \in Nat /\ DOMAIN S = 1..N /\ DOMAIN U = 1..M
      /\ \A s \in 1..N : S[s].generation \in Nat
      /\ \A s \in 1..M : U[s].generation \in Nat
  BY DEF TableReads
<1>4. /\ N <= M
      /\ \A s \in 1..N : \/ s = i /\ ~ known /\ U[s].generation > S[s].generation
                         \/ U[s].key = S[s].key /\ U[s].generation = S[s].generation
      /\ known => N = M
      /\ known => \A s \in 1..N : U[s].generation = S[s].generation
  <2>1. CASE known
    <3>1. SameClients(table, table')
      BY <2>1, <1>1
    <3> QED BY <3>1, <2>1, <1>3 DEF SameClients
  <2>2. CASE ~ known
    <3>1. GivenAway(table, table', i, k)
      BY <2>2, <1>1
    <3> QED BY <3>1, <2>2, <1>3 DEF GivenAway
  <2>3. known \in BOOLEAN
    OBVIOUS
  <2> QED BY <2>1, <2>2, <2>3
<1> HIDE DEF S, U, N, M
<1>5. ASSUME known PROVE \A h : Resolves(table, h) <=> Resolves(table', h)
  <2>1. DOMAIN S = DOMAIN U
    BY <1>3, <1>4, <1>5
  <2> QED BY <2>1, <1>3, <1>4, <1>5 DEF Resolves, S, U
<1>6. ASSUME NEW other \in Keys \ {k}, Place(other)' # NIL
      PROVE  /\ Place(other)' = Place(other) /\ Place(other) # i /\ Place(other) \in Slots
             /\ \A h : h.slot = Place(other) => (Resolves(table, h) <=> Resolves(table', h))
  <2> DEFINE o == Place(other)
  <2>1. o = Place(other)' /\ o # NIL
    BY <1>1, <1>6
  <2>2. o \in 1..N /\ o \in Slots
    BY <2>1 DEF TableReads, N, S
  <2>3. U[Place(other)'].key = other
    BY <1>6 DEF TableReads, U
  <2>4. o # i
    BY <2>1, <2>3, <1>1
  <2> HIDE DEF o
  <2>5. o \in 1..M /\ U[o].generation = S[o].generation
    BY <2>2, <2>4, <1>3, <1>4
  <2>6. \A h : h.slot = o => (Resolves(table, h) <=> Resolves(table', h))
    BY <2>2, <2>5, <1>3 DEF Resolves, S, U
  <2> QED BY <2>1, <2>2, <2>4, <2>6 DEF o
<1>7. ASSUME NEW h, NEW c, GivenTo(h, c) PROVE GivenTo(h, c)'
  <2>1. CASE h.slot = NIL
    BY <2>1 DEF GivenTo
  <2>2. CASE h.slot # NIL
    <3> DEFINE s == h.slot
               g == h.generation
    <3>1. s \in 1..N /\ g \in Nat /\ g <= S[s].generation /\ (g = S[s].generation => S[s].key = c)
      BY <2>2, <1>7 DEF GivenTo, S, N
    <3> HIDE DEF s, g
    <3>2. s \in 1..M /\ g <= U[s].generation /\ (g = U[s].generation => U[s].key = c)
      BY <3>1, <1>3, <1>4
    <3> QED BY <3>1, <3>2 DEF GivenTo, s, g, U, M
  <2> QED BY <2>1, <2>2
<1> QED BY <1>1, <1>2, <1>5, <1>6, <1>7 DEF Spares, U, M

-----------------------------------------------------------------------------
\* Transmit times are their clients' own.

\* The two ways of building a reply to k.
Unmoved ==
    /\ TurnedAway /\ hash' = hash /\ \A c : Place(c)' = Place(c)
    /\ \A h : Resolves(table, h) <=> Resolves(table', h)
    /\ \A h, c : GivenTo(h, c) => GivenTo(h, c)'
Moved(k, origin, recv) ==
    \E i \in Slots, known \in BOOLEAN : RecordedIn(k, origin, recv, i, known) /\ Spares(k, i, known)

\* Building a reply moves nothing, or moves the one client and spares the others.
LEMMA BuildMoves ==
    ASSUME TableIsSound, TableIsSound', ServerTypeOK,
           NEW k \in Keys, NEW origin, NEW recv \in Nat, NEW what \in Outcomes,
           Build(k, origin, recv, what)
    PROVE  Built(k, origin, recv) /\ (Unmoved \/ Moved(k, origin, recv))
<1>1. Built(k, origin, recv) /\ (TurnedAway \/ Recorded(k, origin, recv))
  BY BuildIs DEF ServerTypeOK
<1>2. TableReads /\ TableReads' /\ hash' = hash
  BY <1>1, SoundTableReads, SoundTableReadsNext DEF Built
<1>3. CASE TurnedAway
  <2>1. table' = table
    BY <1>3 DEF TurnedAway
  <2>2. \A c : Place(c)' = Place(c)
    BY <2>1, <1>2, PlaceNext DEF Place
  <2>3. \A h, c : GivenTo(h, c) => GivenTo(h, c)'
    BY <2>1 DEF GivenTo
  <2> QED BY <2>1, <2>2, <2>3, <1>1, <1>2, <1>3 DEF Unmoved
<1>4. CASE Recorded(k, origin, recv)
  <2>1. PICK i \in Slots, known \in BOOLEAN : RecordedIn(k, origin, recv, i, known)
    BY <1>4 DEF Recorded
  <2>2. Remembers(table, table', k) /\ Find(table', k) = i /\ known = (Find(table, k) # NIL)
    BY <2>1 DEF RecordedIn
  <2>3. Spares(k, i, known)
    BY <2>2, <1>2, AdmissionSpares
  <2> QED BY <2>1, <2>3, <1>1 DEF Moved
<1> QED BY <1>1, <1>3, <1>4

\* A transmit time in a client's record is one at which something left for it, and when
\* the replies that were sent are noted, it is the time of theirs.
OwnInv ==
    /\ \A k \in Keys : Place(k) # NIL /\ stamps[Place(k)].transmit # ZERO =>
          stamps[Place(k)].transmit \in sentAt[k]
    /\ \A n \in 1..Len(replies) : GivenTo(replies[n].handle, replies[n].key)
    /\ phase = "note" => \A n \in 1..sent : sentTs \in sentAt[replies[n].key]

\* At the start nothing was transmitted.
LEMMA OwnInit == Init => OwnInv
<1> SUFFICES ASSUME Init PROVE OwnInv
  OBVIOUS
<1>1. TableReads
  BY TableInitIsSound, SoundTableReads DEF Init
<1>2. \A k \in Keys : Place(k) # NIL => Place(k) \in Slots
  BY <1>1 DEF TableReads
<1>3. \A s \in Slots : stamps[s].transmit = ZERO
  BY DEF Init, Unset
<1>4. Len(replies) = 0 /\ phase # "note"
  BY DEF Init
<1> QED BY <1>2, <1>3, <1>4 DEF OwnInv

\* Building a reply brings a transmit time into no record: a slot that changes hands is
\* unset (server.rs, ClientTable::alloc_slot).
LEMMA BuildKeepsTransmits ==
    ASSUME NEW k \in Keys, NEW origin, NEW recv, Unmoved \/ Moved(k, origin, recv),
           NEW c \in Keys, Place(c)' # NIL
    PROVE  stamps'[Place(c)'].transmit # ZERO =>
              Place(c)' = Place(c) /\ stamps'[Place(c)'].transmit = stamps[Place(c)].transmit
<1>1. CASE Unmoved
  BY <1>1 DEF Unmoved, TurnedAway
<1>2. CASE Moved(k, origin, recv)
  <2>1. PICK i \in Slots, known \in BOOLEAN : RecordedIn(k, origin, recv, i, known) /\ Spares(k, i, known)
    BY <1>2 DEF Moved
  <2>2. CASE c = k
    BY <2>1, <2>2 DEF RecordedIn, Spares
  <2>3. CASE c # k
    <3>1. Place(c)' = Place(c) /\ Place(c) # i /\ Place(c) \in Slots
      BY <2>1, <2>3 DEF Spares
    <3>2. stamps'[Place(c)] = stamps[Place(c)]
      BY <2>1, <3>1 DEF RecordedIn
    <3> QED BY <3>1, <3>2
  <2> QED BY <2>2, <2>3
<1> QED BY <1>1, <1>2

\* Handles given before stay with their clients, and so does the new one.
LEMMA BuildKeepsGiven ==
    ASSUME TableReads', NEW k \in Keys, NEW origin, NEW recv, Unmoved \/ Moved(k, origin, recv)
    PROVE  /\ \A h, c : GivenTo(h, c) => GivenTo(h, c)'
           /\ GivenTo(built.handle, k)'
<1>1. CASE Unmoved
  BY <1>1 DEF Unmoved, TurnedAway, INVALID, GivenTo
<1>2. CASE Moved(k, origin, recv)
  <2>1. PICK i \in Slots, known \in BOOLEAN : RecordedIn(k, origin, recv, i, known) /\ Spares(k, i, known)
    BY <1>2 DEF Moved
  <2>2. /\ built'.handle.slot = i /\ built'.handle.generation = table'.slots[i].generation
        /\ i \in 1..Len(table'.slots) /\ table'.slots[i].key = k
    BY <2>1 DEF RecordedIn, Spares
  <2>3. table'.slots[i].generation \in Nat
    BY <2>2 DEF TableReads
  <2>4. GivenTo(built.handle, k)'
    BY <2>2, <2>3 DEF GivenTo
  <2> QED BY <2>1, <2>4 DEF Spares
<1> QED BY <1>1, <1>2

\* What BuildNext appends.
Appended ==
    \/ built'.kind = "none" /\ replies' = replies
    \/ /\ Len(replies') = Len(replies) + 1
       /\ \A n \in 1..Len(replies) : replies'[n] = replies[n]
       /\ replies'[Len(replies) + 1] = [key |-> built'.key, handle |-> built'.handle,
                                        kind |-> built'.kind, receive |-> built'.receive]

\* What building the next reply of the batch does (server.rs, build_reply_in).
LEMMA BuildNextIs ==
    ASSUME ServerTypeOK, TableIsSound, TableIsSound', NEW what \in Outcomes, BuildNext(what)
    PROVE  /\ batch # <<>> /\ batch' = Tail(batch)
           /\ \E k \in Keys, origin \in Nat :
                 /\ k = batch[1].key /\ origin = batch[1].origin
                 /\ Built(k, origin, recvTs) /\ (Unmoved \/ Moved(k, origin, recvTs))
           /\ Appended /\ phase = "build" /\ Len(replies) \in Nat
           /\ UNCHANGED <<phase, recvTs, sentTs, sent, told, sentAt, kissed, webbed>>
<1>1. /\ batch # <<>> /\ phase = "build" /\ batch' = Tail(batch)
      /\ Build(batch[1].key, batch[1].origin, recvTs, what)
      /\ UNCHANGED <<phase, recvTs, sentTs, sent, told, sentAt, kissed, webbed>>
  BY DEF BuildNext, history
<1>2. batch[1].key \in Keys /\ batch[1].origin \in Nat /\ recvTs \in Nat
  BY <1>1, NextRequest DEF ServerTypeOK
<1>3. PICK k \in Keys, origin \in Nat : /\ k = batch[1].key /\ origin = batch[1].origin
                                /\ Build(k, origin, recvTs, what)
  BY <1>1, <1>2
<1>5. Built(k, origin, recvTs) /\ (Unmoved \/ Moved(k, origin, recvTs))
  BY <1>2, <1>3, BuildMoves
<1>4. Appended /\ Len(replies) \in Nat
  <2>1. replies \in Seq(Reply)
    BY DEF ServerTypeOK
  <2> DEFINE r == [key |-> built'.key, handle |-> built'.handle,
                   kind |-> built'.kind, receive |-> built'.receive]
  <2>2. replies' = IF built'.kind = "none" THEN replies ELSE Append(replies, r)
    BY DEF BuildNext
  <2>3. Len(replies) \in Nat
    BY <2>1
  <2>4. CASE built'.kind = "none"
    BY <2>2, <2>3, <2>4 DEF Appended
  <2>5. CASE built'.kind # "none"
    <3>1. r \in Reply
      <4>1. Receive(recvTs) \in Nat
        BY <1>2, StampTimes
      <4> QED BY <4>1, <2>5, <1>2, <1>5 DEF Built, Reply
    <3>2. replies' = Append(replies, r)
      BY <2>2, <2>5
    <3> HIDE DEF r
    <3>3. /\ Len(replies') = Len(replies) + 1
          /\ \A n \in 1..Len(replies) : replies'[n] = replies[n]
          /\ replies'[Len(replies) + 1] = r
      BY <2>1, <3>1, <3>2
    <3> QED BY <3>3, <2>3 DEF Appended, r
  <2> QED BY <2>3, <2>4, <2>5
<1> QED BY <1>1, <1>3, <1>4, <1>5

\* What a request over HTTP does (gateway.rs, time_exchange).
LEMMA GatewayIs ==
    ASSUME ServerTypeOK, TableIsSound, TableIsSound', now \in Nat,
           NEW k \in WebKeys, NEW what \in Outcomes, Gateway(k, what)
    PROVE  /\ k \in Keys
           /\ \E origin : Built(k, origin, now) /\ (Unmoved \/ Moved(k, origin, now))
           /\ webbed' = webbed \cup {k} /\ \A c \in Keys \ {k} : told'[c] = told[c]
           /\ phase # "build"
           /\ UNCHANGED <<phase, batch, recvTs, replies, sentTs, sent, sentAt, kissed>>
<1>1. k \in Keys
  BY ServerAssumption
<1>2. PICK origin : Build(k, origin, now, what)
  BY DEF Gateway
<1>3. Built(k, origin, now) /\ (Unmoved \/ Moved(k, origin, now))
  BY <1>1, <1>2, BuildMoves
<1>4. \A c \in Keys \ {k} : told'[c] = told[c]
  BY DEF Gateway, ServerTypeOK
<1> QED BY <1>1, <1>3, <1>4 DEF Gateway, thread

\* What Send does to the history.
Sends(n) ==
    /\ n \in Nat /\ n <= Len(replies) /\ sent' = n /\ sentTs' = Transmit(now)
    /\ phase' = IF n = 0 THEN "idle" ELSE "note"
    /\ \A k \in Keys :
          /\ sentAt[k] \subseteq sentAt'[k] /\ told[k] \subseteq told'[k]
          /\ \A i \in 1..n : replies[i].key = k => sentTs' \in sentAt'[k]
          /\ \A m \in told'[k] :
                \/ m \in told[k]
                \/ \E i \in 1..n : /\ replies[i].key = k /\ replies[i].kind = "time"
                                   /\ m = [receive |-> replies[i].receive, sent |-> sentTs']
          /\ k \in kissed' <=> Left(k, n, "kiss") \/ (k \in kissed /\ ~ Left(k, n, "time"))

\* What sending some of the replies does (server.rs, send_batch_by).
LEMMA SendIs ==
    ASSUME ServerTypeOK, Send
    PROVE  /\ \E n \in 0..Len(replies) : Sends(n)
           /\ phase = "send"
           /\ UNCHANGED <<tableVars, stamps, batch, recvTs, replies, webbed, built>>
<1>1. PICK n \in 0..Len(replies) :
        /\ sent' = n /\ sentTs' = Transmit(now)
        /\ phase' = IF n = 0 THEN "idle" ELSE "note"
        /\ sentAt' = [k \in Keys |->
               sentAt[k] \cup {t \in {sentTs'} : \E i \in 1..n : replies[i].key = k}]
        /\ told' = [k \in Keys |->
               told[k] \cup {[receive |-> replies[i].receive, sent |-> sentTs'] :
                              i \in {j \in 1..n : replies[j].key = k /\ replies[j].kind = "time"}}]
        /\ kissed' = {k \in Keys : \/ Left(k, n, "kiss")
                                   \/ k \in kissed /\ ~Left(k, n, "time")}
  BY DEF Send
<1>2. Len(replies) \in Nat
  BY DEF ServerTypeOK
<1>3. \A k \in Keys :
          /\ sentAt[k] \subseteq sentAt'[k] /\ told[k] \subseteq told'[k]
          /\ \A i \in 1..n : replies[i].key = k => sentTs' \in sentAt'[k]
          /\ k \in kissed' <=> Left(k, n, "kiss") \/ (k \in kissed /\ ~ Left(k, n, "time"))
  BY <1>1
<1>4. ASSUME NEW k \in Keys, NEW m \in told'[k]
      PROVE  \/ m \in told[k]
             \/ \E i \in 1..n : /\ replies[i].key = k /\ replies[i].kind = "time"
                                /\ m = [receive |-> replies[i].receive, sent |-> sentTs']
  BY <1>1
<1>5. Sends(n)
  BY <1>1, <1>2, <1>3, <1>4 DEF Sends
<1> QED BY <1>5 DEF Send

\* What Note does to the stamps.
Notes(s) == \E n \in 1..sent : replies[n].handle.slot = s /\ Resolves(table, replies[n].handle)

\* What noting the replies that left does (server.rs, note_transmit_at).
LEMMA NoteIs ==
    ASSUME ServerTypeOK, Note
    PROVE  /\ phase = "note" /\ phase' = "idle"
           /\ \A s \in Slots : /\ stamps'[s].receive = stamps[s].receive
                               /\ Notes(s) => stamps'[s].transmit = sentTs
                               /\ ~ Notes(s) => stamps'[s].transmit = stamps[s].transmit
           /\ UNCHANGED <<tableVars, batch, recvTs, replies, sentTs, sent, told, sentAt,
                          kissed, webbed, built>>
<1>1. ASSUME NEW s \in Slots
      PROVE  /\ [stamps[s] EXCEPT !.transmit = sentTs].transmit = sentTs
             /\ [stamps[s] EXCEPT !.transmit = sentTs].receive = stamps[s].receive
  BY DEF ServerTypeOK, Stamp
<1>2. \A s \in Slots : stamps'[s] = IF Notes(s) THEN [stamps[s] EXCEPT !.transmit = sentTs]
                                    ELSE stamps[s]
  BY DEF Note, Noted, Notes
<1>3. ASSUME NEW s \in Slots
      PROVE  /\ stamps'[s].receive = stamps[s].receive
             /\ Notes(s) => stamps'[s].transmit = sentTs
             /\ ~ Notes(s) => stamps'[s].transmit = stamps[s].transmit
  BY <1>1, <1>2
<1> QED BY <1>3 DEF Note, history

\* When the table stays, so do the slots of the clients and what handles resolve to.
LEMMA SameTable ==
    ASSUME table' = table, hash' = hash
    PROVE  /\ \A c : Place(c)' = Place(c)
           /\ \A h, c : GivenTo(h, c)' <=> GivenTo(h, c)
           /\ \A s : Notes(s)' <=> \E n \in 1..sent' : /\ replies'[n].handle.slot = s
                                                       /\ Resolves(table, replies'[n].handle)
<1>1. \A c : Place(c)' = Place(c)
  BY PlaceNext DEF Place
<1>2. \A h, c : GivenTo(h, c)' <=> GivenTo(h, c)
  BY DEF GivenTo
<1>3. \A h : Resolves(table, h)' <=> Resolves(table, h)
  BY DEF Resolves
<1> QED BY <1>1, <1>2, <1>3 DEF Notes

\* What neither builds, sends nor notes keeps the transmit times with their clients.
LEMMA OwnFrame ==
    ASSUME OwnInv, table' = table, hash' = hash, replies' = replies \/ replies' = <<>>,
           UNCHANGED <<stamps, sentAt>>, phase' # "note" \/ UNCHANGED <<phase, replies, sent, sentTs>>
    PROVE  OwnInv'
<1>1. /\ \A c : Place(c)' = Place(c)
      /\ \A h, c : GivenTo(h, c)' <=> GivenTo(h, c)
  BY SameTable
<1>2. \A n \in 1..Len(replies') : GivenTo(replies[n].handle, replies[n].key)'
  <2>1. CASE replies' = replies
    BY <2>1, <1>1 DEF OwnInv
  <2>2. CASE replies' = <<>>
    BY <2>2
  <2> QED BY <2>1, <2>2
<1>3. \A k \in Keys : Place(k)' # NIL /\ stamps'[Place(k)'].transmit # ZERO =>
          stamps'[Place(k)'].transmit \in sentAt'[k]
  BY <1>1 DEF OwnInv
<1>4. phase' = "note" => \A n \in 1..sent' : sentTs' \in sentAt'[replies'[n].key]
  BY DEF OwnInv
<1> QED BY <1>2, <1>3, <1>4 DEF OwnInv

\* Building a reply keeps them with their clients.
LEMMA BuildKeepsOwn ==
    ASSUME OwnInv, NEW k \in Keys, NEW origin, NEW recv, Unmoved \/ Moved(k, origin, recv),
           sentAt' = sentAt
    PROVE  \A c \in Keys : Place(c)' # NIL /\ stamps'[Place(c)'].transmit # ZERO =>
              stamps'[Place(c)'].transmit \in sentAt'[c]
<1> SUFFICES ASSUME NEW c \in Keys, Place(c)' # NIL, stamps'[Place(c)'].transmit # ZERO
             PROVE  stamps'[Place(c)'].transmit \in sentAt'[c]
  OBVIOUS
<1>1. Place(c)' = Place(c) /\ stamps'[Place(c)'].transmit = stamps[Place(c)].transmit
  BY BuildKeepsTransmits
<1> QED BY <1>1 DEF OwnInv

\* Every step keeps the transmit times with their clients: a reply that is noted after its
\* slot changed hands is dropped (server.rs, note_transmit_at).
LEMMA OwnStep ==
    ASSUME OwnInv, ServerTypeOK, TableIsSound, TableIsSound', now \in Nat, [Next]_serverVars
    PROVE  OwnInv'
<1>0. TableReads /\ TableReads'
  BY SoundTableReads, SoundTableReadsNext
<1>1. CASE ReceiveBatch
  BY <1>1, OwnFrame DEF ReceiveBatch, tableVars, history
<1>2. CASE Lock
  BY <1>2, OwnFrame DEF Lock, tableVars, history
<1>3. CASE Unlock
  BY <1>3, OwnFrame DEF Unlock, tableVars, history
<1>4. CASE Tick
  BY <1>4, OwnFrame DEF Tick, TableTick, thread, history
<1>5. CASE UNCHANGED serverVars
  BY <1>5, OwnFrame DEF serverVars, tableVars, thread, history
<1>6. ASSUME NEW what \in Outcomes, BuildNext(what) PROVE OwnInv'
  <2>1. PICK k \in Keys, origin \in Nat :
            Built(k, origin, recvTs) /\ (Unmoved \/ Moved(k, origin, recvTs))
    BY <1>6, BuildNextIs
  <2>5. /\ Appended /\ phase = "build" /\ Len(replies) \in Nat
        /\ UNCHANGED <<phase, sentTs, sent, sentAt>>
    BY <1>6, BuildNextIs
  <2>2. \A c \in Keys : Place(c)' # NIL /\ stamps'[Place(c)'].transmit # ZERO =>
              stamps'[Place(c)'].transmit \in sentAt'[c]
    BY <2>1, <2>5, BuildKeepsOwn
  <2>3. (\A h, c : GivenTo(h, c) => GivenTo(h, c)') /\ GivenTo(built.handle, k)'
    BY <2>1, <1>0, BuildKeepsGiven
  <2>4. \A n \in 1..Len(replies') : GivenTo(replies[n].handle, replies[n].key)'
    <3>1. CASE replies' = replies
      BY <3>1, <2>3 DEF OwnInv
    <3>2. CASE replies' # replies
      <4>1. /\ Len(replies') = Len(replies) + 1
            /\ \A n \in 1..Len(replies) : replies'[n] = replies[n]
            /\ replies'[Len(replies) + 1].key = k
            /\ replies'[Len(replies) + 1].handle = built'.handle
        BY <3>2, <2>1, <2>5 DEF Appended, Built
      <4> SUFFICES ASSUME NEW n \in 1..Len(replies')
                   PROVE  GivenTo(replies[n].handle, replies[n].key)'
        OBVIOUS
      <4>2. CASE n \in 1..Len(replies)
        <5>1. GivenTo(replies[n].handle, replies[n].key)
          BY <4>2 DEF OwnInv
        <5>2. replies'[n].handle = replies[n].handle /\ replies'[n].key = replies[n].key
          BY <4>1, <4>2
        <5>3. GivenTo(replies[n].handle, replies[n].key) => GivenTo(replies'[n].handle, replies'[n].key)
          BY <5>2
        <5>4. \A h, c : GivenTo(h, c) =>
                 (h.slot # NIL =>
                    /\ h.slot \in 1..Len(table'.slots) /\ h.generation \in Nat
                    /\ h.generation <= table'.slots[h.slot].generation
                    /\ h.generation = table'.slots[h.slot].generation
                          => table'.slots[h.slot].key = c)
          BY <2>3 DEF GivenTo
        <5> QED BY <5>1, <5>3, <5>4 DEF GivenTo
      <4>3. CASE n = Len(replies) + 1
        <5>1. replies'[n].key = k /\ replies'[n].handle = built'.handle
          BY <4>1, <4>3
        <5> QED BY <5>1, <2>3 DEF GivenTo
      <4> QED BY <4>1, <4>2, <4>3, <2>5
    <3> QED BY <3>1, <3>2
  <2> QED BY <2>5, <2>2, <2>4 DEF OwnInv
<1>7. ASSUME NEW k \in WebKeys, NEW what \in Outcomes, Gateway(k, what) PROVE OwnInv'
  <2>1. /\ k \in Keys
        /\ UNCHANGED <<phase, replies, sentTs, sent, sentAt>>
    BY <1>7, GatewayIs
  <2>2. PICK origin : Built(k, origin, now) /\ (Unmoved \/ Moved(k, origin, now))
    BY <1>7, GatewayIs
  <2>3. \A c \in Keys : Place(c)' # NIL /\ stamps'[Place(c)'].transmit # ZERO =>
              stamps'[Place(c)'].transmit \in sentAt'[c]
    BY <2>1, <2>2, BuildKeepsOwn
  <2>4. \A h, c : GivenTo(h, c) => GivenTo(h, c)'
    BY <2>1, <2>2, <1>0, BuildKeepsGiven
  <2>5. \A n \in 1..Len(replies') : GivenTo(replies[n].handle, replies[n].key)'
    BY <2>1, <2>4 DEF OwnInv
  <2> QED BY <2>1, <2>3, <2>5 DEF OwnInv
<1>8. CASE Send
  <2>1. PICK n \in 0..Len(replies) : Sends(n)
    BY <1>8, SendIs
  <2>2. table' = table /\ hash' = hash /\ UNCHANGED <<stamps, replies>>
    BY <1>8, SendIs DEF tableVars
  <2>3. /\ \A c : Place(c)' = Place(c)
        /\ \A h, c : GivenTo(h, c)' <=> GivenTo(h, c)
    BY <2>2, SameTable
  <2>4. \A k \in Keys : Place(k)' # NIL /\ stamps'[Place(k)'].transmit # ZERO =>
            stamps'[Place(k)'].transmit \in sentAt'[k]
    BY <2>1, <2>2, <2>3 DEF OwnInv, Sends
  <2>5. \A i \in 1..Len(replies) : replies[i].key \in Keys
    <3>1. replies \in Seq(Reply)
      BY DEF ServerTypeOK
    <3>2. \A i \in 1..Len(replies) : replies[i] \in Reply
      BY <3>1
    <3> QED BY <3>2 DEF Reply
  <2>6. \A i \in 1..sent' : sentTs' \in sentAt'[replies'[i].key]
    BY <2>1, <2>2, <2>5 DEF Sends
  <2>7. \A i \in 1..Len(replies') : GivenTo(replies[i].handle, replies[i].key)'
    BY <2>2, <2>3 DEF OwnInv
  <2> QED BY <2>4, <2>6, <2>7 DEF OwnInv
<1>9. CASE Note
  <2>1. /\ phase = "note" /\ phase' = "idle"
        /\ \A s \in Slots : /\ Notes(s) => stamps'[s].transmit = sentTs
                            /\ ~ Notes(s) => stamps'[s].transmit = stamps[s].transmit
        /\ table' = table /\ hash' = hash /\ UNCHANGED <<replies, sent, sentTs, sentAt>>
    BY <1>9, NoteIs DEF tableVars
  <2>2. /\ \A c : Place(c)' = Place(c)
        /\ \A h, c : GivenTo(h, c)' <=> GivenTo(h, c)
    BY <2>1, SameTable
  <2>3. ASSUME NEW k \in Keys, Place(k) # NIL, stamps'[Place(k)].transmit # ZERO
        PROVE  stamps'[Place(k)].transmit \in sentAt[k]
    <3> DEFINE s == Place(k)
    <3>1. s \in Slots /\ s \in 1..Len(table.slots) /\ table.slots[s].key = k /\ s # NIL
      BY <2>3, <1>0 DEF TableReads
    <3>2. CASE ~ Notes(s)
      BY <3>1, <3>2, <2>1, <2>3 DEF OwnInv
    <3>3. CASE Notes(s)
      <4>1. PICK n \in 1..sent : replies[n].handle.slot = s /\ Resolves(table, replies[n].handle)
        BY <3>3 DEF Notes
      <4>2. n \in 1..Len(replies)
        BY <2>1 DEF ServerTypeOK
      <4>3. GivenTo(replies[n].handle, replies[n].key)
        BY <4>2 DEF OwnInv
      <4>4. table.slots[s].key = replies[n].key
        BY <4>1, <4>3, <3>1 DEF GivenTo, Resolves
      <4>5. sentTs \in sentAt[k]
        BY <4>4, <3>1, <2>1 DEF OwnInv
      <4> QED BY <4>5, <3>1, <3>3, <2>1
    <3> QED BY <3>2, <3>3
  <2>4. \A i \in 1..Len(replies') : GivenTo(replies[i].handle, replies[i].key)'
    BY <2>1, <2>2 DEF OwnInv
  <2>5. \A k \in Keys : Place(k)' # NIL /\ stamps'[Place(k)'].transmit # ZERO =>
            stamps'[Place(k)'].transmit \in sentAt'[k]
    BY <2>1, <2>2, <2>3
  <2> QED BY <2>1, <2>4, <2>5 DEF OwnInv
<1> QED BY <1>1, <1>2, <1>3, <1>4, <1>5, <1>6, <1>7, <1>8, <1>9 DEF Next

-----------------------------------------------------------------------------
\* Interleaved replies tell the truth.

\* What is known of the times: the replies a client was told of are older than the batch,
\* those of the batch carry its time, and a client that names a reply was told of it.
TimesInv ==
    /\ \A k \in Keys \ webbed : \A m \in told[k] :
          /\ m.receive <= Receive(recvTs)
          /\ phase \in {"received", "build", "send"} => m.receive < Receive(recvTs)
          /\ phase = "note" /\ m.receive = Receive(recvTs) => m.sent = sentTs
    /\ \A n \in 1..Len(batch) : batch[n].origin \in Origins(batch[n].key)
    /\ \A n \in 1..Len(replies) : replies[n].receive = Receive(recvTs)
    /\ phase = "note" => \A n \in 1..sent : replies[n].kind = "kiss" => replies[n].key \in kissed

\* At the start nobody was told anything.
LEMMA TimesInit == Init => TimesInv
<1> SUFFICES ASSUME Init PROVE TimesInv
  OBVIOUS
<1>1. Len(batch) = 0 /\ Len(replies) = 0 /\ phase = "idle" /\ \A k \in Keys : told[k] = {}
  BY DEF Init
<1> QED BY <1>1 DEF TimesInv

\* What neither receives, builds nor sends keeps the times in order.
LEMMA TimesFrame ==
    ASSUME TimesInv, UNCHANGED <<told, recvTs, sentTs, sent, batch, replies, kissed, webbed>>,
           \/ phase' = phase \/ phase' = "idle"
           \/ phase \in {"received", "build", "send"} /\ phase' \in {"received", "build", "send"}
    PROVE  TimesInv'
<1>1. \A k : Origins(k)' = Origins(k)
  BY DEF Origins
<1> QED BY <1>1 DEF TimesInv

\* Later readings of the clock give later stamps.
LEMMA LaterReceive ==
    ASSUME NEW s \in Nat, NEW t \in Nat, s < t
    PROVE  Receive(s) < Receive(t) /\ Receive(s) \in Nat /\ Receive(t) \in Nat
BY DEF Receive

\* A batch is received later than all that was told before (server.rs, ntp_serve_loop).
LEMMA ReceiveKeepsTimes ==
    ASSUME TimesInv, ServerTypeOK, now \in Nat, ReceiveBatch
    PROVE  TimesInv'
<1>1. PICK n \in 1..BatchMax, keys \in [1..BatchMax -> Keys] :
        \E origins \in [1..n -> UNION {Origins(k) : k \in Keys}] :
           /\ \A i \in 1..n : origins[i] \in Origins(keys[i])
           /\ batch' = [i \in 1..n |-> [key |-> keys[i], origin |-> origins[i]]]
  BY DEF ReceiveBatch
<1>2. PICK origins \in [1..n -> UNION {Origins(k) : k \in Keys}] :
           /\ \A i \in 1..n : origins[i] \in Origins(keys[i])
           /\ batch' = [i \in 1..n |-> [key |-> keys[i], origin |-> origins[i]]]
  BY <1>1
<1>3. /\ phase' = "received" /\ recvTs' = now /\ replies' = <<>> /\ recvTs < now
      /\ UNCHANGED <<told, kissed, webbed>>
  BY DEF ReceiveBatch, FreshReading, history
<1>4. \A k : Origins(k)' = Origins(k)
  BY <1>3 DEF Origins
<1>5. n \in Nat
  BY ServerAssumption
<1>6. DOMAIN batch' = 1..n /\ \A i \in 1..n : batch'[i] = [key |-> keys[i], origin |-> origins[i]]
  BY <1>2
<1>7. Len(batch') = n
  BY <1>5, <1>6
<1>8. \A i \in 1..Len(batch') : batch'[i].origin \in Origins(batch[i].key)'
  <2> SUFFICES ASSUME NEW i \in 1..n PROVE batch'[i].origin \in Origins(batch[i].key)'
    BY <1>7
  <2>1. batch'[i].origin = origins[i] /\ batch'[i].key = keys[i]
    BY <1>6
  <2>2. origins[i] \in Origins(keys[i])
    BY <1>2
  <2> QED BY <2>1, <2>2, <1>3 DEF Origins
<1>9. ASSUME NEW k \in Keys \ webbed', NEW m \in told'[k]
      PROVE  m.receive < Receive(recvTs') /\ m.receive <= Receive(recvTs')
  <2>1. m \in told[k] /\ k \in Keys \ webbed
    BY <1>3
  <2>2. m \in [receive : Nat, sent : Nat]
    BY <2>1 DEF ServerTypeOK
  <2>3. m.receive \in Nat
    BY <2>2
  <2>4. m.receive <= Receive(recvTs)
    BY <2>1 DEF TimesInv
  <2>5. Receive(recvTs) < Receive(recvTs') /\ Receive(recvTs) \in Nat /\ Receive(recvTs') \in Nat
    BY <1>3, LaterReceive DEF ServerTypeOK
  <2> QED BY <2>3, <2>4, <2>5
<1>10. \A i \in 1..Len(replies') : replies'[i].receive = Receive(recvTs')
  BY <1>3
<1> QED BY <1>3, <1>8, <1>9, <1>10 DEF TimesInv

\* A reply is built with the receive time of its batch (server.rs, build_reply_in).
LEMMA BuildNextKeepsTimes ==
    ASSUME TimesInv, ServerTypeOK, TableIsSound, TableIsSound', NEW what \in Outcomes,
           BuildNext(what)
    PROVE  TimesInv'
<1>1. /\ batch # <<>> /\ batch' = Tail(batch) /\ Appended /\ phase = "build" /\ Len(replies) \in Nat
      /\ UNCHANGED <<phase, recvTs, sentTs, sent, told, kissed, webbed>>
  BY BuildNextIs
<1>2. built'.receive = Receive(recvTs)
  BY BuildNextIs DEF Built
<1>3. \A n \in 1..Len(replies') : replies'[n].receive = Receive(recvTs')
  <2>1. CASE replies' = replies
    BY <2>1, <1>1 DEF TimesInv
  <2>2. CASE replies' # replies
    <3>1. /\ Len(replies') = Len(replies) + 1
          /\ \A n \in 1..Len(replies) : replies'[n] = replies[n]
          /\ replies'[Len(replies) + 1].receive = built'.receive
      BY <2>2, <1>1 DEF Appended
    <3>2. \A n \in 1..Len(replies') : n \in 1..Len(replies) \/ n = Len(replies) + 1
      BY <3>1, <1>1
    <3> QED BY <3>1, <3>2, <1>1, <1>2 DEF TimesInv
  <2> QED BY <2>1, <2>2
<1>4. \A k : Origins(k)' = Origins(k)
  BY <1>1 DEF Origins
<1>5. ASSUME NEW n \in 1..Len(batch') PROVE batch'[n].origin \in Origins(batch[n].key)'
  <2>1. batch'[n] = batch[n + 1] /\ n + 1 \in 1..Len(batch)
    BY <1>1, NextRequest
  <2>2. batch[n + 1].origin \in Origins(batch[n + 1].key)
    BY <2>1 DEF TimesInv
  <2> QED BY <2>1, <2>2, <1>1 DEF Origins
<1> QED BY <1>1, <1>3, <1>5 DEF TimesInv

\* A reply that is sent carries the receive time of the batch, and one time of sending is
\* that of them all (server.rs, send_batch_by).
LEMMA SendKeepsTimes ==
    ASSUME TimesInv, ServerTypeOK, Send
    PROVE  TimesInv'
<1>1. PICK n \in 0..Len(replies) : Sends(n)
  BY SendIs
<1>2. phase = "send" /\ UNCHANGED <<batch, recvTs, replies, webbed>>
  BY SendIs
<1>3. replies \in Seq(Reply) /\ Len(replies) \in Nat /\ recvTs \in Nat
  BY DEF ServerTypeOK
<1>4. \A i \in 1..Len(replies) : replies[i] \in Reply
  BY <1>3
<1>5. \A i \in 1..Len(replies) : replies[i].key \in Keys
  BY <1>4 DEF Reply
<1>6. ASSUME NEW k \in Keys \ webbed', NEW m \in told'[k]
      PROVE  m.receive <= Receive(recvTs) /\ (m.receive = Receive(recvTs) => m.sent = sentTs')
  <2>1. k \in Keys \ webbed
    BY <1>2
  <2>2. CASE m \in told[k]
    <3>1. m \in [receive : Nat, sent : Nat]
      BY <2>1, <2>2 DEF ServerTypeOK
    <3>2. m.receive \in Nat /\ Receive(recvTs) \in Nat
      BY <3>1, <1>3, StampTimes
    <3>3. m.receive < Receive(recvTs)
      BY <1>2, <2>1, <2>2 DEF TimesInv
    <3> QED BY <3>2, <3>3
  <2>3. CASE \E i \in 1..n : /\ replies[i].key = k /\ replies[i].kind = "time"
                             /\ m = [receive |-> replies[i].receive, sent |-> sentTs']
    <3>1. PICK i \in 1..n : m = [receive |-> replies[i].receive, sent |-> sentTs']
      BY <2>3
    <3>2. i \in 1..Len(replies)
      BY <1>3
    <3>3. m.receive = Receive(recvTs) /\ m.sent = sentTs'
      BY <3>1, <3>2 DEF TimesInv
    <3>4. Receive(recvTs) \in Nat
      BY <1>3, StampTimes
    <3> QED BY <3>3, <3>4
  <2> QED BY <2>2, <2>3, <1>1 DEF Sends
<1>7. ASSUME NEW i \in 1..Len(batch') PROVE batch'[i].origin \in Origins(batch[i].key)'
  <2>1. batch'[i] = batch[i] /\ batch[i].origin \in Origins(batch[i].key)
    BY <1>2 DEF TimesInv
  <2>2. batch \in Seq(Request)
    BY DEF ServerTypeOK
  <2>3. batch[i] \in Request
    BY <2>2, <1>2
  <2>4. batch[i].key \in Keys
    BY <2>3 DEF Request
  <2>5. told[batch[i].key] \subseteq told'[batch[i].key]
    BY <2>4, <1>1 DEF Sends
  <2> QED BY <2>1, <2>5 DEF Origins
<1>8. phase' = "note" => \A i \in 1..sent' : replies'[i].kind = "kiss" => replies'[i].key \in kissed'
  BY <1>1, <1>2, <1>3, <1>5 DEF Sends, Left
<1>9. \A i \in 1..Len(replies') : replies'[i].receive = Receive(recvTs')
  BY <1>2 DEF TimesInv
<1>10. phase' \in {"idle", "note"}
  BY <1>1 DEF Sends
<1> QED BY <1>2, <1>6, <1>7, <1>8, <1>9, <1>10 DEF TimesInv

\* The gateway tells nobody else anything (gateway.rs, time_exchange).
LEMMA GatewayKeepsTimes ==
    ASSUME TimesInv, ServerTypeOK, TableIsSound, TableIsSound', now \in Nat,
           NEW k \in WebKeys, NEW what \in Outcomes, Gateway(k, what)
    PROVE  TimesInv'
<1>1. /\ k \in Keys /\ webbed' = webbed \cup {k} /\ \A c \in Keys \ {k} : told'[c] = told[c]
      /\ UNCHANGED <<phase, batch, recvTs, replies, sentTs, sent, kissed>>
  BY GatewayIs
<1>2. told[k] \subseteq told'[k]
  BY <1>1 DEF Gateway, ServerTypeOK
<1>3. ASSUME NEW i \in 1..Len(batch') PROVE batch'[i].origin \in Origins(batch[i].key)'
  <2>1. batch'[i] = batch[i] /\ batch[i].origin \in Origins(batch[i].key)
    BY <1>1 DEF TimesInv
  <2>2. batch \in Seq(Request)
    BY DEF ServerTypeOK
  <2>3. batch[i] \in Request
    BY <2>2, <1>1
  <2>4. batch[i].key \in Keys
    BY <2>3 DEF Request
  <2>5. told[batch[i].key] \subseteq told'[batch[i].key]
    BY <2>4, <1>1, <1>2
  <2> QED BY <2>1, <2>5 DEF Origins
<1> QED BY <1>1, <1>3 DEF TimesInv

\* Every step keeps the times in order.
LEMMA TimesStep ==
    ASSUME TimesInv, ServerTypeOK, TableIsSound, TableIsSound', now \in Nat, [Next]_serverVars
    PROVE  TimesInv'
<1>1. CASE Lock
  BY <1>1, TimesFrame DEF Lock, history
<1>2. CASE Unlock
  BY <1>2, TimesFrame DEF Unlock, history
<1>3. CASE Note
  BY <1>3, TimesFrame DEF Note, history
<1>4. CASE Tick
  BY <1>4, TimesFrame DEF Tick, thread, history
<1>5. CASE UNCHANGED serverVars
  BY <1>5, TimesFrame DEF serverVars, thread, history
<1>6. ASSUME NEW what \in Outcomes, BuildNext(what) PROVE TimesInv'
  BY <1>6, BuildNextKeepsTimes
<1>7. ASSUME NEW k \in WebKeys, NEW what \in Outcomes, Gateway(k, what) PROVE TimesInv'
  BY <1>7, GatewayKeepsTimes
<1> QED BY <1>1, <1>2, <1>3, <1>4, <1>5, <1>6, <1>7, ReceiveKeepsTimes, SendKeepsTimes DEF Next

\* The client's record holds what a reply of the batch that went to h says, or the record
\* was made after that reply, and nothing was sent since.
HeldFor(h, c) ==
    Place(c) # NIL =>
        \/ /\ h.slot = Place(c) /\ Resolves(table, h)
           /\ stamps[Place(c)].receive = Receive(recvTs)
        \/ /\ stamps[Place(c)].transmit = ZERO
           /\ stamps[Place(c)].receive \in {ZERO, Receive(recvTs)}

HeldInv ==
    phase # "idle" =>
        \A n \in 1..Len(replies) :
            replies[n].kind \in {"time", "nak"} /\ replies[n].key \notin webbed =>
                HeldFor(replies[n].handle, replies[n].key)

\* Building a reply to one client leaves the record of another alone.
LEMMA BuildSpares ==
    ASSUME NEW k \in Keys, NEW origin, NEW recv, NEW c \in Keys,
           Unmoved \/ (Moved(k, origin, recv) /\ c # k), Place(c)' # NIL
    PROVE  /\ Place(c)' = Place(c) /\ stamps'[Place(c)] = stamps[Place(c)]
           /\ \A h : h.slot = Place(c) => (Resolves(table, h) <=> Resolves(table', h))
<1>1. CASE Unmoved
  BY <1>1 DEF Unmoved, TurnedAway
<1>2. CASE Moved(k, origin, recv) /\ c # k
  <2>1. PICK i \in Slots, known \in BOOLEAN : RecordedIn(k, origin, recv, i, known) /\ Spares(k, i, known)
    BY <1>2 DEF Moved
  <2>2. /\ Place(c)' = Place(c) /\ Place(c) # i /\ Place(c) \in Slots
        /\ \A h : h.slot = Place(c) => (Resolves(table, h) <=> Resolves(table', h))
    BY <2>1, <1>2 DEF Spares
  <2>3. stamps'[Place(c)] = stamps[Place(c)]
    BY <2>1, <2>2 DEF RecordedIn
  <2> QED BY <2>2, <2>3
<1> QED BY <1>1, <1>2

\* Building a reply to one client leaves what is held for another.
LEMMA HeldByOthers ==
    ASSUME NEW k \in Keys, NEW origin, NEW recv, NEW c \in Keys,
           Unmoved \/ (Moved(k, origin, recv) /\ c # k), recvTs' = recvTs,
           NEW h, HeldFor(h, c)
    PROVE  HeldFor(h, c)'
<1> SUFFICES ASSUME Place(c)' # NIL PROVE HeldFor(h, c)'
  BY DEF HeldFor
<1>1. /\ Place(c)' = Place(c) /\ stamps'[Place(c)] = stamps[Place(c)]
      /\ h.slot = Place(c) => (Resolves(table, h) <=> Resolves(table', h))
  BY BuildSpares
<1>2. Resolves(table, h)' <=> Resolves(table', h)
  BY DEF Resolves
<1> QED BY <1>1, <1>2 DEF HeldFor

\* A second request of the same client in the same batch has the same receive time, and a
\* record made anew has no transmit time (server.rs, build_reply_in).
LEMMA HeldByOwn ==
    ASSUME NEW k \in Keys, NEW origin, Moved(k, origin, recvTs), recvTs' = recvTs,
           NEW h, HeldFor(h, k)
    PROVE  HeldFor(h, k)'
<1>1. PICK i \in Slots, known \in BOOLEAN :
          RecordedIn(k, origin, recvTs, i, known) /\ Spares(k, i, known)
  BY DEF Moved
<1>2. /\ Place(k)' = i /\ i # NIL /\ known = (Place(k) # NIL)
      /\ known => i = Place(k) /\ (Resolves(table, h) <=> Resolves(table', h))
  BY <1>1 DEF Spares
<1>3. /\ stamps'[i].transmit = IF known THEN stamps[i].transmit ELSE ZERO
      /\ \/ stamps'[i].receive = Receive(recvTs)
         \/ stamps'[i].receive = IF known THEN stamps[i].receive ELSE ZERO
  BY <1>1 DEF RecordedIn
<1>4. Resolves(table, h)' <=> Resolves(table', h)
  BY DEF Resolves
<1>5. CASE known
  BY <1>2, <1>3, <1>4, <1>5 DEF HeldFor
<1>6. CASE ~ known
  BY <1>2, <1>3, <1>6 DEF HeldFor
<1> QED BY <1>5, <1>6

\* The record holds what the reply just built says (server.rs, build_reply_in).
LEMMA HeldByNew ==
    ASSUME TableReads', NEW k \in Keys, NEW origin, Unmoved \/ Moved(k, origin, recvTs),
           recvTs' = recvTs, built'.kind \in {"time", "nak"}
    PROVE  HeldFor(built.handle, k)'
<1>1. Moved(k, origin, recvTs)
  BY DEF Unmoved, TurnedAway
<1>2. PICK i \in Slots, known \in BOOLEAN :
          RecordedIn(k, origin, recvTs, i, known) /\ Spares(k, i, known)
  BY <1>1 DEF Moved
<1>3. /\ Place(k)' = i /\ i \in 1..Len(table'.slots)
      /\ stamps'[i].receive = Receive(recvTs)
      /\ built'.handle.slot = i /\ built'.handle.generation = table'.slots[i].generation
  BY <1>2 DEF RecordedIn, Spares
<1>4. DOMAIN table'.slots = 1..Len(table'.slots)
  BY DEF TableReads
<1>5. Resolves(table, built.handle)'
  BY <1>3, <1>4 DEF Resolves
<1> QED BY <1>3, <1>5 DEF HeldFor

\* What neither builds nor notes leaves what is held.
LEMMA HeldFrame ==
    ASSUME HeldInv, table' = table, hash' = hash, UNCHANGED <<stamps, recvTs, replies, webbed>>,
           phase # "idle" \/ phase' = "idle"
    PROVE  HeldInv'
<1>1. \A c : Place(c)' = Place(c)
  BY SameTable
<1>2. \A h, c : HeldFor(h, c)' <=> HeldFor(h, c)
  BY <1>1 DEF HeldFor, Resolves
<1> QED BY <1>2 DEF HeldInv

\* From the building of a reply to its noting, the record of the client holds its receive
\* time, or was made after it (server.rs, ntp_serve_loop).
LEMMA HeldStep ==
    ASSUME HeldInv, ServerTypeOK, TableIsSound, TableIsSound', now \in Nat, [Next]_serverVars
    PROVE  HeldInv'
<1>0. TableReads'
  BY SoundTableReadsNext
<1>10. \A n \in 1..Len(replies) : replies[n].key \in Keys
  <2>1. replies \in Seq(Reply)
    BY DEF ServerTypeOK
  <2>2. \A n \in 1..Len(replies) : replies[n] \in Reply
    BY <2>1
  <2> QED BY <2>2 DEF Reply
<1>1. CASE ReceiveBatch
  <2>1. Len(replies') = 0
    BY <1>1 DEF ReceiveBatch
  <2> QED BY <2>1 DEF HeldInv
<1>2. CASE Lock
  BY <1>2, HeldFrame DEF Lock, tableVars, history
<1>3. CASE Unlock
  BY <1>3, HeldFrame DEF Unlock, tableVars, history
<1>4. CASE Tick
  BY <1>4, HeldFrame DEF Tick, TableTick, thread, history
<1>5. CASE UNCHANGED serverVars
  BY <1>5, HeldFrame DEF serverVars, tableVars, thread, history
<1>6. ASSUME NEW what \in Outcomes, BuildNext(what) PROVE HeldInv'
  <2>1. PICK k \in Keys, origin \in Nat :
            Built(k, origin, recvTs) /\ (Unmoved \/ Moved(k, origin, recvTs))
    BY <1>6, BuildNextIs
  <2>2. /\ Appended /\ phase = "build" /\ phase' = phase /\ Len(replies) \in Nat
        /\ recvTs' = recvTs /\ webbed' = webbed
    BY <1>6, BuildNextIs
  <2>3. ASSUME NEW c \in Keys, NEW h, HeldFor(h, c) PROVE HeldFor(h, c)'
    <3>1. CASE Unmoved \/ c # k
      <4>1. Unmoved \/ (Moved(k, origin, recvTs) /\ c # k)
        BY <3>1, <2>1
      <4> QED BY <4>1, <2>2, <2>3, HeldByOthers
    <3>2. CASE ~ Unmoved /\ c = k
      <4>1. Moved(k, origin, recvTs) /\ HeldFor(h, k)
        BY <3>2, <2>1, <2>3
      <4>2. HeldFor(h, k)'
        BY <4>1, <2>2, HeldByOwn
      <4> QED BY <4>2, <3>2
    <3> QED BY <3>1, <3>2
  <2> SUFFICES ASSUME NEW n \in 1..Len(replies'), replies'[n].kind \in {"time", "nak"},
                      replies'[n].key \notin webbed
               PROVE  HeldFor(replies[n].handle, replies[n].key)'
    BY <2>2 DEF HeldInv
  <2>4. CASE n \in 1..Len(replies)
    <3>1. replies'[n] = replies[n]
      BY <2>4, <2>2 DEF Appended
    <3>2. PICK h, c : h = replies[n].handle /\ c = replies[n].key
      OBVIOUS
    <3>3. HeldFor(h, c) /\ c \in Keys
      BY <2>4, <3>1, <3>2, <2>2, <1>10 DEF HeldInv
    <3>4. HeldFor(h, c)'
      BY <3>3, <2>3
    <3> QED BY <3>1, <3>2, <3>4 DEF HeldFor
  <2>5. CASE n \notin 1..Len(replies)
    <3>1. /\ replies'[n].handle = built'.handle /\ replies'[n].key = k
          /\ built'.kind \in {"time", "nak"}
      BY <2>5, <2>1, <2>2 DEF Appended, Built
    <3>2. HeldFor(built.handle, k)'
      BY <3>1, <2>1, <2>2, <1>0, HeldByNew
    <3> QED BY <3>1, <3>2 DEF HeldFor
  <2> QED BY <2>4, <2>5
<1>7. ASSUME NEW k \in WebKeys, NEW what \in Outcomes, Gateway(k, what) PROVE HeldInv'
  <2>1. /\ k \in Keys /\ webbed' = webbed \cup {k} /\ UNCHANGED <<phase, recvTs, replies>>
    BY <1>7, GatewayIs
  <2>2. PICK origin : Unmoved \/ Moved(k, origin, now)
    BY <1>7, GatewayIs
  <2> SUFFICES ASSUME NEW n \in 1..Len(replies), replies[n].kind \in {"time", "nak"},
                      replies[n].key \notin webbed', phase # "idle"
               PROVE  HeldFor(replies[n].handle, replies[n].key)'
    BY <2>1 DEF HeldInv
  <2>3. PICK h, c : h = replies[n].handle /\ c = replies[n].key
    OBVIOUS
  <2>4. HeldFor(h, c) /\ c \in Keys /\ c # k
    BY <2>1, <2>3, <1>10 DEF HeldInv
  <2>5. HeldFor(h, c)'
    BY <2>1, <2>2, <2>4, HeldByOthers
  <2> QED BY <2>1, <2>3, <2>5 DEF HeldFor
<1>8. CASE Send
  <2>1. phase = "send" /\ UNCHANGED <<tableVars, stamps, recvTs, replies, webbed>>
    BY <1>8, SendIs
  <2> QED BY <2>1, HeldFrame DEF tableVars
<1>9. CASE Note
  BY <1>9 DEF Note, HeldInv
<1> QED BY <1>1, <1>2, <1>3, <1>4, <1>5, <1>6, <1>7, <1>8, <1>9 DEF Next

\* When a client was told of the reply whose receive time its record holds, the transmit
\* time there is that reply's, or is about to be noted.
TrueFor(c) ==
    LET s == stamps[Place(c)]
    IN  /\ Place(c) # NIL /\ s.receive # ZERO /\ s.transmit # ZERO
        /\ \E m \in told[c] : m.receive = s.receive
        => \/ [receive |-> s.receive, sent |-> s.transmit] \in told[c]
           \/ phase = "note" /\ Notes(Place(c))

TrueInv == \A c \in Keys \ (kissed \cup webbed) : TrueFor(c)

\* At the start nobody was told anything.
LEMMA TrueInit == Init => TrueInv
BY DEF Init, TrueInv, TrueFor

\* What neither builds, sends nor notes keeps the records true.
LEMMA TrueFrame ==
    ASSUME TrueInv, table' = table, hash' = hash, UNCHANGED <<stamps, told, kissed, webbed>>,
           phase # "note" \/ UNCHANGED <<phase, replies, sent>>
    PROVE  TrueInv'
<1>1. \A c : Place(c)' = Place(c)
  BY SameTable
<1>2. phase = "note" => \A s : Notes(s)' <=> Notes(s)
  BY SameTable DEF Notes
<1>3. \A c : TrueFor(c) => TrueFor(c)'
  BY <1>1, <1>2 DEF TrueFor
<1> QED BY <1>3 DEF TrueInv

\* Building a reply to one client keeps the record of another true.
LEMMA TrueForOthers ==
    ASSUME NEW k \in Keys, NEW origin, NEW recv, NEW c \in Keys,
           Unmoved \/ (Moved(k, origin, recv) /\ c # k), told'[c] = told[c],
           phase # "note" \/ UNCHANGED <<phase, replies, sent>>, TrueFor(c)
    PROVE  TrueFor(c)'
<1> SUFFICES ASSUME Place(c)' # NIL PROVE TrueFor(c)'
  BY DEF TrueFor
<1>1. /\ Place(c)' = Place(c) /\ stamps'[Place(c)] = stamps[Place(c)]
      /\ \A h : h.slot = Place(c) => (Resolves(table, h) <=> Resolves(table', h))
  BY BuildSpares
<1>2. ASSUME phase = "note", Notes(Place(c)) PROVE phase' = "note" /\ Notes(Place(c))'
  <2>1. PICK n \in 1..sent : /\ replies[n].handle.slot = Place(c)
                             /\ Resolves(table, replies[n].handle)
    BY <1>2 DEF Notes
  <2>2. UNCHANGED <<phase, replies, sent>>
    BY <1>2
  <2>3. Resolves(table', replies'[n].handle)
    BY <2>1, <2>2, <1>1
  <2>4. n \in 1..sent' /\ replies'[n].handle.slot = Place(c)'
    BY <2>1, <2>2, <1>1
  <2>5. Notes(Place(c))'
    BY <2>3, <2>4 DEF Notes, Resolves
  <2> QED BY <2>2, <2>5, <1>2
<1> QED BY <1>1, <1>2 DEF TrueFor

\* The client whose reply is built was told of no reply of this batch yet.
LEMMA TrueForOwn ==
    ASSUME TimesInv, ServerTypeOK, NEW k \in Keys \ webbed, NEW origin,
           Moved(k, origin, recvTs), told' = told, phase = "build", TrueFor(k)
    PROVE  TrueFor(k)'
<1>1. PICK i \in Slots, known \in BOOLEAN :
          RecordedIn(k, origin, recvTs, i, known) /\ Spares(k, i, known)
  BY DEF Moved
<1>2. /\ Place(k)' = i /\ i # NIL /\ known = (Place(k) # NIL) /\ (known => i = Place(k))
  BY <1>1 DEF Spares
<1>3. /\ stamps'[i].transmit = IF known THEN stamps[i].transmit ELSE ZERO
      /\ \/ stamps'[i].receive = Receive(recvTs)
         \/ stamps'[i].receive = IF known THEN stamps[i].receive ELSE ZERO
  BY <1>1 DEF RecordedIn
<1>4. \A m \in told[k] : m.receive # Receive(recvTs)
  <2> SUFFICES ASSUME NEW m \in told[k] PROVE m.receive # Receive(recvTs)
    OBVIOUS
  <2>1. m.receive < Receive(recvTs)
    BY DEF TimesInv
  <2>2. m \in [receive : Nat, sent : Nat]
    BY DEF ServerTypeOK
  <2>3. m.receive \in Nat /\ Receive(recvTs) \in Nat
    BY <2>2, StampTimes DEF ServerTypeOK
  <2> QED BY <2>1, <2>3
<1>5. CASE ~ known
  BY <1>2, <1>3, <1>5 DEF TrueFor
<1>6. CASE known /\ stamps'[i].receive = Receive(recvTs)
  BY <1>2, <1>4, <1>6 DEF TrueFor
<1>7. CASE known /\ stamps'[i].receive = stamps[i].receive
  BY <1>2, <1>3, <1>7 DEF TrueFor
<1> QED BY <1>3, <1>5, <1>6, <1>7

\* A reply that left names the client's record, or the record has no transmit time.
LEMMA SendKeepsTrue ==
    ASSUME TrueInv, TimesInv, HeldInv, TableReads, ServerTypeOK, Send
    PROVE  TrueInv'
<1>1. PICK n \in 0..Len(replies) : Sends(n)
  BY SendIs
<1>2. phase = "send" /\ UNCHANGED <<tableVars, stamps, recvTs, replies, webbed>>
  BY SendIs
<1>3. table' = table /\ hash' = hash
  BY <1>2 DEF tableVars
<1>4. \A c : Place(c)' = Place(c)
  BY <1>3, SameTable
<1> SUFFICES ASSUME NEW c \in Keys, c \notin kissed', c \notin webbed,
                    Place(c) # NIL, stamps[Place(c)].receive # ZERO,
                    stamps[Place(c)].transmit # ZERO,
                    NEW m \in told'[c], m.receive = stamps[Place(c)].receive
             PROVE  \/ [receive |-> stamps[Place(c)].receive,
                        sent |-> stamps[Place(c)].transmit] \in told'[c]
                    \/ phase' = "note" /\ Notes(Place(c))'
  BY <1>2, <1>4 DEF TrueInv, TrueFor
<1>5. replies \in Seq(Reply) /\ Len(replies) \in Nat
  BY DEF ServerTypeOK
<1>6. ASSUME NEW i \in 1..n, replies[i].key = c, replies[i].kind = "time"
      PROVE  phase' = "note" /\ Notes(Place(c))'
  <2>1. i \in 1..Len(replies)
    BY <1>5
  <2>2. HeldFor(replies[i].handle, c)
    BY <2>1, <1>2, <1>6 DEF HeldInv
  <2>3. replies[i].handle.slot = Place(c) /\ Resolves(table, replies[i].handle)
    BY <2>2 DEF HeldFor
  <2>4. sent' = n /\ phase' = "note"
    BY <1>1, <1>6 DEF Sends
  <2>5. \E j \in 1..sent' : /\ replies'[j].handle.slot = Place(c)
                            /\ Resolves(table, replies'[j].handle)
    BY <2>3, <2>4, <1>2
  <2>6. \A s : Notes(s)' <=> \E j \in 1..sent' : /\ replies'[j].handle.slot = s
                                                 /\ Resolves(table, replies'[j].handle)
    BY <1>3, SameTable
  <2>7. Notes(Place(c))' <=> \E j \in 1..sent' : /\ replies'[j].handle.slot = Place(c)
                                                 /\ Resolves(table, replies'[j].handle)
    BY <2>6, <1>3, <1>4 DEF Notes, Resolves
  <2> QED BY <2>4, <2>5, <2>7
<1>7. CASE \E i \in 1..n : replies[i].key = c /\ replies[i].kind = "time"
  BY <1>6, <1>7
<1>8. CASE ~ \E i \in 1..n : replies[i].key = c /\ replies[i].kind = "time"
  <2>1. m \in told[c] /\ told[c] \subseteq told'[c]
    BY <1>1, <1>8 DEF Sends
  <2>2. c \notin kissed
    BY <1>1, <1>8 DEF Sends, Left
  <2>3. TrueFor(c)
    BY <2>2 DEF TrueInv
  <2> QED BY <2>1, <2>3, <1>2 DEF TrueFor
<1> QED BY <1>7, <1>8

\* A record that is noted holds the receive time of the reply that left.
LEMMA NoteKeepsTrue ==
    ASSUME TrueInv, TimesInv, HeldInv, OwnInv, TableReads, ServerTypeOK, Note
    PROVE  TrueInv'
<1>1. /\ phase = "note" /\ phase' = "idle"
      /\ \A s \in Slots : /\ stamps'[s].receive = stamps[s].receive
                          /\ Notes(s) => stamps'[s].transmit = sentTs
                          /\ ~ Notes(s) => stamps'[s].transmit = stamps[s].transmit
      /\ table' = table /\ hash' = hash
      /\ UNCHANGED <<replies, sent, sentTs, told, kissed, webbed>>
  BY NoteIs DEF tableVars
<1>2. \A c : Place(c)' = Place(c)
  BY <1>1, SameTable
<1> SUFFICES ASSUME NEW c \in Keys, c \notin kissed, c \notin webbed, Place(c) # NIL,
                    stamps'[Place(c)].receive # ZERO, stamps'[Place(c)].transmit # ZERO,
                    NEW m \in told[c], m.receive = stamps'[Place(c)].receive
             PROVE  [receive |-> stamps'[Place(c)].receive,
                     sent |-> stamps'[Place(c)].transmit] \in told[c]
  BY <1>1, <1>2 DEF TrueInv, TrueFor
<1> DEFINE s == Place(c)
<1>3. s \in Slots /\ s \in 1..Len(table.slots) /\ table.slots[s].key = c /\ s # NIL
  BY DEF TableReads
<1>4. stamps'[s].receive = stamps[s].receive
  BY <1>1, <1>3
<1>5. CASE ~ Notes(s)
  <2>1. stamps'[s].transmit = stamps[s].transmit
    BY <1>1, <1>3, <1>5
  <2>2. TrueFor(c)
    BY DEF TrueInv
  <2> QED BY <2>1, <2>2, <1>4, <1>5 DEF TrueFor
<1>6. CASE Notes(s)
  <2>1. PICK n \in 1..sent : replies[n].handle.slot = s /\ Resolves(table, replies[n].handle)
    BY <1>6 DEF Notes
  <2>2. n \in 1..Len(replies) /\ replies \in Seq(Reply)
    BY <1>1 DEF ServerTypeOK
  <2>3. GivenTo(replies[n].handle, replies[n].key)
    BY <2>2 DEF OwnInv
  <2>4. replies[n].key = c
    BY <2>1, <2>3, <1>3 DEF GivenTo, Resolves
  <2>5. replies[n].kind # "kiss"
    BY <2>4, <1>1 DEF TimesInv
  <2>6. replies[n] \in Reply
    BY <2>2
  <2>7. replies[n].kind \in {"time", "nak"}
    BY <2>5, <2>6 DEF Reply
  <2>8. HeldFor(replies[n].handle, c)
    BY <2>2, <2>4, <2>7, <1>1 DEF HeldInv
  <2>9. stamps[s].receive = Receive(recvTs)
    BY <2>8, <1>3, <1>4 DEF HeldFor
  <2>10. m.receive = Receive(recvTs)
    BY <2>9, <1>4
  <2>11. m.sent = sentTs
    BY <2>10, <1>1 DEF TimesInv
  <2>12. m \in [receive : Nat, sent : Nat]
    BY DEF ServerTypeOK
  <2>13. m = [receive |-> m.receive, sent |-> m.sent]
    BY <2>12
  <2>14. stamps'[s].transmit = sentTs
    BY <1>1, <1>3, <1>6
  <2> HIDE DEF s
  <2>15. [receive |-> stamps'[s].receive, sent |-> stamps'[s].transmit] = m
    BY <2>9, <2>10, <2>11, <2>13, <2>14, <1>4
  <2>16. m \in told[c]
    OBVIOUS
  <2>17. [receive |-> stamps'[s].receive, sent |-> stamps'[s].transmit] \in told[c]
    BY <2>15, <2>16
  <2> QED BY <2>17 DEF s
<1> QED BY <1>5, <1>6

\* Every step keeps the records of those true that stay off the gateway and were not kissed.
LEMMA TrueStep ==
    ASSUME TrueInv, TimesInv, HeldInv, OwnInv, ServerTypeOK, TableIsSound, TableIsSound',
           now \in Nat, [Next]_serverVars
    PROVE  TrueInv'
<1>0. TableReads /\ TableReads'
  BY SoundTableReads, SoundTableReadsNext
<1>1. CASE ReceiveBatch
  BY <1>1, TrueFrame DEF ReceiveBatch, tableVars, history
<1>2. CASE Lock
  BY <1>2, TrueFrame DEF Lock, tableVars, history
<1>3. CASE Unlock
  BY <1>3, TrueFrame DEF Unlock, tableVars, history
<1>4. CASE Tick
  BY <1>4, TrueFrame DEF Tick, TableTick, thread, history
<1>5. CASE UNCHANGED serverVars
  BY <1>5, TrueFrame DEF serverVars, tableVars, thread, history
<1>6. ASSUME NEW what \in Outcomes, BuildNext(what) PROVE TrueInv'
  <2>1. PICK k \in Keys, origin \in Nat : Unmoved \/ Moved(k, origin, recvTs)
    BY <1>6, BuildNextIs
  <2>2. phase = "build" /\ UNCHANGED <<told, kissed, webbed>>
    BY <1>6, BuildNextIs
  <2> SUFFICES ASSUME NEW c \in Keys \ (kissed \cup webbed) PROVE TrueFor(c)'
    BY <2>2 DEF TrueInv
  <2>3. TrueFor(c)
    BY DEF TrueInv
  <2>4. CASE Unmoved \/ c # k
    <3>1. Unmoved \/ (Moved(k, origin, recvTs) /\ c # k)
      BY <2>1, <2>4
    <3> QED BY <3>1, <2>2, <2>3, TrueForOthers
  <2>5. CASE ~ Unmoved /\ c = k
    <3>1. Moved(c, origin, recvTs) /\ c \in Keys \ webbed
      BY <2>1, <2>5
    <3> QED BY <3>1, <2>2, <2>3, TrueForOwn
  <2> QED BY <2>4, <2>5
<1>7. ASSUME NEW k \in WebKeys, NEW what \in Outcomes, Gateway(k, what) PROVE TrueInv'
  <2>1. /\ k \in Keys /\ webbed' = webbed \cup {k} /\ UNCHANGED <<phase, replies, sent, kissed>>
        /\ \A c \in Keys \ {k} : told'[c] = told[c]
    BY <1>7, GatewayIs
  <2>2. PICK origin : Unmoved \/ Moved(k, origin, now)
    BY <1>7, GatewayIs
  <2> SUFFICES ASSUME NEW c \in Keys, c \notin kissed, c \notin webbed, c # k PROVE TrueFor(c)'
    BY <2>1 DEF TrueInv
  <2>3. TrueFor(c)
    BY DEF TrueInv
  <2> QED BY <2>1, <2>2, <2>3, TrueForOthers
<1> QED BY <1>0, <1>1, <1>2, <1>3, <1>4, <1>5, <1>6, <1>7, SendKeepsTrue, NoteKeepsTrue DEF Next

-----------------------------------------------------------------------------
\* The server.

\* The inductive invariant of the server.
ServerInv ==
    /\ TableInvariant /\ ServerTypeOK
    /\ OwnInv /\ TimesInv /\ HeldInv /\ TrueInv

\* The invariant of the server holds at the start and after every step.
LEMMA ServerInvHolds ==
    /\ Init => ServerInv
    /\ ServerInv /\ [Next]_serverVars => ServerInv' /\ [TableNext]_tableVars
<1>1. Init => ServerInv
  <2> SUFFICES ASSUME Init PROVE ServerInv
    OBVIOUS
  <2>1. TableInvariant
    BY TableInvariantHolds DEF Init
  <2>2. HeldInv
    BY DEF Init, HeldInv
  <2> QED BY <2>1, <2>2, ServerTypeInit, OwnInit, TimesInit, TrueInit DEF ServerInv
<1>2. ASSUME ServerInv, [Next]_serverVars PROVE ServerInv' /\ [TableNext]_tableVars
  <2>1. [TableNext]_tableVars
    BY <1>2, StepUsesTable DEF ServerInv
  <2>2. TableInvariant'
    BY <2>1, <1>2, TableInvariantHolds DEF ServerInv
  <2>3. TableIsSound /\ TableIsSound' /\ now \in Nat
    BY <2>2, <1>2 DEF ServerInv, TableInvariant, LimiterInv, LimiterTypeOK
  <2>4. ServerTypeOK'
    BY <2>3, <1>2, ServerTyped DEF ServerInv
  <2>5. OwnInv'
    BY <2>3, <1>2, OwnStep DEF ServerInv
  <2>6. TimesInv'
    BY <2>3, <1>2, TimesStep DEF ServerInv
  <2>7. HeldInv'
    BY <2>3, <1>2, HeldStep DEF ServerInv
  <2>8. TrueInv'
    BY <2>3, <1>2, TrueStep DEF ServerInv
  <2> QED BY <2>1, <2>2, <2>4, <2>5, <2>6, <2>7, <2>8 DEF ServerInv
<1> QED BY <1>1, <1>2

\* The server uses its table as the table is meant to be used: all that is proved of the
\* table holds of the server (server.rs, ntp_serve_loop; gateway.rs, time_exchange).
THEOREM ServerUsesTable == Spec => TableSpec
<1>1. Init => TableInit
  BY DEF Init
<1> QED BY <1>1, ServerInvHolds, PTL DEF Spec, TableSpec

\* The transmit times on the list are its clients' own.
LEMMA OwnTransmits == TableIsSound /\ OwnInv => TransmitsAreOwn
<1> SUFFICES ASSUME TableIsSound, OwnInv, NEW n \in DOMAIN Order,
                    stamps[Order[n]].transmit # ZERO
             PROVE  stamps[Order[n]].transmit \in sentAt[table.slots[Order[n]].key]
  BY DEF TransmitsAreOwn
<1>1. hash \in [Keys -> Nat]
  BY HashIs
<1>2. PICK m \in 0..Capacity : \E ord \in [1..m -> Slots] : TableInv(table, ord, m)
  BY DEF TableIsSound
<1>3. PICK ord \in [1..m -> Slots] : TableInv(table, ord, m)
  BY <1>2
<1>4. Order = ord /\ n \in 1..m
  BY <1>3, OrderIs
<1>5. Find(table, table.slots[ord[n]].key) = ord[n] /\ ord[n] # NIL
      /\ table.slots[ord[n]].key \in Keys
  BY <1>1, <1>3, <1>4, ListedIsFound
<1>6. Place(table.slots[ord[n]].key) = ord[n]
  BY <1>5 DEF Place
<1> QED BY <1>4, <1>5, <1>6 DEF OwnInv

\* A client's record never holds the transmit time of what left for another, however slots
\* are evicted and taken over while replies are on their way (server.rs, note_transmit_at).
THEOREM TransmitsStayOwn == Spec => []TransmitsAreOwn
<1>1. ServerInv => TransmitsAreOwn
  BY OwnTransmits DEF ServerInv, TableInvariant
<1> QED BY <1>1, ServerInvHolds, PTL DEF Spec

\* A step that builds an interleaved reply builds one that is true.
LEMMA StepTellsTruth ==
    ASSUME ServerInv, ServerInv', [Next]_serverVars, MisleadingReply
    PROVE  built'.key \in kissed \cup webbed'
<1>0. /\ TableIsSound /\ TableIsSound' /\ now \in Nat /\ ServerTypeOK
      /\ TimesInv /\ TrueInv
  BY DEF ServerInv, TableInvariant, LimiterInv, LimiterTypeOK
<1>1. built' # built
  BY DEF MisleadingReply
<1>2. ASSUME NEW what \in Outcomes, BuildNext(what) PROVE built'.key \in kissed \cup webbed'
  <2>1. PICK k \in Keys, origin \in Nat :
            /\ k = batch[1].key /\ origin = batch[1].origin
            /\ Built(k, origin, recvTs) /\ (Unmoved \/ Moved(k, origin, recvTs))
    BY <1>0, <1>2, BuildNextIs
  <2>2. batch # <<>> /\ phase = "build" /\ webbed' = webbed
    BY <1>0, <1>2, BuildNextIs
  <2>3. built'.key = k /\ built'.origin = origin /\ built'.interleaved
    BY <2>1 DEF Built, MisleadingReply
  <2>4. Moved(k, origin, recvTs)
    BY <2>1, <2>3 DEF Unmoved, TurnedAway
  <2>5. PICK i \in Slots, known \in BOOLEAN :
            RecordedIn(k, origin, recvTs, i, known) /\ Spares(k, i, known)
    BY <2>4 DEF Moved
  <2>6. /\ known /\ origin # ZERO /\ origin = stamps[i].receive
        /\ stamps[i].transmit # ZERO /\ built'.transmit = stamps[i].transmit
    BY <2>3, <2>5 DEF RecordedIn
  <2>7. i = Place(k) /\ Place(k) # NIL
    BY <2>5, <2>6 DEF Spares
  <2>8. \E m \in told[k] : m.receive = origin
    <3>1. 1 \in 1..Len(batch)
      BY <2>2, <1>0, NextRequest
    <3>2. origin \in Origins(k)
      BY <3>1, <2>1, <1>0 DEF TimesInv
    <3> QED BY <3>2, <2>6 DEF Origins
  <2>9. ASSUME k \notin kissed \cup webbed PROVE FALSE
    <3>1. TrueFor(k)
      BY <2>9, <1>0 DEF TrueInv
    <3>2. [receive |-> origin, sent |-> built'.transmit] \in told[k]
      BY <3>1, <2>2, <2>6, <2>7, <2>8 DEF TrueFor
    <3> QED BY <3>2, <2>3 DEF MisleadingReply, TellsTruth
  <2> QED BY <2>2, <2>3, <2>9
<1>3. ASSUME NEW k \in WebKeys, NEW what \in Outcomes, Gateway(k, what)
      PROVE  built'.key \in kissed \cup webbed'
  BY <1>0, <1>3, GatewayIs DEF Built
<1> QED BY <1>1, <1>2, <1>3
        DEF Next, ReceiveBatch, Lock, Unlock, Send, Note, Tick, serverVars

\* An interleaved reply carries the real transmit time of the very reply the client named,
\* for every client that stays off the gateway and was not kissed since, through partial
\* sends, evictions and several requests in a batch (core server.rs, response_mode_at).
THEOREM InterleavedRepliesTellTruth == Spec => InterleavedIsTrue
<1>1. ServerInv /\ ServerInv' /\ [Next]_serverVars =>
          [MisleadingReply => built'.key \in kissed \cup webbed']_serverVars
  BY StepTellsTruth
<1> QED BY <1>1, ServerInvHolds, PTL DEF Spec, InterleavedIsTrue
=============================================================================
