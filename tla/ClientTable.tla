----------------------------- MODULE ClientTable -----------------------------
(***************************************************************************)
(* The table of clients of the NTP server (rusty_time-core, server.rs): an  *)
(* open-addressed index with backward-shift deletion, records in slots that *)
(* never move, an intrusive recency list threaded through them, a free      *)
(* list, generations that make old handles stale, and the two token buckets *)
(* that decide which requests are answered.                                 *)
(*                                                                          *)
(* Abstractions.  Slots are numbered from 1, NIL is 0 and an EMPTY bucket   *)
(* holds slot 0.  Time is a number of ticks; a per-client token is worth    *)
(* TokenTicks of them, so that a bucket holds an integer.  The hash of a    *)
(* key is any function: the hasher is seeded at random.                     *)
(***************************************************************************)
EXTENDS Integers, Sequences, FiniteSets

CONSTANTS
    Keys,          \* client addresses
    Capacity,      \* clients remembered at once
    Size,          \* buckets of the index, four times the capacity or more
    HashFunctions, \* what the seed may make of the keys
    TokenTicks,    \* 2^interval_log2
    Burst,         \* burst
    Leak,          \* 2^leak_shift
    GlobalRate,    \* global_rate_hz, 0 when disabled
    GlobalBurst,   \* global_burst
    None,          \* no client
    MaxTime,       \* bound on time, for model checking
    MaxRequests    \* bound on the number of requests, for model checking

ASSUME TableAssumption ==
    /\ Capacity \in Nat \ {0} /\ Size \in Nat /\ Size >= 4 * Capacity
    /\ HashFunctions \subseteq [Keys -> Nat] /\ HashFunctions # {}
ASSUME LimitsAssumption ==
    /\ TokenTicks \in Nat \ {0} /\ Burst \in Nat /\ Leak \in Nat \ {0}
    /\ GlobalRate \in Nat /\ GlobalBurst \in Nat /\ MaxTime \in Nat \ {0} /\ None \notin Keys

VARIABLES
    now,           \* monotonic time
    hash,          \* the seeded hasher
    table,         \* struct ClientTable: slots, free, mru, lru and the index
    records,       \* the ClientRecord of every slot: its token bucket
    globalTokens,  \* global_tokens
    globalLast,    \* global_last
    globalDrops,   \* global_drops_since_kod
    stats,         \* ServerStats
    admitted,      \* what admit_handle returned last
    \* history
    user,          \* the client that was given a record or found to have one last
    answered       \* by tick, how many requests had been answered when it began

limits    == <<records, globalTokens, globalLast, globalDrops, stats>>
tableVars == <<now, hash, table, limits, admitted, user, answered>>

NIL   == 0
Never == -1
Slots == 1..Capacity

Dispositions == {"respond", "kiss", "drop"}
Handles   == [slot : 0..Capacity, generation : Nat]
INVALID   == [slot |-> NIL, generation |-> 0]
EmptyBucket == [hash |-> 0, slot |-> NIL]

Least(a, b) == IF a < b THEN a ELSE b

-----------------------------------------------------------------------------
\* struct Index.  A key is found by scanning forward from its ideal bucket to the
\* first empty one.
Ideal(h)      == h % Size
Forward(i, n) == (i + n) % Size
Ahead(i, j)   == (i - j) % Size      \* how far i is ahead of j
Occupied(b, i) == b[i].slot # NIL
\* the buckets from i up to the first empty one
Run(b, i) ==
    LET stop == CHOOSE n \in 0..(Size - 1) :
                    /\ ~Occupied(b, Forward(i, n))
                    /\ \A m \in 0..(n - 1) : Occupied(b, Forward(i, m))
    IN  [n \in 1..stop |-> Forward(i, n - 1)]

\* probe: the bucket that holds k, or Never
Probe(t, k) ==
    LET run   == Run(t.buckets, Ideal(hash[k]))
        holds == {n \in DOMAIN run : /\ t.buckets[run[n]].hash = hash[k]
                                     /\ t.slots[t.buckets[run[n]].slot].key = k}
    IN  IF holds = {} THEN Never ELSE run[CHOOSE n \in holds : \A m \in holds : n <= m]

Find(t, k) == LET i == Probe(t, k) IN IF i = Never THEN NIL ELSE t.buckets[i].slot

Insert(t, k, slot) ==
    LET run == Run(t.buckets, Ideal(hash[k]))
        i   == IF Probe(t, k) # Never THEN Probe(t, k) ELSE Forward(Ideal(hash[k]), Len(run))
    IN  [t EXCEPT !.buckets[i] = [hash |-> hash[k], slot |-> slot]]

\* remove: an entry of the rest of the run moves back into the hole if that does not
\* take it before its ideal bucket.
MovesBackAnyway(h, hole, i) == TRUE                    \* mutant
MovesBack(h, hole, i) == Ahead(hole, Ideal(h)) < Ahead(i, Ideal(h))
Pass(s, i) ==
    IF MovesBack(s.b[i].hash, s.hole, i)
    THEN [b |-> [s.b EXCEPT ![s.hole] = s.b[i], ![i] = EmptyBucket], hole |-> i]
    ELSE s
\* the buckets and the hole after so many passes over the rest of the run
Passes(b, start) ==
    LET rest == Run(b, Forward(start, 1))
        after[n \in 0..Len(rest)] ==
            IF n = 0 THEN [b |-> [b EXCEPT ![start] = EmptyBucket], hole |-> start]
            ELSE Pass(after[n - 1], rest[n])
    IN  after
RemoveKey(t, k) ==
    LET start  == Probe(t, k)
        passes == Passes(t.buckets, start)
        last   == Len(Run(t.buckets, Forward(start, 1)))
    IN  IF start = Never THEN t ELSE [t EXCEPT !.buckets = passes[last].b]

-----------------------------------------------------------------------------
\* The recency list and the slots.
Unlink(t, i) ==
    LET prev == t.slots[i].prev
        next == t.slots[i].next
        ahead  == IF prev = NIL THEN t.slots ELSE [t.slots EXCEPT ![prev].next = next]
        behind == IF next = NIL THEN ahead ELSE [ahead EXCEPT ![next].prev = prev]
    IN  [t EXCEPT !.slots = behind,
                  !.mru = IF prev = NIL THEN next ELSE @,
                  !.lru = IF next = NIL THEN prev ELSE @]

LinkFront(t, i) ==
    LET linked == [t.slots EXCEPT ![i].prev = NIL, ![i].next = t.mru]
    IN  [t EXCEPT !.slots = IF t.mru = NIL THEN linked
                            ELSE [linked EXCEPT ![t.mru].prev = i],
                  !.lru = IF t.mru = NIL THEN i ELSE @,
                  !.mru = i]

TouchForgets(t, i) == t                 \* mutant: a known client is not moved up
Touch(t, i) == IF t.mru = i THEN t ELSE LinkFront(Unlink(t, i), i)

\* evict_one: the tail of the list goes, its generation stays until the slot is reused
Evict(t) ==
    LET victim == t.lru
    IN  IF victim = NIL THEN t
        ELSE [RemoveKey(Unlink(t, victim), t.slots[victim].key) EXCEPT
                 !.free = Append(@, victim)]

\* alloc_slot, and the index learns of it
SlotFor(t) == IF t.free = <<>> THEN Len(t.slots) + 1 ELSE t.free[Len(t.free)]
Alloc(t, k) ==
    LET i == SlotFor(t)
        fresh(g) == [key |-> k, prev |-> NIL, next |-> NIL, generation |-> g]
        taken == IF t.free = <<>>
                 THEN [t EXCEPT !.slots = Append(@, fresh(0))]
                 ELSE [t EXCEPT !.slots[i] = fresh(@.generation + 1),
                                !.free = SubSeq(@, 1, Len(@) - 1)]
    IN  Insert(LinkFront(taken, i), k, i)

HandleFor(t, i) == [slot |-> i, generation |-> t.slots[i].generation]
\* resolve: a handle that outlived its client is stale
ResolvesAlways(t, h) == h.slot \in DOMAIN t.slots      \* mutant
Resolves(t, h) == h.slot \in DOMAIN t.slots /\ t.slots[h.slot].generation = h.generation

-----------------------------------------------------------------------------
NewRecord == [tokens |-> Burst * TokenTicks, lastSeen |-> now, responses |-> 0,
              dropped |-> 0, drops |-> 0]

TableInit ==
    /\ now = 1 /\ hash \in HashFunctions
    /\ table = [slots |-> <<>>, free |-> <<>>, mru |-> NIL, lru |-> NIL,
                buckets |-> [i \in 0..(Size - 1) |-> EmptyBucket]]
    /\ records = [i \in Slots |-> NewRecord]
    /\ globalTokens = GlobalBurst /\ globalLast = Never /\ globalDrops = 0
    /\ stats = [requests |-> 0, responses |-> 0, dropped |-> 0, kisses |-> 0, evicted |-> 0]
    /\ admitted = [disposition |-> "drop", handle |-> INVALID]
    /\ user = None /\ answered = [t \in 1..MaxTime |-> 0]

\* The global bucket comes first.
UncappedTokens ==        \* mutant: a quiet hour is saved up
    globalTokens + (IF globalLast = Never THEN 0 ELSE now - globalLast) * GlobalRate
GlobalRefill ==
    Least(globalTokens + (IF globalLast = Never THEN 0 ELSE now - globalLast) * GlobalRate,
          GlobalBurst)
OverCeiling == GlobalRate > 0 /\ GlobalRefill < 1

\* Every Leak-th drop is answered with a kiss of death.
KissIsDue(drops) == drops + 1 >= Leak
CountKept(drops) == Least(drops + 1, Leak - 1)     \* mutant: the count is not reset
CountAfter(drops) == IF KissIsDue(drops) THEN 0 ELSE drops + 1
Refusal(drops) == IF KissIsDue(drops) THEN "kiss" ELSE "drop"
StatsRefused(s, drops) ==
    [s EXCEPT !.requests = @ + 1, !.dropped = @ + 1,
              !.kisses = @ + (IF KissIsDue(drops) THEN 1 ELSE 0)]

RefuseGlobally ==
    /\ OverCeiling
    /\ globalTokens' = GlobalRefill /\ globalLast' = now
    /\ globalDrops' = CountAfter(globalDrops)
    /\ stats' = StatsRefused(stats, globalDrops)
    /\ admitted' = [disposition |-> Refusal(globalDrops), handle |-> INVALID]
    /\ UNCHANGED <<table, records, user, answered>>

\* Then the client is found, or given a slot at the cost of the stalest one, and
\* its own bucket decides.
Clients == Cardinality({b \in DOMAIN table.buckets : Occupied(table.buckets, b)})
IsFull == Clients >= Capacity
Remembered(k) ==
    LET i == Find(table, k)
    IN  IF i # NIL THEN Touch(table, i)
        ELSE Alloc(IF IsFull THEN Evict(table) ELSE table, k)

Refill(r) == Least(r.tokens + (now - r.lastSeen), Burst * TokenTicks)
AdmitClient(k) ==
    /\ ~OverCeiling
    /\ table' = Remembered(k)
    /\ LET i      == Find(table', k)
           isNew  == Find(table, k) = NIL
           before == IF isNew THEN NewRecord ELSE records[i]
           tokens == Refill(before)
           seen   == [before EXCEPT !.tokens = tokens, !.lastSeen = now]
           evictions == IF isNew /\ IsFull THEN 1 ELSE 0
           counted == [stats EXCEPT !.evicted = @ + evictions]
           spent   == IF tokens >= TokenTicks THEN 1 ELSE 0
       IN  /\ globalTokens' = (IF GlobalRate > 0 THEN GlobalRefill ELSE globalTokens) - spent
           /\ globalLast' = IF GlobalRate > 0 THEN now ELSE globalLast
           /\ IF tokens >= TokenTicks
              THEN /\ records' = [records EXCEPT ![i] =
                          [seen EXCEPT !.tokens = @ - TokenTicks, !.responses = @ + 1]]
                   /\ stats' = [counted EXCEPT !.requests = @ + 1, !.responses = @ + 1]
                   /\ admitted' = [disposition |-> "respond", handle |-> HandleFor(table', i)]
              ELSE /\ records' = [records EXCEPT ![i] =
                          [seen EXCEPT !.dropped = @ + 1, !.drops = CountAfter(@)]]
                   /\ stats' = StatsRefused(counted, before.drops)
                   /\ admitted' = [disposition |-> Refusal(before.drops),
                                   handle |-> HandleFor(table', i)]
    /\ user' = k
    /\ UNCHANGED <<globalDrops, answered>>

\* admit_handle
Admit(k) ==
    /\ stats.requests < MaxRequests
    /\ RefuseGlobally \/ AdmitClient(k)
    /\ UNCHANGED <<now, hash>>

TableTick ==
    /\ now < MaxTime
    /\ now' = now + 1
    /\ answered' = [answered EXCEPT ![now'] = stats.responses]
    /\ UNCHANGED <<hash, table, limits, admitted, user>>

TableNext == TableTick \/ \E k \in Keys : Admit(k)
TableSpec == TableInit /\ [][TableNext]_tableVars

-----------------------------------------------------------------------------
\* The recency list, read from its most recent end.
Order ==
    LET walk[n \in 0..Capacity] ==
            IF n = 0 THEN <<>>
            ELSE LET before == walk[n - 1]
                     i == IF before = <<>> THEN table.mru
                          ELSE table.slots[before[Len(before)]].next
                 IN  IF i = NIL THEN before ELSE Append(before, i)
    IN  walk[Capacity]
OrderOfKeys == LET order == Order IN [n \in DOMAIN order |-> table.slots[order[n]].key]

\* Through any sequence of admissions the linked list, the slots and the free list
\* implement the plain order of use: "when full, the least recently seen client is
\* evicted" (server.rs, ClientTable).
Lru == INSTANCE LruOrder WITH order <- OrderOfKeys
ImplementsLru == Lru!Spec

\* Whatever the seed, every client on the list, and no other, is reached by a scan from
\* its own ideal bucket: "every key reachable by a forward scan from its own ideal
\* bucket -- which is why no tombstone is required" (server.rs, Index::remove).
IndexFindsEveryClient ==
    LET order == Order
        keyAt(n) == table.slots[order[n]].key
    IN  /\ Clients = Len(order)
        /\ \A n \in DOMAIN order : Find(table, keyAt(n)) = order[n]
        /\ \A k \in Keys \ {keyAt(n) : n \in DOMAIN order} : Find(table, k) = NIL

\* However the address space is shuffled, no window of time sees more answers than the
\* ceiling allows: "A global bucket is the backstop that bounds total output no matter
\* how the address space is shuffled" (server.rs, RateLimitConfig).
ResponsesAreBounded ==
    GlobalRate > 0 =>
        \A t \in 1..now : stats.responses - answered[t] <= GlobalBurst + GlobalRate * (now - t)

\* Kisses of death are rarer than the drops they answer by the factor of the leak,
\* over both limiters and all evictions together: "answering every dropped request
\* turns the limiter into the amplifier it exists to prevent" (server.rs, leak_shift).
KissesAreRare == stats.kisses * Leak <= stats.dropped
=============================================================================
