------------------------- MODULE NtsSession_proofs -------------------------
(***************************************************************************)
(* Proofs about NtsSession, for jars, stores and replies of any size, any   *)
(* number of master keys and of stale datagrams, and for a client and a     *)
(* server that may be killed or restarted at any point.                     *)
(***************************************************************************)
EXTENDS NtsSession, FiniteSetTheorems, SequenceTheorems, TLAPS

USE NtsConstants

-----------------------------------------------------------------------------
(* What every step keeps.  The properties speak of the jar, in memory and on
   disk; what becomes of it is on its way between the client and the server,
   in the datagrams of the exchange in progress.                           *)

IsSeq(s) == s \in Seq(ToSet(s))

Message(m) ==
    /\ m.ours \in BOOLEAN
    /\ \/ /\ m.type = "request" /\ m.want \in Nat
          /\ DOMAIN m = {"type", "cookie", "want", "ours"}
       \/ /\ m.type = "reply" /\ IsSeq(m.cookies)
          /\ DOMAIN m = {"type", "ours", "cookies"}
       \/ /\ m.type = "nak"
          /\ DOMAIN m = {"type", "ours"}

TypeInv ==
    /\ kind \in {"sync", "query"} /\ pc \in {"idle", "ready", "sent"}
    /\ ring \in Nat \ {0} /\ store \in Nat /\ masters \in Nat \ {0}
    /\ stateful \in BOOLEAN /\ up \in BOOLEAN
    /\ naks \in Nat /\ changes \in Nat
    /\ IsSeq(jar) /\ DOMAIN disk = 1..Slots
    /\ \A m \in net : Message(m)

\* Where cookies are: in a datagram, in the entries of a store that a run would read, in
\* what the client has and what the exchange in progress may bring it, and anywhere.
CookiesOf(m) == CASE m.type = "request" -> {m.cookie}
                  [] m.type = "reply"   -> ToSet(m.cookies)
                  [] OTHER              -> {}
InFlight(msgs) == UNION {CookiesOf(m) : m \in msgs}
Readable(slots) == {slots[i] : i \in {k \in 1..Slots : \A j \in 1..k : Live(slots[j])}}
LiveIn(slots)   == {slots[i] : i \in {k \in 1..Slots : Live(slots[k])}}
Ours     == {m \in net : m.ours}
Session  == ToSet(jar) \cup InFlight(Ours)
Anywhere == ToSet(jar) \cup LiveIn(disk) \cup InFlight(net)

\* A server that does not serve has no key in its store yet; one that serves with its
\* state has the key of its ring there, and so has every cookie that was sealed by one.
KeyInv ==
    /\ ~ up => stateful /\ store = 0
    /\ up /\ stateful => store = ring
    /\ \A c \in Anywhere : c.kept => c.master = store /\ store # 0

\* A query that rests has nothing under way, and a jar in memory or on disk has no cookies
\* of two keys, whatever the exchange in progress brings it.
JarInv ==
    /\ kind = "query" /\ pc = "idle" => net = {} /\ jar = <<>>
    /\ \A c, d \in Session : c.master = d.master
    /\ \A c, d \in Readable(disk) : c.master = d.master

\* The sync loop still has a refusal coming.
Refusable ==
    \/ \E c \in ToSet(jar) : c.master # ring
    \/ pc = "sent" /\ \/ \E m \in Ours : m.type = "nak"
                      \/ \E c \in InFlight(Ours) : c.master # ring

\* Every refusal that was had, and the one to come, is for a change of the key of its own.
NakInv ==
    /\ naks <= changes
    /\ kind = "sync" /\ Refusable => naks < changes

Inv == TypeInv /\ KeyInv /\ JarInv /\ NakInv

-----------------------------------------------------------------------------
(* Facts about the operators.                                              *)

LEMMA NoCookies == IsSeq(<<>>) /\ ToSet(<<>>) = {}
<1>1. \A S : <<>> \in Seq(S)
  OBVIOUS
<1>2. DOMAIN <<>> = {}
  OBVIOUS
<1> QED BY <1>1, <1>2 DEF IsSeq, ToSet

\* A set of numbers has a least one: where reading the store stops.
LEMMA LeastOf ==
    ASSUME NEW T \in SUBSET Nat, T # {}
    PROVE  \E m \in T : \A k \in T : m <= k
<1> DEFINE Below(m) == 0..(m - 1)
           R == StrictSubsetOrdering(Nat)
           Segments == {Below(m) : m \in T}
<1>1. \A m \in T : Below(m) \in FiniteSubsetsOf(Nat)
  BY FS_Interval DEF FiniteSubsetsOf
<1>2. Segments \subseteq FiniteSubsetsOf(Nat) /\ Segments # {}
  BY <1>1
<1>3. PICK x \in Segments : \A y \in Segments : ~ (<<y, x>> \in R)
  <2> HIDE DEF R, Segments
  <2> QED BY <1>2, FS_StrictSubsetOrderingWellFounded, WFMin DEF R
<1>4. PICK m \in T : x = Below(m)
  OBVIOUS
<1>5. ASSUME NEW k \in T, k < m PROVE FALSE
  <2>1. Below(k) \in Segments /\ <<Below(k), x>> \notin R
    BY <1>3
  <2>2. Below(k) \subseteq Below(m) /\ k \in Below(m) /\ k \notin Below(k)
    BY <1>5
  <2>3. Below(k) \in SUBSET Nat /\ Below(m) \in SUBSET Nat
    OBVIOUS
  <2> HIDE DEF Below, Segments
  <2> QED BY <2>1, <2>2, <2>3, <1>4 DEF StrictSubsetOrdering
<1> QED BY <1>4, <1>5

\* Spending a cookie leaves the others.
LEMMA ProtectFacts ==
    ASSUME NEW cookies, IsSeq(cookies), cookies # <<>>
    PROVE  LET sealed == Protect(cookies)
           IN  /\ IsSeq(sealed.rest) /\ ToSet(sealed.rest) \subseteq ToSet(cookies)
               /\ Message(sealed.request) /\ sealed.request.ours
               /\ sealed.request.type = "request"
               /\ CookiesOf(sealed.request) \subseteq ToSet(cookies)
<1> DEFINE S == ToSet(cookies)
           rest == Tail(cookies)
<1>1. cookies \in Seq(S) /\ \A i \in 1..Len(cookies) : cookies[i] \in S
  BY DEF IsSeq, ToSet
<1>2. rest \in Seq(S) /\ Len(rest) \in Nat /\ Head(cookies) \in S
  BY <1>1
<1> HIDE DEF S, rest
<1>3. ToSet(rest) \subseteq S /\ IsSeq(rest)
  BY <1>2 DEF ToSet, IsSeq
<1>4. Wanted(rest) \in Nat
  BY <1>2 DEF Wanted, AtMost
<1>5. Protect(cookies) = [rest |-> rest, request |->
          [type |-> "request", cookie |-> Head(cookies), want |-> Wanted(rest), ours |-> TRUE]]
  BY DEF Protect, rest
<1> DEFINE request == Protect(cookies).request
<1>6. Protect(cookies).rest = rest /\ request =
        [type |-> "request", cookie |-> Head(cookies), want |-> Wanted(rest), ours |-> TRUE]
  BY <1>5
<1> HIDE DEF request
<1>7. /\ request.type = "request" /\ request.ours = TRUE /\ request.want = Wanted(rest)
      /\ request.cookie = Head(cookies)
  BY <1>6
<1>8. Message(request)
  BY <1>4, <1>6, <1>7 DEF Message
<1>9. CookiesOf(request) \subseteq S
  BY <1>2, <1>7 DEF CookiesOf
<1> QED BY <1>3, <1>6, <1>7, <1>8, <1>9 DEF S, request

\* Banking adds cookies of the reply, and no others.
LEMMA BankFacts ==
    ASSUME NEW cookies, NEW fresh, IsSeq(cookies), IsSeq(fresh)
    PROVE  IsSeq(Bank(cookies, fresh)) /\ ToSet(Bank(cookies, fresh)) \subseteq ToSet(cookies) \cup ToSet(fresh)
<1> DEFINE S == ToSet(cookies) \cup ToSet(fresh)
           room == IF Len(cookies) < 2 * Target THEN 2 * Target - Len(cookies) ELSE 0
           n == AtMost(Len(fresh), room)
<1>1. cookies \in Seq(S) /\ fresh \in Seq(S)
  BY DEF IsSeq
<1>2. room \in Nat
  BY <1>1
<1>3. n \in 0..Len(fresh)
  <2> HIDE DEF room
  <2> QED BY <1>1, <1>2 DEF AtMost
<1> HIDE DEF S, room, n
<1>4. SubSeq(fresh, 1, n) \in Seq(S)
  BY <1>1, <1>3, SubSeqProperties
<1>5. cookies \o SubSeq(fresh, 1, n) \in Seq(S)
  BY <1>1, <1>4
<1>6. Bank(cookies, fresh) = cookies \o SubSeq(fresh, 1, n)
  BY DEF Bank, n, room
<1>7. ASSUME NEW s \in Seq(S) PROVE IsSeq(s) /\ ToSet(s) \subseteq S
  BY DEF IsSeq, ToSet
<1> QED BY <1>5, <1>6, <1>7 DEF S

\* New cookies are of the key in the ring, and kept if that is.
LEMMA MintFacts ==
    ASSUME NEW n \in Nat
    PROVE  /\ IsSeq(Mint(n)) /\ (n # 0 => Mint(n) # <<>>)
           /\ \A c \in ToSet(Mint(n)) : c.master = ring /\ c.kept = stateful
<1> DEFINE s == Mint(n)
<1>1. DOMAIN s = 1..n /\ \A i \in 1..n : s[i].master = ring /\ s[i].kept = stateful
  BY DEF Mint
<1>2. s \in Seq(ToSet(s)) /\ Len(s) = n
  <2>1. s = [i \in 1..n |-> s[i]] /\ \A i \in 1..n : s[i] \in ToSet(s)
    BY <1>1 DEF ToSet, Mint
  <2> HIDE DEF s
  <2>2. s \in [1..n -> ToSet(s)]
    BY <2>1
  <2> QED BY <2>2
<1> HIDE DEF s
<1>3. n # 0 => s # <<>>
  BY <1>2
<1> QED BY <1>1, <1>2, <1>3 DEF IsSeq, ToSet, s

\* The places of a store that a run reads: those that precede the first entry that is
\* retired or was never written.
ReadableAt(slots) == {k \in 1..Slots : \A j \in 1..k : Live(slots[j])}

LEMMA GetIsReadable ==
    ASSUME NEW slots
    PROVE  LET s == GetCookies(slots)
           IN  /\ Len(s) \in 0..Slots /\ DOMAIN s = 1..Len(s)
               /\ ReadableAt(slots) = 1..Len(s)
               /\ \A i \in 1..Len(s) : s[i] = slots[i]
<1> DEFINE ends == {i \in 1..Slots : ~ Live(slots[i])}
           n == IF ends = {} THEN Slots ELSE Min(ends) - 1
           s == GetCookies(slots)
<1>1. n \in 0..Slots /\ \A k \in 1..Slots : k <= n <=> \A j \in 1..k : Live(slots[j])
  <2>1. CASE ends = {}
    BY <2>1
  <2>2. CASE ends # {}
    <3>1. ends \in SUBSET Nat
      OBVIOUS
    <3>2. Min(ends) \in ends /\ \A k \in ends : Min(ends) <= k
      BY <2>2, <3>1, LeastOf DEF Min
    <3>3. n = Min(ends) - 1
      BY <2>2
    <3>4. Min(ends) \in 1..Slots
      BY <3>2
    <3>5. ASSUME NEW k \in 1..Slots PROVE k <= n <=> \A j \in 1..k : Live(slots[j])
      <4>1. CASE k < Min(ends)
        <5>1. \A j \in 1..k : j \notin ends
          BY <3>2, <3>4, <4>1
        <5> QED BY <3>3, <3>4, <4>1, <5>1
      <4>2. CASE ~ (k < Min(ends))
        <5>1. Min(ends) \in 1..k /\ ~ Live(slots[Min(ends)])
          BY <3>2, <3>4, <4>2
        <5> QED BY <3>3, <3>4, <4>2, <5>1
      <4> QED BY <4>1, <4>2
    <3> QED BY <3>3, <3>4, <3>5
  <2> QED BY <2>1, <2>2
<1>2. s = [i \in 1..n |-> slots[i]]
  BY DEF GetCookies
<1> HIDE DEF n, s
<1>3. Len(s) = n /\ DOMAIN s = 1..n /\ \A i \in 1..n : s[i] = slots[i]
  BY <1>1, <1>2
<1>4. ReadableAt(slots) = 1..n
  BY <1>1 DEF ReadableAt
<1> QED BY <1>1, <1>3, <1>4 DEF s

LEMMA GetFacts ==
    ASSUME NEW slots
    PROVE  /\ ToSet(GetCookies(slots)) = Readable(slots) /\ IsSeq(GetCookies(slots))
           /\ Readable(slots) \subseteq LiveIn(slots)
<1> DEFINE s == GetCookies(slots)
           n == Len(s)
<1>1. n \in 0..Slots /\ DOMAIN s = 1..n /\ \A i \in 1..n : s[i] = slots[i]
  BY GetIsReadable
<1>2. s = [i \in 1..n |-> slots[i]]
  <2>1. \E m : s = [i \in 1..m |-> slots[i]]
    BY DEF GetCookies
  <2> QED BY <1>1, <2>1
<1>3. Readable(slots) = {slots[i] : i \in 1..n}
  BY GetIsReadable DEF Readable, ReadableAt
<1> HIDE DEF n, s
<1>4. ToSet(s) = {slots[i] : i \in 1..n}
  BY <1>1 DEF ToSet
<1>5. s \in [1..n -> ToSet(s)]
  BY <1>2, <1>4
<1>6. IsSeq(s)
  BY <1>1, <1>5 DEF IsSeq
<1>7. Readable(slots) \subseteq LiveIn(slots)
  <2>1. ASSUME NEW k \in 1..Slots, \A j \in 1..k : Live(slots[j]) PROVE Live(slots[k])
    BY <2>1
  <2> QED BY <2>1 DEF Readable, LiveIn
<1> QED BY <1>3, <1>4, <1>6, <1>7 DEF s

\* Of a store that was saved to, the jar that was saved is read, and nothing of the one
\* before.
LEMMA PutFacts ==
    ASSUME NEW slots, NEW cookies, IsSeq(cookies)
    PROVE  LET saved == PutCookies(slots, cookies)
           IN  /\ DOMAIN saved = 1..Slots
               /\ Readable(saved) \subseteq ToSet(cookies)
               /\ LiveIn(saved) \subseteq ToSet(cookies) \cup LiveIn(slots)
               /\ \A i \in ReadableAt(saved) : i \in 1..Len(cookies) /\ saved[i] = cookies[i]
<1> DEFINE saved == PutCookies(slots, cookies)
           Walked(i) == \A j \in Len(cookies) + 1 .. i : Live(slots[j])
<1>1. Len(cookies) \in Nat /\ \A i \in 1..Len(cookies) : cookies[i] \in ToSet(cookies)
  BY DEF IsSeq, ToSet
<1>2. DOMAIN saved = 1..Slots
  BY DEF PutCookies
<1>3. ASSUME NEW i \in 1..Slots
      PROVE  /\ i <= Len(cookies) => saved[i] = cookies[i]
             /\ i > Len(cookies) /\ Walked(i) => saved[i] = Tombstone
             /\ i > Len(cookies) /\ ~ Walked(i) => saved[i] = slots[i]
  BY <1>1 DEF PutCookies
<1> HIDE DEF saved
<1>4. ASSUME NEW i \in 1..Slots, Live(saved[i])
      PROVE  saved[i] \in ToSet(cookies) \cup LiveIn(slots)
  <2>1. CASE i <= Len(cookies)
    BY <1>1, <1>3, <2>1
  <2>2. CASE i > Len(cookies)
    BY <1>3, <1>4, <2>2 DEF Live, LiveIn
  <2> QED BY <1>1, <2>1, <2>2
<1>5. ASSUME NEW i \in 1..Slots, \A j \in 1..i : Live(saved[j])
      PROVE  i \in 1..Len(cookies) /\ saved[i] = cookies[i]
  <2>1. CASE i <= Len(cookies)
    BY <1>1, <1>3, <2>1
  <2>2. CASE i > Len(cookies)
    <3> DEFINE k == Len(cookies) + 1
    <3>1. k \in 1..i /\ k \in 1..Slots /\ k > Len(cookies)
      BY <1>1, <2>2
    <3>2. Live(saved[k])
      BY <1>5, <3>1
    <3>3. Walked(k) <=> Live(slots[k])
      BY <1>1
    <3> HIDE DEF k, Walked
    <3>4. Walked(k) => ~ Live(saved[k])
      BY <1>3, <3>1 DEF Live
    <3>5. ~ Walked(k) => saved[k] = slots[k]
      BY <1>3, <3>1
    <3> QED BY <3>2, <3>3, <3>4, <3>5
  <2> QED BY <1>1, <2>1, <2>2
<1>6. \A i \in ReadableAt(saved) : i \in 1..Len(cookies) /\ saved[i] = cookies[i]
  BY <1>5 DEF ReadableAt
<1> QED BY <1>1, <1>2, <1>4, <1>5, <1>6 DEF Readable, LiveIn, saved

\* A datagram of an earlier exchange keeps its cookies.
LEMMA MutedFacts ==
    ASSUME NEW m, Message(m)
    PROVE  LET old == [m EXCEPT !.ours = FALSE]
           IN  Message(old) /\ ~ old.ours /\ CookiesOf(old) = CookiesOf(m)
<1> DEFINE old == [m EXCEPT !.ours = FALSE]
<1>1. DOMAIN old = DOMAIN m /\ \A f \in DOMAIN m : old[f] = IF f = "ours" THEN FALSE ELSE m[f]
  OBVIOUS
<1>2. {"type", "ours"} \subseteq DOMAIN m
  BY DEF Message
<1> HIDE DEF old
<1>3. old.type = m.type /\ old.ours = FALSE
  BY <1>1, <1>2
<1>4. CASE m.type = "request"
  <2>1. m.want \in Nat /\ DOMAIN m = {"type", "cookie", "want", "ours"}
    BY <1>4 DEF Message
  <2>2. old.cookie = m.cookie /\ old.want = m.want
    BY <1>1, <2>1
  <2> QED BY <1>1, <1>3, <1>4, <2>1, <2>2 DEF Message, CookiesOf, old
<1>5. CASE m.type = "reply"
  <2>1. IsSeq(m.cookies) /\ DOMAIN m = {"type", "ours", "cookies"}
    BY <1>5 DEF Message
  <2>2. old.cookies = m.cookies
    BY <1>1, <2>1
  <2> QED BY <1>1, <1>3, <1>5, <2>1, <2>2 DEF Message, CookiesOf, old
<1>6. CASE m.type = "nak"
  <2>1. DOMAIN m = {"type", "ours"}
    BY <1>6 DEF Message
  <2> QED BY <1>1, <1>3, <1>6, <2>1 DEF Message, CookiesOf, old
<1> QED BY <1>4, <1>5, <1>6 DEF Message

LEMMA InFlightFacts ==
    ASSUME NEW msgs, NEW others
    PROVE  /\ msgs \subseteq others => InFlight(msgs) \subseteq InFlight(others)
           /\ InFlight(msgs \cup others) = InFlight(msgs) \cup InFlight(others)
           /\ InFlight({}) = {}
           /\ \A m \in msgs : CookiesOf(m) \subseteq InFlight(msgs)
           /\ \A m : InFlight({m}) = CookiesOf(m)
BY DEF InFlight

-----------------------------------------------------------------------------
(* The steps.                                                              *)

LEMMA InitInv == Init => Inv
<1> SUFFICES ASSUME Init PROVE Inv
  OBVIOUS
<1>1. jar = <<>> /\ net = {} /\ DOMAIN disk = 1..Slots /\ \A i \in 1..Slots : disk[i] = None
  BY DEF Init
<1>2. ToSet(jar) = {} /\ InFlight(net) = {} /\ Ours = {} /\ InFlight(Ours) = {}
  BY <1>1, NoCookies, InFlightFacts DEF Ours
<1>3. LiveIn(disk) = {} /\ Readable(disk) = {}
  <2>1. \A i \in 1..Slots : ~ Live(disk[i])
    BY <1>1 DEF Live
  <2> QED BY <2>1, GetFacts DEF LiveIn
<1>4. TypeInv
  BY <1>1, NoCookies DEF Init, TypeInv
<1>5. Session = {} /\ Anywhere = {}
  BY <1>2, <1>3 DEF Session, Anywhere
<1>6. KeyInv
  <2>1. up = ~ stateful /\ store = 0 /\ stateful \in BOOLEAN
    BY DEF Init
  <2> QED BY <1>5, <2>1 DEF KeyInv
<1>7. JarInv
  BY <1>1, <1>3, <1>5 DEF JarInv
<1>8. NakInv
  BY <1>2 DEF Init, NakInv, Refusable
<1> QED BY <1>4, <1>6, <1>7, <1>8 DEF Inv

\* What a request takes along, and what is about of earlier exchanges.
LEMMA SendFacts ==
    ASSUME TypeInv, NEW cookies, IsSeq(cookies), cookies # <<>>, Send(Protect(cookies))
    PROVE  /\ IsSeq(jar') /\ ToSet(jar') \subseteq ToSet(cookies) /\ pc' = "sent"
           /\ \A m \in net' : Message(m)
           /\ InFlight(net') \subseteq InFlight(net) \cup ToSet(cookies)
           /\ InFlight(Ours') \subseteq ToSet(cookies)
           /\ \A m \in Ours' : m.type = "request"
<1> DEFINE request == Protect(cookies).request
<1>1. PICK old \in SUBSET Stale : net' = old \cup {request}
  BY DEF Send
<1>2. jar' = Protect(cookies).rest /\ pc' = "sent"
  BY DEF Send
<1>3. /\ IsSeq(jar') /\ ToSet(jar') \subseteq ToSet(cookies)
      /\ Message(request) /\ request.type = "request" /\ CookiesOf(request) \subseteq ToSet(cookies)
  BY <1>2, ProtectFacts
<1> HIDE DEF request
<1>4. ASSUME NEW m \in old
      PROVE  Message(m) /\ ~ m.ours /\ CookiesOf(m) \subseteq InFlight(net)
  <2>1. PICK n \in net : m = [n EXCEPT !.ours = FALSE]
    BY DEF Stale
  <2>2. Message(n)
    BY DEF TypeInv
  <2>3. Message(m) /\ ~ m.ours /\ CookiesOf(m) = CookiesOf(n)
    BY <2>1, <2>2, MutedFacts
  <2> QED BY <2>3, InFlightFacts
<1>5. \A m \in net' : Message(m)
  BY <1>1, <1>3, <1>4
<1>6. InFlight(old) \subseteq InFlight(net)
  BY <1>4 DEF InFlight
<1>7. InFlight(net') \subseteq InFlight(net) \cup ToSet(cookies)
  <2>1. InFlight(net') = InFlight(old) \cup CookiesOf(request)
    BY <1>1, InFlightFacts
  <2> QED BY <1>3, <1>6, <2>1
<1>8. Ours' \subseteq {request}
  BY <1>1, <1>4 DEF Ours
<1>9. InFlight(Ours') \subseteq CookiesOf(request)
  BY <1>8, InFlightFacts
<1> QED BY <1>2, <1>3, <1>5, <1>7, <1>8, <1>9

\* A request goes out with a cookie of the jar or, when that is empty, of one that a
\* handshake has filled.
LEMMA SendStep ==
    ASSUME Inv, NEW cookies, IsSeq(cookies), cookies # <<>>, Send(Protect(cookies)),
           cookies = jar \/ (up /\ cookies = Mint(KeCookies)),
           UNCHANGED <<kind, server, disk, naks>>
    PROVE  Inv'
<1> USE DEF Inv
<1>1. /\ IsSeq(jar') /\ ToSet(jar') \subseteq ToSet(cookies) /\ pc' = "sent"
      /\ \A m \in net' : Message(m)
      /\ InFlight(net') \subseteq InFlight(net) \cup ToSet(cookies)
      /\ InFlight(Ours') \subseteq ToSet(cookies)
      /\ \A m \in Ours' : m.type = "request"
  BY SendFacts
<1>2. UNCHANGED <<kind, ring, stateful, up, store, masters, changes, disk, naks>>
  BY DEF server
<1>3. \A c \in ToSet(cookies) : c \in ToSet(jar) \/ (up /\ c.master = ring /\ c.kept = stateful)
  BY MintFacts
<1>4. \A c, d \in ToSet(cookies) : c.master = d.master
  <2>1. CASE cookies = jar
    BY <2>1 DEF JarInv, Session
  <2>2. CASE cookies = Mint(KeCookies)
    BY <2>2, MintFacts
  <2> QED BY <2>1, <2>2
<1>5. TypeInv'
  BY <1>1, <1>2 DEF TypeInv
<1>6. KeyInv'
  <2>1. Anywhere' \subseteq Anywhere \cup ToSet(cookies)
    BY <1>1, <1>2 DEF Anywhere
  <2>2. ASSUME NEW c \in ToSet(cookies), c.kept PROVE c.master = store /\ store # 0
    BY <1>3, <2>2 DEF KeyInv, Anywhere, TypeInv
  <2>3. \A c \in Anywhere' : c.kept => c.master = store /\ store # 0
    BY <2>1, <2>2 DEF KeyInv
  <2> QED BY <1>2, <2>3 DEF KeyInv
<1>7. JarInv'
  <2>1. Session' \subseteq ToSet(cookies)
    BY <1>1 DEF Session
  <2> QED BY <1>1, <1>2, <1>4, <2>1 DEF JarInv
<1>8. NakInv'
  <2>1. ASSUME Refusable' PROVE \E c \in ToSet(jar) : c.master # ring
    <3>1. PICK c \in ToSet(cookies) : c.master # ring
      BY <1>1, <1>2, <2>1 DEF Refusable
    <3> QED BY <1>3, <3>1
  <2> QED BY <1>2, <2>1 DEF NakInv, Refusable
<1> QED BY <1>5, <1>6, <1>7, <1>8

\* The end of an exchange, by an answer or without one.
LEMMA ExchangeStep == ASSUME Inv, AcceptReply \/ AcceptNak \/ Timeout PROVE Inv'
<1> USE DEF Inv
<1>1. /\ pc = "sent" /\ pc' = (IF kind = "sync" THEN "idle" ELSE "ready")
      /\ UNCHANGED <<kind, ring, stateful, up, store, masters, changes, disk, net>>
  BY DEF AcceptReply, AcceptNak, Timeout, EndOfExchange, server
<1>2. /\ IsSeq(jar') /\ ToSet(jar') \subseteq Session
      /\ naks' = naks \/ /\ kind = "sync" /\ Refusable /\ naks' = naks + 1 /\ jar' = <<>>
  <2>1. CASE AcceptReply
    <3>1. PICK m \in net : m.type = "reply" /\ m.ours /\ jar' = Bank(jar, m.cookies)
      BY <2>1 DEF AcceptReply
    <3>2. IsSeq(m.cookies) /\ ToSet(m.cookies) \subseteq InFlight(Ours)
      <4>1. m \in Ours /\ CookiesOf(m) = ToSet(m.cookies)
        BY <3>1 DEF Ours, CookiesOf
      <4> QED BY <3>1, <4>1, InFlightFacts DEF TypeInv, Message
    <3>3. IsSeq(jar') /\ ToSet(jar') \subseteq ToSet(jar) \cup ToSet(m.cookies)
      BY <3>1, <3>2, BankFacts DEF TypeInv
    <3> QED BY <2>1, <3>2, <3>3 DEF AcceptReply, history, Session
  <2>2. CASE AcceptNak
    <3>1. Refusable
      BY <1>1, <2>2 DEF AcceptNak, Refusable, Ours
    <3> QED BY <2>2, <3>1, NoCookies DEF AcceptNak, Session, TypeInv
  <2>3. CASE Timeout
    BY <2>3 DEF Timeout, history, Session, TypeInv
  <2> QED BY <2>1, <2>2, <2>3
<1>3. Session \subseteq Anywhere /\ Session' \subseteq Session /\ Anywhere' \subseteq Anywhere
  <2>1. Ours' = Ours /\ InFlight(Ours) \subseteq InFlight(net)
    BY <1>1, InFlightFacts DEF Ours
  <2> QED BY <1>1, <1>2, <2>1 DEF Session, Anywhere
<1>4. TypeInv'
  BY <1>1, <1>2 DEF TypeInv
<1>5. KeyInv' /\ JarInv'
  BY <1>1, <1>3 DEF KeyInv, JarInv, TypeInv
<1>6. NakInv'
  <2>1. Refusable' => Refusable /\ jar' # <<>>
    <3>1. SUFFICES ASSUME Refusable' PROVE Refusable /\ jar' # <<>>
      OBVIOUS
    <3>2. PICK c \in ToSet(jar') : c.master # ring
      BY <1>1, <3>1 DEF Refusable
    <3> QED BY <1>1, <1>2, <3>2, NoCookies DEF Refusable, Session
  <2> QED BY <1>1, <1>2, <2>1 DEF NakInv, TypeInv
<1> QED BY <1>4, <1>5, <1>6

\* A run of the query, from what it reads to what it saves, if it gets that far.
LEMMA QueryStep ==
    ASSUME Inv, StartQuery \/ NextAddress \/ SaveQuery \/ Exhausted \/ Abandon
    PROVE  Inv'
<1> USE DEF Inv
<1>1. kind = "query" /\ UNCHANGED <<kind, ring, stateful, up, store, masters, changes, naks>>
  BY DEF StartQuery, NextAddress, SaveQuery, Exhausted, Abandon, EndQuery, server, history
<1>2. NakInv'
  BY <1>1 DEF NakInv
<1>3. CASE StartQuery
  <2>1. net = {} /\ UNCHANGED <<net, disk>> /\ pc' = "ready"
    BY <1>3 DEF StartQuery, JarInv
  <2>2. Ours' = {} /\ InFlight(net') = {} /\ InFlight(Ours') = {}
    BY <2>1, InFlightFacts DEF Ours
  <2>3. /\ IsSeq(jar') /\ \A c, d \in ToSet(jar') : c.master = d.master
        /\ \A c \in ToSet(jar') : c \in LiveIn(disk) \/ (up /\ c.master = ring /\ c.kept = stateful)
    <3>1. CASE jar' = GetCookies(disk)
      BY <3>1, GetFacts DEF JarInv
    <3>2. CASE up /\ jar' = Mint(KeCookies)
      BY <3>2, MintFacts
    <3> QED BY <1>3, <3>1, <3>2 DEF StartQuery, KeyEstablishment
  <2>4. TypeInv'
    BY <1>1, <2>1, <2>3 DEF TypeInv
  <2>5. KeyInv'
    <3>1. \A c \in Anywhere' : c \in Anywhere \/ (up /\ c.master = ring /\ c.kept = stateful)
      BY <2>1, <2>2, <2>3 DEF Anywhere
    <3> QED BY <1>1, <3>1 DEF KeyInv, TypeInv
  <2>6. JarInv'
    BY <2>1, <2>2, <2>3 DEF JarInv, Session
  <2> QED BY <1>2, <2>4, <2>5, <2>6
<1>4. CASE NextAddress
  <2>1. net' = {} /\ UNCHANGED <<jar, disk>> /\ pc' = "ready"
    BY <1>4 DEF NextAddress
  <2>2. Ours' = {} /\ InFlight(net') = {} /\ InFlight(Ours') = {}
    BY <2>1, InFlightFacts DEF Ours
  <2>3. Anywhere' \subseteq Anywhere /\ Session' \subseteq Session
    BY <2>1, <2>2 DEF Anywhere, Session
  <2> QED BY <1>1, <1>2, <2>1, <2>3 DEF TypeInv, KeyInv, JarInv
<1>5. CASE SaveQuery \/ Exhausted \/ Abandon
  <2>1. net' = {} /\ jar' = <<>> /\ pc' = "idle"
    BY <1>5 DEF SaveQuery, Exhausted, Abandon, EndQuery
  <2>2. Ours' = {} /\ InFlight(net') = {} /\ InFlight(Ours') = {} /\ ToSet(jar') = {} /\ IsSeq(jar')
    BY <2>1, InFlightFacts, NoCookies DEF Ours
  <2>3. /\ DOMAIN disk' = 1..Slots
        /\ LiveIn(disk') \subseteq ToSet(jar) \cup LiveIn(disk)
        /\ \A c, d \in Readable(disk') : c.master = d.master
    <3>1. CASE SaveQuery
      BY <3>1, PutFacts DEF SaveQuery, TypeInv, JarInv, Session
    <3>2. CASE UNCHANGED disk
      BY <3>2 DEF TypeInv, JarInv
    <3> QED BY <1>5, <3>1, <3>2 DEF Exhausted, Abandon
  <2>4. TypeInv'
    BY <1>1, <2>1, <2>2, <2>3 DEF TypeInv
  <2>5. KeyInv'
    <3>1. Anywhere' \subseteq Anywhere
      BY <2>2, <2>3 DEF Anywhere
    <3> QED BY <1>1, <3>1 DEF KeyInv
  <2>6. JarInv'
    BY <2>1, <2>2, <2>3 DEF JarInv, Session
  <2> QED BY <1>2, <2>4, <2>5, <2>6
<1> QED BY <1>3, <1>4, <1>5

\* The server redeems a cookie with cookies of the same key, or refuses it.
LEMMA AnswerStep == ASSUME Inv, Answer PROVE Inv'
<1> USE DEF Inv
<1>1. up /\ UNCHANGED <<kind, ring, stateful, up, store, masters, changes, jar, disk, pc, naks>>
  BY DEF Answer, server, history
<1> DEFINE Reply(m) == IF m.cookie.master = ring
                       THEN [type |-> "reply", ours |-> m.ours,
                             cookies |-> Mint(AtMost(1 + m.want, ReplyCap))]
                       ELSE [type |-> "nak", ours |-> m.ours]
<1>2. PICK m \in net : m.type = "request" /\ net' = (net \ {m}) \cup {Reply(m)}
  BY DEF Answer
<1>3. m.want \in Nat /\ m.ours \in BOOLEAN
  BY <1>2 DEF TypeInv, Message
<1> DEFINE answer == Reply(m)
<1>4. /\ Message(answer) /\ answer.ours = m.ours
      /\ \A c \in CookiesOf(answer) : c.master = ring /\ c.kept = stateful
      /\ CookiesOf(answer) # {} \/ answer.type = "reply" => m.cookie.master = ring
      /\ answer.type = "nak" => m.cookie.master # ring
  <2> DEFINE n == AtMost(1 + m.want, ReplyCap)
             fresh == Mint(n)
  <2>1. n \in Nat
    BY <1>3 DEF AtMost
  <2> HIDE DEF n
  <2>2. IsSeq(fresh) /\ \A c \in ToSet(fresh) : c.master = ring /\ c.kept = stateful
    BY <2>1, MintFacts
  <2> HIDE DEF fresh
  <2>3. CASE m.cookie.master = ring
    <3>1. answer = [type |-> "reply", ours |-> m.ours, cookies |-> fresh]
      BY <2>3 DEF n, fresh
    <3> HIDE DEF answer
    <3>2. answer.type = "reply" /\ answer.ours = m.ours /\ answer.cookies = fresh
          /\ DOMAIN answer = {"type", "ours", "cookies"}
      BY <3>1
    <3> QED BY <1>3, <2>2, <2>3, <3>2 DEF Message, CookiesOf
  <2>4. CASE m.cookie.master # ring
    <3>1. answer = [type |-> "nak", ours |-> m.ours]
      BY <2>4
    <3> HIDE DEF answer
    <3>2. answer.type = "nak" /\ answer.ours = m.ours /\ DOMAIN answer = {"type", "ours"}
      BY <3>1
    <3> QED BY <1>3, <2>4, <3>2 DEF Message, CookiesOf
  <2> QED BY <2>3, <2>4
<1>5. net' = (net \ {m}) \cup {answer}
  BY <1>2
<1> HIDE DEF Reply, answer
<1>6. TypeInv'
  BY <1>1, <1>4, <1>5 DEF TypeInv
<1>7. \A c \in InFlight(net') : c \in InFlight(net) \/ (c.master = ring /\ c.kept = stateful)
  <2>1. InFlight(net') = InFlight(net \ {m}) \cup CookiesOf(answer)
    BY <1>5 DEF InFlight
  <2>2. InFlight(net \ {m}) \subseteq InFlight(net)
    BY InFlightFacts
  <2> QED BY <1>4, <2>1, <2>2
<1>8. KeyInv'
  <2>1. \A c \in Anywhere' : c \in Anywhere \/ (up /\ c.master = ring /\ c.kept = stateful)
    BY <1>1, <1>7 DEF Anywhere
  <2> QED BY <1>1, <2>1 DEF KeyInv, TypeInv
\* The exchange in progress is brought cookies of the key of the one it spent.
<1>9. CookiesOf(m) = {m.cookie} /\ (m.ours => m \in Ours /\ m.cookie \in InFlight(Ours))
  <2>1. CookiesOf(m) = {m.cookie}
    BY <1>2 DEF CookiesOf
  <2> QED BY <2>1, InFlightFacts DEF Ours
<1>10. \A c \in InFlight(Ours') : \/ c \in InFlight(Ours)
                                  \/ m.ours /\ m.cookie.master = ring /\ c.master = ring
  <2>1. Ours' \subseteq Ours \cup (IF m.ours THEN {answer} ELSE {})
    BY <1>4, <1>5 DEF Ours
  <2>2. CASE m.ours
    <3>1. InFlight(Ours') \subseteq InFlight(Ours) \cup CookiesOf(answer)
      BY <2>1, <2>2, InFlightFacts DEF InFlight
    <3> QED BY <1>4, <2>2, <3>1
  <2>3. CASE ~ m.ours
    BY <2>1, <2>3, InFlightFacts
  <2> QED BY <2>2, <2>3
<1>11. JarInv'
  <2>1. \A c \in Session' : \E d \in Session : c.master = d.master
    BY <1>1, <1>9, <1>10 DEF Session
  <2>2. ~ (kind = "query" /\ pc = "idle")
    BY <1>2 DEF JarInv
  <2> QED BY <1>1, <2>1, <2>2 DEF JarInv
<1>12. NakInv'
  <2>1. ASSUME Refusable' PROVE Refusable
    <3>1. CASE \E c \in ToSet(jar) : c.master # ring
      BY <3>1 DEF Refusable
    <3>2. CASE pc = "sent" /\ \E c \in InFlight(Ours') : c.master # ring
      BY <1>10, <3>2 DEF Refusable
    <3>3. CASE pc = "sent" /\ \E n \in Ours' : n.type = "nak"
      <4>1. PICK n \in Ours' : n.type = "nak"
        BY <3>3
      <4>2. n \in Ours \/ (n = answer /\ m.ours)
        BY <1>4, <1>5 DEF Ours
      <4> QED BY <1>4, <1>9, <3>3, <4>1, <4>2 DEF Refusable
    <3> QED BY <1>1, <2>1, <3>1, <3>2, <3>3 DEF Refusable
  <2> QED BY <1>1, <2>1 DEF NakInv
<1> QED BY <1>6, <1>8, <1>11, <1>12

\* The server starts again, with its state or without, and saves a key it made for it.
LEMMA ServerStep == ASSUME Inv, Restart \/ SaveRing PROVE Inv'
<1> USE DEF Inv
<1>1. /\ UNCHANGED <<kind, jar, disk, pc, net, naks>>
  BY DEF Restart, SaveRing, history
<1>2. /\ Ours' = Ours /\ Session' = Session /\ Anywhere' = Anywhere
      /\ Readable(disk') = Readable(disk)
  BY <1>1 DEF Ours, Session, Anywhere
<1>3. CASE Restart
  <2>1. PICK keep \in BOOLEAN :
            /\ stateful' = keep /\ store' = store
            /\ ring' = (IF ~ (keep /\ store # 0) THEN masters + 1 ELSE store)
            /\ masters' = (IF ~ (keep /\ store # 0) THEN masters + 1 ELSE masters)
            /\ changes' = (IF ring' # ring THEN changes + 1 ELSE changes)
            /\ up' = (keep => keep /\ store # 0)
    BY <1>3 DEF Restart
  <2>2. TypeInv'
    BY <1>1, <2>1 DEF TypeInv
  <2>3. KeyInv'
    BY <1>2, <2>1 DEF KeyInv, TypeInv
  <2>4. NakInv'
    <3>1. changes \in Nat /\ naks \in Nat
      BY DEF TypeInv
    <3>2. CASE ring' = ring
      <4>1. Refusable' = Refusable
        BY <1>1, <1>2, <3>2 DEF Refusable
      <4> QED BY <1>1, <2>1, <3>2, <4>1 DEF NakInv
    <3>3. CASE ring' # ring
      BY <1>1, <2>1, <3>1, <3>3 DEF NakInv
    <3> QED BY <3>2, <3>3
  <2> QED BY <1>1, <1>2, <2>2, <2>3, <2>4 DEF JarInv
<1>4. CASE SaveRing
  <2>1. ~ up /\ up' /\ store' = ring /\ UNCHANGED <<ring, stateful, masters, changes>>
    BY <1>4 DEF SaveRing
  <2>2. up' \in BOOLEAN
    BY <1>4 DEF SaveRing
  <2>3. TypeInv'
    BY <1>1, <2>1, <2>2 DEF TypeInv
  <2>4. \A c \in Anywhere : ~ c.kept
    BY <2>1 DEF KeyInv
  <2>5. KeyInv'
    BY <1>2, <2>1, <2>4 DEF KeyInv
  <2>6. NakInv'
    BY <1>1, <1>2, <2>1 DEF NakInv, Refusable
  <2> QED BY <1>1, <1>2, <2>3, <2>5, <2>6 DEF JarInv
<1> QED BY <1>3, <1>4

LEMMA StepInv == Inv /\ [Next]_vars => Inv'
<1> SUFFICES ASSUME Inv, [Next]_vars PROVE Inv'
  OBVIOUS
<1>1. CASE Poll \/ Ask
  <2>1. IsSeq(jar) /\ jar # <<>> /\ Send(Protect(jar)) /\ UNCHANGED <<kind, server, disk, naks>>
    BY <1>1 DEF Poll, Ask, Inv, TypeInv
  <2> QED BY <2>1, SendStep
<1>2. CASE Renew
  <2> DEFINE cookies == Mint(KeCookies)
  <2>1. up /\ Send(Protect(cookies)) /\ UNCHANGED <<kind, server, disk, naks>>
    BY <1>2 DEF Renew, KeyEstablishment
  <2>2. IsSeq(cookies) /\ cookies # <<>>
    BY MintFacts
  <2> QED BY <2>1, <2>2, SendStep
<1>3. CASE UNCHANGED vars
  <2>1. UNCHANGED <<kind, ring, stateful, up, store, masters, changes, jar, disk, pc, net, naks>>
    BY <1>3 DEF vars, server, history
  <2>2. Ours' = Ours /\ Session' = Session /\ Anywhere' = Anywhere
    BY <2>1 DEF Ours, Session, Anywhere
  <2> QED BY <2>1, <2>2 DEF Inv, TypeInv, KeyInv, JarInv, NakInv, Refusable
<1> QED BY <1>1, <1>2, <1>3, ExchangeStep, QueryStep, AnswerStep, ServerStep DEF Next

LEMMA Invariance == Spec => []Inv
BY InitInv, StepInv, PTL DEF Spec

-----------------------------------------------------------------------------
\* All the cookies of a jar, in memory or as the next run would read it, are of one key,
\* whatever is lost, late or repeated, however often the server changes its key and
\* wherever a run ends (verify, forget_cookies, put_cookies).
THEOREM JarsAreUniform == Spec => []JarIsUniform
<1>1. Inv => JarIsUniform
  <2> SUFFICES ASSUME Inv, NEW cookies \in {jar, GetCookies(disk)},
                      NEW c \in ToSet(cookies), NEW d \in ToSet(cookies)
               PROVE  c.master = d.master
    BY DEF JarIsUniform
  <2>1. CASE cookies = jar
    BY <2>1 DEF Inv, JarInv, Session
  <2>2. CASE cookies = GetCookies(disk)
    BY <2>2, GetFacts DEF Inv, JarInv
  <2> QED BY <2>1, <2>2
<1> QED BY <1>1, Invariance, PTL

\* A change of the server's master key costs the sync loop at most one refused exchange,
\* for jars of any size and any number of late datagrams (renew_nts).
THEOREM OneRefusal == Spec => []OneRefusalPerKeyChange
<1>1. Inv => OneRefusalPerKeyChange
  BY DEF Inv, NakInv, OneRefusalPerKeyChange
<1> QED BY <1>1, Invariance, PTL

\* A server started with its state redeems every cookie it ever minted with it, however
\* often it was killed while starting or run without it in between (load_or_create_ring).
THEOREM StateKeeps == Spec => []StateKeepsCookies
<1>1. Inv => StateKeepsCookies
  <2> SUFFICES ASSUME Inv, up, stateful,
                      NEW c \in ToSet(jar) \cup ToSet(GetCookies(disk)), c.kept
               PROVE  c.master = ring
    BY DEF StateKeepsCookies
  <2>1. c \in Anywhere
    BY GetFacts DEF Anywhere
  <2> QED BY <2>1 DEF Inv, KeyInv
<1> QED BY <1>1, Invariance, PTL

-----------------------------------------------------------------------------
(* A cookie is spent once.  The names of the cookies stand for what the nonces
   of their sealing make different, so there are always enough of them.    *)

NamesLast ==
    /\ jar = <<>> => Cardinality(Unused) >= KeCookies
    /\ (\E m \in net : m.type = "request") => Cardinality(Unused) >= ReplyCap

Distinct(cookies) == \A i, j \in 1..Len(cookies) : cookies[i].id = cookies[j].id => i = j
Unspent(cookies)  == IdsOf(cookies) \cap spent = {}

\* What is on disk is what the run in progress has, as long as it sent nothing.
RunNotBegun == kind = "query" /\ (pc = "idle" \/ (pc = "ready" /\ left = Count /\ addr = 1))

\* As long as every run saves, what was spent is on disk at most, where no run that begins
\* reads it; the cookies of a jar, and of a reply it may yet bank, are different ones.
OnceInv ==
    /\ ~ reused
    /\ left \in 0..Count /\ addr \in Nat \ {0}
    /\ kind = "query" /\ pc = "sent" => left < Count
    /\ lost => spent = {}
    /\ spent \subseteq Held(disk)
    /\ Distinct(jar) /\ Unspent(jar)
    /\ \A i, j \in ReadableAt(disk) : disk[i].id = disk[j].id => i = j
    /\ RunNotBegun => \A i \in ReadableAt(disk) : disk[i].id \notin spent
    /\ pc = "sent" => \A m \in Ours : m.type = "reply" =>
          Distinct(m.cookies) /\ Unspent(m.cookies) /\ IdsOf(m.cookies) \cap IdsOf(jar) = {}

LEMMA FirstNumbers == ASSUME NEW n \in Nat PROVE IsFiniteSet(1..n) /\ Cardinality(1..n) = n
<1>1. Cardinality(1..n) = IF 1 > n THEN 0 ELSE n - 1 + 1
  BY FS_Interval
<1>2. IsFiniteSet(1..n)
  BY FS_Interval
<1> QED BY <1>1, <1>2

\* There is a name at every rank up to the number of them.
LEMMA RankedNames ==
    ASSUME NEW S \in SUBSET Nat, IsFiniteSet(S), NEW i \in 1..Cardinality(S)
    PROVE  \E id \in S : Cardinality({other \in S : other < id}) = i - 1
<1> DEFINE under(k) == {j \in S : j < k}
           rank(k)  == Cardinality(under(k)) + 1
           ranks    == {rank(k) : k \in S}
<1>0. Cardinality(S) \in Nat /\ \A z \in S : z \in Nat
  BY FS_CardinalityType
<1>1. ASSUME NEW k \in S PROVE Cardinality(under(k)) \in Nat /\ rank(k) \in 1..Cardinality(S)
  <2>1. under(k) \subseteq S \ {k}
    OBVIOUS
  <2>2. IsFiniteSet(S \ {k}) /\ Cardinality(S \ {k}) = Cardinality(S) - 1
    BY FS_RemoveElement
  <2> HIDE DEF under
  <2>3. IsFiniteSet(under(k)) /\ Cardinality(under(k)) <= Cardinality(S) - 1
    BY <2>1, <2>2, FS_Subset
  <2>4. Cardinality(under(k)) \in Nat
    BY <2>3, FS_CardinalityType
  <2> QED BY <1>0, <2>3, <2>4
<1>2. ASSUME NEW k \in S, NEW m \in S, k < m PROVE rank(k) # rank(m)
  <2>1. under(k) \subseteq under(m) \ {k} /\ k \in under(m) /\ under(m) \subseteq S
    <3>1. \A j \in S : j < k => j < m /\ j # k
      BY <1>0, <1>2
    <3> QED BY <1>2, <3>1
  <2> HIDE DEF under
  <2>2. IsFiniteSet(under(m))
    BY <2>1, FS_Subset
  <2>3. IsFiniteSet(under(m) \ {k}) /\ Cardinality(under(m) \ {k}) = Cardinality(under(m)) - 1
    BY <2>1, <2>2, FS_RemoveElement
  <2>4. Cardinality(under(k)) <= Cardinality(under(m)) - 1
    BY <2>1, <2>3, FS_Subset
  <2> QED BY <1>1, <2>4
<1> HIDE DEF rank
<1>3. \A k, m \in S : rank(k) = rank(m) => k = m
  <2>1. \A k, m \in S : k < m \/ k = m \/ m < k
    OBVIOUS
  <2> QED BY <1>2, <2>1
<1>4. ExistsBijection(S, ranks)
  <2>1. [k \in S |-> rank(k)] \in Bijection(S, ranks)
    BY <1>3 DEF Bijection, Injection, Surjection, IsInjective
  <2> QED BY <2>1 DEF ExistsBijection
<1>5. IsFiniteSet(ranks) /\ Cardinality(ranks) = Cardinality(S)
  <2> HIDE DEF ranks
  <2> QED BY <1>4, FS_Bijection
<1>6. ranks = 1..Cardinality(S)
  <2> DEFINE n == Cardinality(S)
  <2>1. ranks \subseteq 1..n
    BY <1>1
  <2>2. IsFiniteSet(1..n) /\ Cardinality(1..n) = n
    BY <1>0, FirstNumbers
  <2> HIDE DEF ranks
  <2> QED BY <1>5, <2>1, <2>2, FS_Subset
<1>7. PICK k \in S : rank(k) = i
  BY <1>6
<1>8. Cardinality(under(k)) \in Nat /\ Cardinality(under(k)) + 1 = i
  BY <1>1, <1>7 DEF rank
<1>9. Cardinality(under(k)) = i - 1
  <2> HIDE DEF under
  <2> QED BY <1>8
<1> QED BY <1>9

\* What is minted is new, and no two cookies of it are the same.
LEMMA MintIsNew ==
    ASSUME NEW n \in Nat, n <= Cardinality(Unused)
    PROVE  /\ Distinct(Mint(n)) /\ IdsOf(Mint(n)) \subseteq Unused
<1>1. Unused \in SUBSET Nat /\ IsFiniteSet(Unused)
  <2>1. Unused \subseteq CookieIds
    BY DEF Unused
  <2> QED BY <2>1, FS_Subset
<1>2. Cardinality(Unused) \in Nat
  BY <1>1, FS_CardinalityType
<1>3. ASSUME NEW i \in 1..n
      PROVE  Fresh(i) \in Unused /\ Cardinality({other \in Unused : other < Fresh(i)}) = i - 1
  <2>1. i \in 1..Cardinality(Unused)
    BY <1>2
  <2> DEFINE S == Unused
  <2> HIDE DEF S
  <2>2. S \in SUBSET Nat /\ IsFiniteSet(S) /\ i \in 1..Cardinality(S)
    BY <1>1, <2>1 DEF S
  <2>3. \E id \in S : Cardinality({other \in S : other < id}) = i - 1
    BY <2>2, RankedNames
  <2>4. Fresh(i) = CHOOSE id \in S : Cardinality({other \in S : other < id}) = i - 1
    BY DEF Fresh, S
  <2>5. Fresh(i) \in S /\ Cardinality({other \in S : other < Fresh(i)}) = i - 1
    BY <2>3, <2>4
  <2> QED BY <2>5 DEF S
<1>4. \A i, j \in 1..n : Fresh(i) = Fresh(j) => i = j
  <2> SUFFICES ASSUME NEW i \in 1..n, NEW j \in 1..n, Fresh(i) = Fresh(j) PROVE i = j
    OBVIOUS
  <2>1. i - 1 = j - 1
    BY <1>3
  <2> QED BY <2>1
<1>5. Len(Mint(n)) = n /\ DOMAIN Mint(n) = 1..n /\ \A i \in 1..n : Mint(n)[i].id = Fresh(i)
  BY DEF Mint
<1>6. Distinct(Mint(n))
  BY <1>4, <1>5 DEF Distinct
<1>7. IdsOf(Mint(n)) \subseteq Unused
  BY <1>3, <1>5 DEF IdsOf, ToSet
<1> QED BY <1>6, <1>7

\* The jar a request leaves has the others of the one it was taken from.
LEMMA SendSpends ==
    ASSUME TypeInv, NEW cookies, IsSeq(cookies), cookies # <<>>, Send(Protect(cookies)),
           Distinct(cookies), Unspent(cookies)
    PROVE  /\ (~ reused => ~ reused') /\ pc' = "sent"
           /\ Distinct(jar') /\ Unspent(jar)'
           /\ spent' \subseteq Held(disk) /\ (lost => spent' = {})
           /\ \A m \in Ours' : m.type = "request"
<1> DEFINE id == Head(cookies).id
           rest == Tail(cookies)
<1>1. /\ cookies \in Seq(ToSet(cookies)) /\ Len(cookies) \in Nat \ {0}
      /\ \A i \in 1..Len(cookies) : cookies[i] \in ToSet(cookies)
  BY DEF IsSeq, ToSet
<1>2. /\ Len(rest) = Len(cookies) - 1 /\ \A i \in 1..Len(rest) : rest[i] = cookies[i + 1]
      /\ DOMAIN rest = 1..Len(rest) /\ Head(cookies) = cookies[1]
  BY <1>1
<1>3. Protect(cookies).rest = rest /\ Protect(cookies).request.cookie = Head(cookies)
  BY DEF Protect
<1>4. /\ jar' = rest /\ reused' = (reused \/ id \in spent) /\ pc' = "sent"
      /\ spent' = IF lost THEN {} ELSE (spent \cup {id}) \cap (IdsOf(rest) \cup Held(disk))
  BY <1>3 DEF Send
<1> HIDE DEF rest
<1>5. id \notin spent
  <2>1. id \in IdsOf(cookies)
    BY <1>1, <1>2 DEF IdsOf
  <2> QED BY <2>1 DEF Unspent
<1>6. \A i \in 1..Len(rest) : rest[i].id # id /\ rest[i].id \notin spent
  <2> SUFFICES ASSUME NEW i \in 1..Len(rest) PROVE rest[i].id # id /\ rest[i].id \notin spent
    OBVIOUS
  <2>1. i + 1 \in 1..Len(cookies) /\ 1 \in 1..Len(cookies) /\ i + 1 # 1 /\ rest[i] = cookies[i + 1]
    BY <1>1, <1>2
  <2>2. cookies[i + 1].id # cookies[1].id
    BY <2>1 DEF Distinct
  <2>3. cookies[i + 1].id \in IdsOf(cookies)
    BY <1>1, <2>1 DEF IdsOf
  <2> QED BY <1>2, <2>1, <2>2, <2>3 DEF Unspent
<1>7. \A x \in IdsOf(rest) : x # id /\ x \notin spent
  BY <1>2, <1>6 DEF IdsOf, ToSet
<1>8. Distinct(rest)
  <2> SUFFICES ASSUME NEW i \in 1..Len(rest), NEW j \in 1..Len(rest), rest[i].id = rest[j].id
               PROVE  i = j
    BY DEF Distinct
  <2>1. i + 1 \in 1..Len(cookies) /\ j + 1 \in 1..Len(cookies)
        /\ cookies[i + 1].id = cookies[j + 1].id
    BY <1>1, <1>2
  <2>2. i + 1 = j + 1
    BY <2>1 DEF Distinct
  <2> QED BY <2>2
<1> HIDE DEF id
<1>9. IdsOf(rest) \cap spent' = {} /\ spent' \subseteq Held(disk) /\ (lost => spent' = {})
  BY <1>4, <1>7
<1>10. \A m \in Ours' : m.type = "request"
  BY SendFacts
<1>11. Distinct(jar') /\ Unspent(jar)'
  BY <1>4, <1>8, <1>9 DEF Unspent
<1> QED BY <1>4, <1>5, <1>9, <1>10, <1>11

\* Banking keeps the cookies different, if those of the reply are of new names.
LEMMA BankIsDistinct ==
    ASSUME NEW cookies, NEW fresh, IsSeq(cookies), IsSeq(fresh),
           Distinct(cookies), Distinct(fresh), IdsOf(fresh) \cap IdsOf(cookies) = {}
    PROVE  /\ Distinct(Bank(cookies, fresh))
           /\ IdsOf(Bank(cookies, fresh)) \subseteq IdsOf(cookies) \cup IdsOf(fresh)
<1> DEFINE room == IF Len(cookies) < 2 * Target THEN 2 * Target - Len(cookies) ELSE 0
           n == AtMost(Len(fresh), room)
           more == SubSeq(fresh, 1, n)
           both == cookies \o more
           m == Len(cookies)
<1>1. /\ cookies \in Seq(ToSet(cookies)) /\ fresh \in Seq(ToSet(fresh)) /\ m \in Nat
      /\ \A i \in 1..m : cookies[i].id \in IdsOf(cookies)
      /\ \A i \in 1..Len(fresh) : fresh[i].id \in IdsOf(fresh)
  BY DEF IsSeq, ToSet, IdsOf
<1>2. room \in Nat
  BY <1>1
<1>3. n \in 0..Len(fresh)
  <2> HIDE DEF room
  <2> QED BY <1>1, <1>2 DEF AtMost
<1> HIDE DEF room, n
<1>4. Len(more) = n /\ \A i \in 1..n : more[i] = fresh[i] /\ i \in 1..Len(fresh)
  BY <1>1, <1>3
<1>5. more \in Seq(ToSet(fresh))
  BY <1>1, <1>3
<1>51. Len(cookies) = m
  OBVIOUS
<1> HIDE DEF more, m
<1>6. Len(both) = m + n /\ \A i \in 1..(m + n) : both[i] = IF i <= m THEN cookies[i] ELSE more[i - m]
  <2> DEFINE S == ToSet(cookies) \cup ToSet(fresh)
  <2>1. cookies \in Seq(S) /\ more \in Seq(S)
    BY <1>1, <1>5
  <2> HIDE DEF S
  <2>2. /\ Len(both) = Len(cookies) + Len(more)
        /\ \A i \in 1..(Len(cookies) + Len(more)) :
              both[i] = IF i <= Len(cookies) THEN cookies[i] ELSE more[i - Len(cookies)]
    BY <2>1, ConcatProperties
  <2> QED BY <1>4, <1>51, <2>2
<1> HIDE DEF both
<1>7. \A i \in 1..(m + n) :
         \/ i \in 1..m /\ both[i].id = cookies[i].id /\ both[i].id \in IdsOf(cookies)
         \/ i - m \in 1..n /\ both[i].id = fresh[i - m].id /\ both[i].id \in IdsOf(fresh)
  <2> SUFFICES ASSUME NEW i \in 1..(m + n)
               PROVE  \/ i \in 1..m /\ both[i].id = cookies[i].id /\ both[i].id \in IdsOf(cookies)
                      \/ i - m \in 1..n /\ both[i].id = fresh[i - m].id /\ both[i].id \in IdsOf(fresh)
    OBVIOUS
  <2>1. CASE i <= m
    BY <1>1, <1>3, <1>6, <2>1 DEF m
  <2>2. CASE ~ (i <= m)
    <3>1. i - m \in 1..n
      BY <1>1, <1>3, <2>2
    <3>2. more[i - m] = fresh[i - m] /\ i - m \in 1..Len(fresh)
      BY <1>4, <3>1
    <3> QED BY <1>1, <1>6, <2>2, <3>1, <3>2
  <2> QED BY <2>1, <2>2
<1>8. Distinct(both)
  <2> SUFFICES ASSUME NEW i \in 1..(m + n), NEW j \in 1..(m + n), both[i].id = both[j].id
               PROVE  i = j
    BY <1>6 DEF Distinct
  <2>1. CASE i \in 1..m /\ j \in 1..m /\ cookies[i].id = cookies[j].id
    BY <2>1 DEF Distinct, m
  <2>2. CASE i - m \in 1..n /\ j - m \in 1..n /\ fresh[i - m].id = fresh[j - m].id
    <3>1. i - m = j - m
      BY <1>4, <2>2 DEF Distinct
    <3> QED BY <1>1, <1>3, <3>1
  <2> QED BY <1>7, <2>1, <2>2
<1>9. Bank(cookies, fresh) = both
  BY DEF Bank, n, room, more, both
<1>10. DOMAIN both = 1..(m + n)
  <2>1. both \in Seq(ToSet(cookies) \cup ToSet(fresh))
    <3>1. cookies \in Seq(ToSet(cookies) \cup ToSet(fresh)) /\ more \in Seq(ToSet(cookies) \cup ToSet(fresh))
      BY <1>1, <1>5
    <3> QED BY <3>1 DEF both
  <2> QED BY <1>6, <2>1
<1>11. \A x \in IdsOf(both) : x \in IdsOf(cookies) \cup IdsOf(fresh)
  BY <1>7, <1>10 DEF IdsOf, ToSet
<1> QED BY <1>8, <1>9, <1>11

\* A request goes out, with a cookie of the jar or of one that a handshake has filled.
LEMMA SendOnce ==
    ASSUME Inv, OnceInv, NEW cookies, IsSeq(cookies), cookies # <<>>,
           Distinct(cookies), Unspent(cookies), Send(Protect(cookies)),
           UNCHANGED <<kind, disk, addr, lost>>, left' \in 0..Count,
           kind = "query" => left' < Count
    PROVE  OnceInv'
<1> USE DEF OnceInv
<1>1. /\ ~ reused' /\ pc' = "sent"
      /\ Distinct(jar') /\ Unspent(jar)'
      /\ spent' \subseteq Held(disk) /\ (lost => spent' = {})
      /\ \A m \in Ours' : m.type = "request"
  BY SendSpends DEF Inv
<1>2. ~ RunNotBegun'
  BY <1>1 DEF RunNotBegun
<1> QED BY <1>1, <1>2

LEMMA ExchangeOnce == ASSUME Inv, OnceInv, AcceptReply \/ AcceptNak \/ Timeout PROVE OnceInv'
<1> USE DEF OnceInv
<1>1. /\ pc = "sent" /\ pc' = (IF kind = "sync" THEN "idle" ELSE "ready")
      /\ kind \in {"sync", "query"} /\ spent' \subseteq spent
      /\ UNCHANGED <<kind, disk, net, left, addr, reused, lost>>
  BY DEF AcceptReply, AcceptNak, Timeout, EndOfExchange, history, run, Inv, TypeInv
<1>2. ~ RunNotBegun'
  BY <1>1 DEF RunNotBegun
<1>3. Distinct(jar') /\ Unspent(jar)' /\ spent' \subseteq Held(disk)
  <2>1. CASE AcceptReply
    <3>1. PICK m \in net : m.type = "reply" /\ m.ours /\ jar' = Bank(jar, m.cookies)
      BY <2>1 DEF AcceptReply
    <3>2. spent' = spent
      BY <2>1 DEF AcceptReply, history
    <3>3. IsSeq(jar) /\ IsSeq(m.cookies)
      BY <3>1 DEF Inv, TypeInv, Message
    <3>4. Distinct(m.cookies) /\ Unspent(m.cookies) /\ IdsOf(m.cookies) \cap IdsOf(jar) = {}
      BY <1>1, <3>1 DEF Ours
    <3>5. Distinct(jar') /\ IdsOf(jar') \subseteq IdsOf(jar) \cup IdsOf(m.cookies)
      BY <3>1, <3>3, <3>4, BankIsDistinct
    <3> QED BY <3>2, <3>4, <3>5 DEF Unspent
  <2>2. CASE AcceptNak \/ Timeout
    <3>1. jar' = jar \/ jar' = <<>>
      BY <2>2 DEF AcceptNak, Timeout
    <3>2. Distinct(<<>>) /\ IdsOf(<<>>) = {}
      BY NoCookies DEF Distinct, IdsOf
    <3> QED BY <1>1, <3>1, <3>2 DEF Unspent
  <2> QED BY <2>1, <2>2
<1>4. lost => spent' = {}
  BY <1>1
<1> QED BY <1>1, <1>2, <1>3, <1>4

LEMMA QueryOnce ==
    ASSUME Inv, OnceInv, NamesLast, StartQuery \/ NextAddress \/ SaveQuery \/ Exhausted \/ Abandon
    PROVE  OnceInv'
<1> USE DEF OnceInv
<1>0. Distinct(<<>>) /\ IdsOf(<<>>) = {}
  BY NoCookies DEF Distinct, IdsOf
<1>1. kind = "query" /\ kind' = kind /\ reused' = reused
  BY DEF StartQuery, NextAddress, SaveQuery, Exhausted, Abandon, EndQuery, history
<1>2. CASE StartQuery
  <2>1. /\ pc = "idle" /\ pc' = "ready" /\ left' = Count /\ addr' = 1
        /\ UNCHANGED <<disk, net, spent, lost>>
    BY <1>2 DEF StartQuery, history
  <2>2. RunNotBegun
    BY <1>1, <2>1 DEF RunNotBegun
  <2>3. Distinct(jar') /\ Unspent(jar)'
    <3>1. CASE jar' = GetCookies(disk)
      <4> DEFINE s == GetCookies(disk)
      <4>1. /\ DOMAIN s = 1..Len(s) /\ ReadableAt(disk) = 1..Len(s)
            /\ \A i \in 1..Len(s) : s[i] = disk[i]
        BY GetIsReadable
      <4> HIDE DEF s
      <4>2. Distinct(s)
        BY <4>1 DEF Distinct
      <4>3. IdsOf(s) \cap spent = {}
        BY <2>2, <4>1 DEF IdsOf, ToSet
      <4> QED BY <2>1, <3>1, <4>2, <4>3 DEF s, Unspent
    <3>2. CASE jar' = Mint(KeCookies)
      <4>1. jar = <<>>
        BY <1>1, <2>1 DEF Inv, JarInv
      <4>2. Distinct(jar') /\ IdsOf(jar') \subseteq Unused
        BY <3>2, <4>1, MintIsNew DEF NamesLast
      <4> QED BY <2>1, <4>2 DEF Unused, Unspent
    <3> QED BY <1>2, <3>1, <3>2 DEF StartQuery, KeyEstablishment
  <2>4. \A i \in ReadableAt(disk) : disk[i].id \notin spent
    BY <2>2
  <2> QED BY <1>1, <2>1, <2>3, <2>4
<1>3. CASE NextAddress
  <2>1. /\ pc = "ready" /\ pc' = pc /\ left' = Count /\ addr' = addr + 1
        /\ UNCHANGED <<jar, disk, spent, lost>>
    BY <1>3 DEF NextAddress, history
  <2>2. ~ RunNotBegun'
    BY <2>1 DEF RunNotBegun
  <2> QED BY <1>1, <2>1, <2>2 DEF Unspent
<1>4. CASE SaveQuery \/ Exhausted \/ Abandon
  <2>1. /\ pc' = "idle" /\ jar' = <<>> /\ left' = 0 /\ addr' = 1
        /\ spent' = IF lost' THEN {} ELSE spent \cap Held(disk')
    BY <1>4 DEF SaveQuery, Exhausted, Abandon, EndQuery
  <2>2. /\ \A i, j \in ReadableAt(disk') : disk'[i].id = disk'[j].id => i = j
        /\ \A i \in ReadableAt(disk') : disk'[i].id \notin spent'
    <3>1. CASE SaveQuery
      <4> DEFINE saved == PutCookies(disk, jar)
      <4>1. disk' = saved
        BY <3>1 DEF SaveQuery
      <4>2. IsSeq(jar)
        BY DEF Inv, TypeInv
      <4>3. \A i \in ReadableAt(saved) : i \in 1..Len(jar) /\ saved[i] = jar[i]
        BY <4>2, PutFacts
      <4> HIDE DEF saved
      <4>4. \A i \in 1..Len(jar) : jar[i].id \in IdsOf(jar)
        BY <4>2 DEF IsSeq, IdsOf, ToSet
      <4>5. \A i, j \in 1..Len(jar) : jar[i].id = jar[j].id => i = j
        BY DEF Distinct
      <4>6. \A i \in 1..Len(jar) : jar[i].id \notin spent
        BY <4>4 DEF Unspent
      <4> QED BY <2>1, <4>1, <4>3, <4>5, <4>6
    <3>2. CASE disk' = disk /\ lost'
      BY <2>1, <3>2
    <3>3. CASE Abandon /\ ~ lost'
      <4>1. disk' = disk /\ RunNotBegun
        <5>1. disk' = disk /\ addr = 1 /\ left = Count /\ pc # "idle"
          BY <3>3 DEF Abandon
        <5>2. pc = "ready"
          <6>1. Count \in Nat /\ ~ (Count < Count)
            OBVIOUS
          <6> QED BY <1>1, <5>1, <6>1 DEF Inv, TypeInv
        <5> QED BY <1>1, <5>1, <5>2 DEF RunNotBegun
      <4> QED BY <2>1, <4>1
    <3>4. Exhausted => disk' = disk /\ lost'
      BY DEF Exhausted
    <3>5. Abandon => disk' = disk
      BY DEF Abandon
    <3> QED BY <1>4, <3>1, <3>2, <3>3, <3>4, <3>5
  <2>3. spent' \subseteq Held(disk') /\ (lost' => spent' = {})
    BY <2>1
  <2> QED BY <1>0, <1>1, <2>1, <2>2, <2>3 DEF Unspent
<1> QED BY <1>2, <1>3, <1>4

\* The cookies of a reply are new to whoever holds one.
LEMMA AnswerOnce == ASSUME Inv, OnceInv, NamesLast, Answer PROVE OnceInv'
<1> USE DEF OnceInv
<1>1. UNCHANGED <<kind, jar, disk, pc, left, addr, answered, spent, reused, lost>>
  BY DEF Answer, run, history
<1> DEFINE Reply(m) == IF m.cookie.master = ring
                       THEN [type |-> "reply", ours |-> m.ours,
                             cookies |-> Mint(AtMost(1 + m.want, ReplyCap))]
                       ELSE [type |-> "nak", ours |-> m.ours]
<1>2. PICK m \in net : m.type = "request" /\ net' = (net \ {m}) \cup {Reply(m)}
  BY DEF Answer
<1> DEFINE n == AtMost(1 + m.want, ReplyCap)
           fresh == Mint(n)
<1>3. Distinct(fresh) /\ IdsOf(fresh) \subseteq Unused
  <2>1. m.want \in Nat
    BY <1>2 DEF Inv, TypeInv, Message
  <2>2. Cardinality(Unused) >= ReplyCap /\ IsFiniteSet(Unused)
    <3>1. Unused \subseteq CookieIds
      BY DEF Unused
    <3> QED BY <1>2, <3>1, FS_Subset DEF NamesLast
  <2>3. Cardinality(Unused) \in Nat
    BY <2>2, FS_CardinalityType
  <2>4. n \in Nat /\ n <= Cardinality(Unused)
    BY <2>1, <2>2, <2>3 DEF AtMost
  <2> HIDE DEF n
  <2> QED BY <2>4, MintIsNew
<1>4. Unspent(fresh) /\ IdsOf(fresh) \cap IdsOf(jar) = {}
  BY <1>3 DEF Unused, Unspent
<1>5. ASSUME NEW r \in Ours', r.type = "reply", pc = "sent"
      PROVE  Distinct(r.cookies) /\ Unspent(r.cookies) /\ IdsOf(r.cookies) \cap IdsOf(jar) = {}
  <2>1. CASE r \in net
    <3>1. r \in Ours
      BY <1>5, <2>1 DEF Ours
    <3> QED BY <1>5, <3>1
  <2>2. CASE r = Reply(m)
    <3>1. r.cookies = fresh
      <4>1. CASE m.cookie.master = ring
        BY <2>2, <4>1
      <4>2. CASE m.cookie.master # ring
        BY <1>5, <2>2, <4>2
      <4> QED BY <4>1, <4>2
    <3> QED BY <1>3, <1>4, <3>1
  <2> QED BY <1>2, <2>1, <2>2 DEF Ours
<1>6. RunNotBegun' = RunNotBegun
  BY <1>1 DEF RunNotBegun
<1> QED BY <1>1, <1>5, <1>6 DEF Unspent

LEMMA OnceInit == Init => OnceInv
<1> SUFFICES ASSUME Init PROVE OnceInv
  OBVIOUS
<1>1. /\ jar = <<>> /\ net = {} /\ spent = {} /\ pc = "idle" /\ left = 0 /\ addr = 1
      /\ reused = FALSE /\ lost = FALSE /\ \A i \in 1..Slots : disk[i] = None
  BY DEF Init
<1>2. ReadableAt(disk) = {}
  <2>1. \A i \in 1..Slots : ~ Live(disk[i]) /\ i \in 1..i
    BY <1>1 DEF Live
  <2> QED BY <2>1 DEF ReadableAt
<1>3. Distinct(jar)
  BY <1>1 DEF Distinct
<1> QED BY <1>1, <1>2, <1>3 DEF OnceInv, Unspent

LEMMA OnceStep == Inv /\ OnceInv /\ NamesLast /\ [Next]_vars => OnceInv'
<1> SUFFICES ASSUME Inv, OnceInv, NamesLast, [Next]_vars PROVE OnceInv'
  OBVIOUS
<1>1. CASE Poll \/ Ask
  <2>1. /\ IsSeq(jar) /\ jar # <<>> /\ Send(Protect(jar)) /\ UNCHANGED <<kind, disk, addr, lost>>
        /\ left' \in 0..Count /\ (kind = "query" => left' < Count)
    BY <1>1 DEF Poll, Ask, run, Inv, TypeInv, OnceInv
  <2> QED BY <2>1, SendOnce DEF OnceInv
<1>2. CASE Renew
  <2> DEFINE cookies == Mint(KeCookies)
  <2>1. /\ Send(Protect(cookies)) /\ UNCHANGED <<kind, disk, addr, lost>> /\ jar = <<>>
        /\ left' \in 0..Count /\ kind = "sync"
    BY <1>2 DEF Renew, KeyEstablishment, run, OnceInv
  <2>2. IsSeq(cookies) /\ cookies # <<>>
    BY MintFacts
  <2>3. Distinct(cookies) /\ IdsOf(cookies) \subseteq Unused
    BY <2>1, MintIsNew DEF NamesLast
  <2>4. Unspent(cookies)
    BY <2>3 DEF Unspent, Unused, OnceInv
  <2> HIDE DEF cookies
  <2> QED BY <2>1, <2>2, <2>3, <2>4, SendOnce
<1>3. CASE Restart \/ SaveRing \/ UNCHANGED vars
  <2>1. UNCHANGED <<kind, jar, disk, pc, left, addr, net, spent, reused, lost>>
    BY <1>3 DEF Restart, SaveRing, vars, run, history
  <2>2. Ours' = Ours /\ RunNotBegun' = RunNotBegun
    BY <2>1 DEF Ours, RunNotBegun
  <2> QED BY <2>1, <2>2 DEF OnceInv, Unspent
<1> QED BY <1>1, <1>2, <1>3, ExchangeOnce, QueryOnce, AnswerOnce DEF Next

\* As long as nonces make every sealed cookie a new one, the sync loop never sends one
\* twice, and a query only after an earlier run ended without saving what it had spent:
\* for jars, stores and replies of any size, and whatever is lost or late (protect,
\* verify, put_cookies).
THEOREM SpentOnce == Spec /\ []NamesLast => []SpentOnceUnlessRunLost
<1>1. OnceInv => SpentOnceUnlessRunLost
  BY DEF OnceInv, SpentOnceUnlessRunLost
<1> QED BY <1>1, Invariance, OnceInit, OnceStep, PTL DEF Spec
=============================================================================
