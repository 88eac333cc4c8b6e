----------------------------- MODULE NtsSession -----------------------------
(***************************************************************************)
(* NTS cookies, from the server's master key to the client's jar and back. *)
(*                                                                         *)
(* The client half is daemon/nts_session.rs: a jar of cookies, one spent   *)
(* per request, refilled by verified replies.  Two programs drive it: the  *)
(* sync loop (daemon/sync.rs, exchange and renew_nts), which keeps its jar *)
(* in memory and runs for ever, and `rtimed query --nts --state`           *)
(* (daemon/query.rs), one run after another, which keeps its jar on disk   *)
(* (daemon/store.rs) between runs.  The server half is daemon/server.rs    *)
(* with nts/cookie.rs: it redeems what the master key in its ring sealed,  *)
(* answers an NTS NAK otherwise, and may restart, with or without state.   *)
(*                                                                         *)
(* Left out: cryptography.  A cookie is its identity and the master key    *)
(* that sealed it.  The session keys travel with the jar, in memory and on *)
(* disk, so they tell nothing apart that the request's nonce does not.     *)
(***************************************************************************)
EXTENDS Naturals, Sequences, SequencesExt, FiniteSets, FiniteSetsExt

CONSTANTS
    Kinds,          \* which client programs an instance runs
    Target,         \* TARGET_COOKIES: cookies the client aims to hold
    PlaceholderCap, \* placeholders a request may carry
    ReplyCap,       \* MAX_REPLY_COOKIES
    KeCookies,      \* KE_COOKIE_COUNT
    Slots,          \* MAX_COOKIES_PER_SERVER: cookie entries of the store
    Count,          \* --count: exchanges of a query with one address
    Addrs,          \* addresses the server's name resolves to
    MaxMasters,     \* bound: master keys the server ever generates
    MaxStale,       \* bound: datagrams of earlier exchanges still about
    CookieIds,      \* names for the cookies in existence
    Lossy,          \* whether datagrams may be lost
    MayAbandon      \* whether a query may be killed or fail to save

ASSUME NtsConstants ==
    /\ Kinds \subseteq {"sync", "query"}
    /\ {Target, PlaceholderCap, ReplyCap, KeCookies, Count, Addrs} \subseteq Nat \ {0}
    /\ Slots \in Nat /\ Slots >= 2 * Target
    /\ MaxMasters \in Nat \ {0} /\ MaxStale \in Nat
    /\ CookieIds \subseteq Nat /\ IsFiniteSet(CookieIds)
    /\ {Lossy, MayAbandon} \subseteq BOOLEAN

VARIABLES
    kind,      \* the client program
    ring,      \* the server's master key: KeyRing.current
    stateful,  \* whether the server was started with --state
    up,        \* whether it serves
    store,     \* the master key in its state file, 0 if none
    masters,   \* master keys generated so far
    jar,       \* NtsSession.cookies
    disk,      \* the client's state file: cookie/<host>/<slot>
    pc,        \* "idle", "ready" between two exchanges, "sent" in one
    left,      \* exchanges this address is still to be asked for
    addr,      \* the address being asked
    answered,  \* whether it gave a usable reply: report.received > 0
    net,       \* datagrams on their way
    lost,      \* history: some query ended without saving what it had spent
    spent,     \* history, until then: cookies sent of which a copy is held
    reused,    \* history, until then: some cookie was sent twice
    changes,   \* history: changes of the server's master key
    naks       \* history: NAKs the sync loop accepted

server == <<ring, stateful, up, store, masters, changes>>
run == <<left, addr, answered>>
history == <<spent, reused, lost, naks>>
vars == <<kind, server, jar, disk, pc, run, net, history>>

None == [id |-> 0, master |-> 0, kept |-> FALSE]
Tombstone == [None EXCEPT !.kept = TRUE]
Cookies == [id : CookieIds, master : 1..MaxMasters, kept : BOOLEAN]

AtMost(n, cap) == IF n < cap THEN n ELSE cap

-----------------------------------------------------------------------------
(* The store: put_cookies writes the batch from the first slot on and then *)
(* retires what follows, up to the first entry that is retired or was      *)
(* never written; get_cookies reads up to the same place.                  *)

Live(slot) == slot \notin {None, Tombstone}

(* Mutant: a shorter batch leaves the tail of a longer one behind.         *)
PutCookiesOver(slots, cookies) ==
    [i \in 1..Slots |-> IF i <= Len(cookies) THEN cookies[i] ELSE slots[i]]

PutCookies(slots, cookies) ==
    [i \in 1..Slots |->
        CASE i <= Len(cookies) -> cookies[i]
          [] i > Len(cookies) /\ \A j \in Len(cookies) + 1 .. i : Live(slots[j])
             -> Tombstone
          [] OTHER -> slots[i]]

GetCookies(slots) ==
    LET ends == {i \in 1..Slots : ~Live(slots[i])}
    IN  [i \in 1..(IF ends = {} THEN Slots ELSE Min(ends) - 1) |-> slots[i]]

-----------------------------------------------------------------------------
(* The jar: NtsSession::protect pops the cookie a request spends and asks  *)
(* for enough to fill up; verify banks up to twice the target.             *)

Wanted(rest) == AtMost(IF Len(rest) < Target THEN Target - Len(rest) ELSE 0, PlaceholderCap)

Protect(cookies) ==
    [rest |-> Tail(cookies),
     request |-> [type |-> "request", cookie |-> Head(cookies),
                  want |-> Wanted(Tail(cookies)), ours |-> TRUE]]

Bank(cookies, fresh) ==
    LET room == IF Len(cookies) < 2 * Target THEN 2 * Target - Len(cookies) ELSE 0
    IN  cookies \o SubSeq(fresh, 1, AtMost(Len(fresh), room))

(* Sealing: fresh nonces make every cookie a new one.                      *)
Held(slots) == {slots[i].id : i \in {j \in 1..Slots : Live(slots[j])}}
IdsOf(cookies) == {c.id : c \in ToSet(cookies)}
OnTheWay == UNION {CASE m.type = "request" -> {m.cookie.id}
                     [] m.type = "reply"   -> IdsOf(m.cookies)
                     [] OTHER              -> {} : m \in net}
Unused == CookieIds \ (IdsOf(jar) \cup Held(disk) \cup OnTheWay)

Fresh(i) == CHOOSE id \in Unused : Cardinality({other \in Unused : other < id}) = i - 1

Mint(n) == [i \in 1..n |-> [id |-> Fresh(i), master |-> ring, kept |-> stateful]]

(* NTS-KE: the handshake itself either works or changes nothing.           *)
KeyEstablishment == Mint(KeCookies)

Init ==
    /\ kind \in Kinds
    /\ ring = 1 /\ masters = 1 /\ store = 0
    /\ stateful \in BOOLEAN /\ up = ~stateful
    /\ disk = [i \in 1..Slots |-> None]
    /\ jar = <<>> /\ pc = "idle" /\ net = {}
    /\ left = 0 /\ addr = 1 /\ answered = FALSE
    /\ spent = {} /\ reused = FALSE /\ lost = FALSE /\ changes = 0 /\ naks = 0

-----------------------------------------------------------------------------
(* A request goes out; whatever of earlier exchanges is still about is now *)
(* told from its answer by the nonce in the origin field.                  *)

Stale == {[m EXCEPT !.ours = FALSE] : m \in net}

Send(sealed) ==
    LET id == sealed.request.cookie.id IN
    /\ \E old \in SUBSET Stale :
        /\ Cardinality(old) <= MaxStale
        /\ net' = old \cup {sealed.request}
    /\ jar' = sealed.rest
    /\ reused' = (reused \/ id \in spent)
    /\ spent' = IF lost THEN {} ELSE (spent \cup {id}) \cap (IdsOf(sealed.rest) \cup Held(disk))
    /\ pc' = "sent"

(* exchange() up to the send, in the sync loop: with the jar empty key     *)
(* establishment runs first, and if it fails the poll is over.             *)
Poll ==
    /\ kind = "sync" /\ pc = "idle" /\ jar # <<>>
    /\ Send(Protect(jar))
    /\ UNCHANGED <<kind, server, disk, run, lost, naks>>

(* Mutant: a poll that finds the jar empty is over.                        *)
RenewNothing ==
    /\ kind = "sync" /\ pc = "idle" /\ jar = <<>> /\ up
    /\ UNCHANGED vars

Renew ==
    /\ kind = "sync" /\ pc = "idle" /\ jar = <<>> /\ up
    /\ Send(Protect(KeyEstablishment))
    /\ UNCHANGED <<kind, server, disk, run, lost, naks>>

(* The next exchange of a query: measure_against.                          *)
Ask ==
    /\ kind = "query" /\ pc = "ready" /\ left > 0 /\ jar # <<>>
    /\ Send(Protect(jar))
    /\ left' = left - 1
    /\ UNCHANGED <<kind, server, disk, addr, answered, lost, naks>>

EndOfExchange == IF kind = "sync" THEN "idle" ELSE "ready"

(* Mutant: the origin field is not compared with the nonce.                *)
AcceptAnyReply ==
    /\ pc = "sent"
    /\ \E m \in net : m.type = "reply" /\ jar' = Bank(jar, m.cookies)
    /\ pc' = EndOfExchange
    /\ answered' \in IF kind = "query" THEN {answered, TRUE} ELSE {answered}
    /\ UNCHANGED <<kind, server, disk, left, addr, net, history>>

(* The server's answer to this very request verifies: its cookies are      *)
(* banked.  It may still be no usable time (stratum, leap, causality).     *)
AcceptReply ==
    /\ pc = "sent"
    /\ \E m \in net :
        /\ m.type = "reply" /\ m.ours
        /\ jar' = Bank(jar, m.cookies)
    /\ pc' = EndOfExchange
    /\ answered' \in IF kind = "query" THEN {answered, TRUE} ELSE {answered}
    /\ UNCHANGED <<kind, server, disk, left, addr, net, history>>

(* Mutant: the sync loop counts the NAK and keeps its cookies.             *)
AcceptNakOnly ==
    /\ pc = "sent"
    /\ \E m \in net : m.type = "nak" /\ m.ours
    /\ naks' = IF kind = "sync" THEN naks + 1 ELSE naks
    /\ pc' = EndOfExchange
    /\ UNCHANGED <<kind, server, jar, disk, run, net, spent, reused, lost>>

(* An NTS NAK to this very request: the sync loop drops every cookie, a    *)
(* query counts a reply that did not verify.                               *)
AcceptNak ==
    /\ pc = "sent"
    /\ \E m \in net : m.type = "nak" /\ m.ours
    /\ IF kind = "sync"
       THEN jar' = <<>> /\ naks' = naks + 1
       ELSE UNCHANGED <<jar, naks>>
    /\ pc' = EndOfExchange
    /\ spent' = spent \cap (IdsOf(jar') \cup Held(disk))
    /\ UNCHANGED <<kind, server, disk, run, net, reused, lost>>

Timeout ==
    /\ pc = "sent" /\ (Lossy \/ ~up)
    /\ pc' = EndOfExchange
    /\ UNCHANGED <<kind, server, jar, disk, run, net, history>>

-----------------------------------------------------------------------------
(* A query: resume the stored session or establish one, ask each address   *)
(* in turn until one answers, and save what is left of the jar.  Each      *)
(* address gets a socket of its own, which earlier datagrams do not reach. *)

StartQuery ==
    /\ kind = "query" /\ pc = "idle"
    /\ \/ GetCookies(disk) # <<>> /\ jar' = GetCookies(disk)
       \/ GetCookies(disk) = <<>> /\ up /\ jar' = KeyEstablishment
    /\ pc' = "ready" /\ left' = Count /\ addr' = 1 /\ answered' = FALSE
    /\ UNCHANGED <<kind, server, disk, net, history>>

NextAddress ==
    /\ kind = "query" /\ pc = "ready" /\ left = 0 /\ ~answered /\ addr < Addrs
    /\ addr' = addr + 1 /\ left' = Count /\ net' = {}
    /\ UNCHANGED <<kind, server, jar, disk, pc, answered, history>>

EndQuery ==
    /\ pc' = "idle" /\ jar' = <<>>
    /\ left' = 0 /\ addr' = 1 /\ answered' = FALSE
    /\ spent' = IF lost' THEN {} ELSE spent \cap Held(disk')
    /\ net' = {}
    /\ UNCHANGED <<kind, server, reused, naks>>

(* persist_state: the store is written aside and renamed, so a run's jar   *)
(* is on disk whole or not at all.                                         *)
SaveQuery ==
    /\ kind = "query" /\ pc = "ready" /\ left = 0 /\ (answered \/ addr = Addrs)
    /\ disk' = PutCookies(disk, jar)
    /\ UNCHANGED lost
    /\ EndQuery

(* CookiesExhausted ends a query with an error, past persist_state.        *)
Exhausted ==
    /\ kind = "query" /\ pc = "ready" /\ left > 0 /\ jar = <<>>
    /\ lost' = TRUE
    /\ UNCHANGED disk
    /\ EndQuery

(* So does an address that cannot be connected to, and being killed; and a *)
(* state that cannot be saved fails silently.                              *)
Abandon ==
    /\ MayAbandon /\ kind = "query" /\ pc # "idle"
    /\ lost' = (lost \/ addr # 1 \/ left # Count)
    /\ UNCHANGED disk
    /\ EndQuery

-----------------------------------------------------------------------------
(* The server.  A cookie redeems if the ring still has its master key; the *)
(* reply carries one cookie for the one spent and one per placeholder.     *)
Answer ==
    /\ up
    /\ \E m \in net :
        /\ m.type = "request"
        /\ net' = (net \ {m}) \cup
             {IF m.cookie.master = ring
              THEN [type |-> "reply", ours |-> m.ours,
                    cookies |-> Mint(AtMost(1 + m.want, ReplyCap))]
              ELSE [type |-> "nak", ours |-> m.ours]}
    /\ UNCHANGED <<kind, server, jar, disk, pc, run, history>>

(* load_or_create_ring: with a state file that has a key, that key; with   *)
(* one that has none, a fresh key that is saved before serving; without,   *)
(* a fresh key for this run.                                               *)
Restart ==
    \E keep \in BOOLEAN :
        LET fresh == ~(keep /\ store # 0) IN
        /\ fresh => masters < MaxMasters
        /\ stateful' = keep
        /\ ring' = IF fresh THEN masters + 1 ELSE store
        /\ masters' = IF fresh THEN masters + 1 ELSE masters
        /\ changes' = IF ring' # ring THEN changes + 1 ELSE changes
        /\ up' = (keep => ~fresh)
        /\ UNCHANGED <<kind, store, jar, disk, pc, run, net, history>>

(* Mutant: the key is put in the store and not flushed.                    *)
SaveRingUnflushed ==
    /\ ~up
    /\ up' = TRUE
    /\ UNCHANGED <<kind, ring, stateful, store, masters, changes, jar, disk, pc, run, net, history>>

SaveRing ==
    /\ ~up
    /\ store' = ring /\ up' = TRUE
    /\ UNCHANGED <<kind, ring, stateful, masters, changes, jar, disk, pc, run, net, history>>

Next ==
    \/ Poll \/ Renew \/ Ask \/ AcceptReply \/ AcceptNak \/ Timeout
    \/ StartQuery \/ NextAddress \/ SaveQuery \/ Exhausted \/ Abandon
    \/ Answer \/ Restart \/ SaveRing

(* Fairness: the sync loop polls for ever and every exchange ends, by an   *)
(* answer or at the deadline of its socket; the user of a query runs it    *)
(* again; a server that starts gets to serve; and with it up key           *)
(* establishment in the end succeeds.                                      *)
ExchangeEnds == AcceptReply \/ AcceptNak \/ Timeout
QueryGoesOn == Ask \/ StartQuery \/ NextAddress \/ SaveQuery \/ Exhausted
Fairness ==
    /\ WF_vars(Poll) /\ WF_vars(Renew) /\ WF_vars(ExchangeEnds)
    /\ WF_vars(QueryGoesOn) /\ WF_vars(Answer) /\ WF_vars(SaveRing)

Spec == Init /\ [][Next]_vars /\ Fairness

-----------------------------------------------------------------------------
Works(cookies) == \E c \in ToSet(cookies) : c.master = ring
Dead(cookies) == cookies # <<>> /\ ~Works(cookies)

(* All the cookies of a jar, in memory or as the next run would read it,   *)
(* were sealed under one master key, so a NAK to one condemns them all --  *)
(* which is what forget_cookies (nts_session.rs:97) takes for granted --   *)
(* and what a shorter save leaves in the store is never read back          *)
(* (store.rs:344).                                                         *)
JarIsUniform ==
    \A cookies \in {jar, GetCookies(disk)} :
        \A c, d \in ToSet(cookies) : c.master = d.master

(* "A cookie is spent exactly once" (nts_session.rs:4): whatever is lost,  *)
(* duplicated or late, the sync loop never sends one twice, and a query    *)
(* only after an earlier run ended without saving its jar.                 *)
SpentOnceUnlessRunLost == ~reused

(* A change of the server's master key costs the sync loop at most one     *)
(* refused exchange: after the NAK no cookie of the old key is sent, and a *)
(* NAK that comes late does not cost a jar that is good.                   *)
OneRefusalPerKeyChange == naks <= changes

(* "Cookies minted before a restart still redeem afterwards" (store.rs:448) *)
(* on a server that was started with its state both times, whatever        *)
(* happened in between and however often it died while starting.           *)
StateKeepsCookies ==
    up /\ stateful =>
        \A c \in ToSet(jar) \cup ToSet(GetCookies(disk)) : c.kept => c.master = ring

(* A sync loop without a cookie that redeems gets one, even if every NAK   *)
(* is lost: each exchange spends a dead one, and the empty jar is renewed. *)
DaemonRenews == (kind = "sync" /\ ~Works(jar)) ~> Works(jar)

(* The NAK is answered "so the client runs key establishment again now     *)
(* instead of spending every cookie it holds" (server.rs:1114): so a query *)
(* that is run again and again gets a session that works.                  *)
QueryRenews == (kind = "query" /\ Dead(GetCookies(disk))) ~> ~Dead(GetCookies(disk))
=============================================================================
