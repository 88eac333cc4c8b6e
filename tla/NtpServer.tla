----------------------------- MODULE NtpServer ------------------------------
(***************************************************************************)
(* The NTP server (rusty_time-daemon, server.rs and gateway.rs) on its      *)
(* ClientTable.  One thread receives requests in batches, builds every      *)
(* reply under the lock, sends what the kernel takes and then, under the    *)
(* lock again, notes when the replies left: in the interleaved mode a       *)
(* client asks for exactly that time in its next request.  The gateway's    *)
(* threads build replies with the same function, one request at a time.     *)
(*                                                                          *)
(* Abstractions.  A request is its sender and the stamp in its origin field;*)
(* what the extension fields hold decides whether an admitted request gets  *)
(* the time, an NTS NAK or nothing, and is any choice.  The clock's time is *)
(* ClientTable's, coarser than the bit that tells the two kinds of stamp    *)
(* apart; a transmit time is kept as a reply will carry it, with the bit    *)
(* cleared.  Nothing is lost on the way to a client.                        *)
(***************************************************************************)
EXTENDS ClientTable

CONSTANTS
    BatchMax,    \* BATCH_SIZE
    WebKeys      \* the clients that may use the gateway

ASSUME ServerAssumption == BatchMax \in Nat \ {0} /\ WebKeys \subseteq Keys

VARIABLES
    stamps,      \* of every slot's record: last_receive_sent and last_transmit
    phase,       \* where ntp_serve_loop is
    batch,       \* requests still to be built
    recvTs,      \* recv_ts of the batch
    replies,     \* built
    sentTs,      \* the time read after the send
    sent,        \* how many replies the send took
    \* history
    told,        \* by client: the replies it was sent, receive stamp and real time
    sentAt,      \* by client: when anything left for it
    kissed,      \* clients sent a kiss of death since their last reply
    webbed,      \* clients that have asked through the gateway
    built        \* the reply built last

thread     == <<phase, batch, recvTs, replies, sentTs, sent>>
history    == <<told, sentAt, kissed, webbed>>
serverVars == <<tableVars, stamps, thread, history, built>>

\* mark_server_timestamps: receive has bit 0 set, transmit has it clear; ZERO is unset.
ZERO        == 0
Transmit(t) == 2 * t
Receive(t)  == 2 * t + 1

Unset   == [receive |-> ZERO, transmit |-> ZERO]
Origins(k) == {ZERO} \cup {m.receive : m \in told[k]}

-----------------------------------------------------------------------------
\* response_mode_at
NamesAny(origin, s) == origin # ZERO             \* mutant: whichever reply it was
Names(origin, s) == origin = s.receive /\ origin # ZERO
Interleaves(t, ss, h, origin) ==
    /\ Resolves(t, h)
    /\ ss[h.slot].receive # ZERO /\ ss[h.slot].transmit # ZERO
    /\ Names(origin, ss[h.slot])

\* note_transmit_at for the replies that were sent
Noted ==
    [i \in Slots |->
        IF \E n \in 1..sent : replies[n].handle.slot = i /\ Resolves(table, replies[n].handle)
        THEN [stamps[i] EXCEPT !.transmit = sentTs] ELSE stamps[i]]

\* build_reply_in for a request of k; what says what the request asks for in the end.
Build(k, origin, recv, what) ==
    /\ Admit(k)
    /\ LET h     == admitted'.handle
           fresh == IF Find(table, k) = NIL /\ h # INVALID
                    THEN [stamps EXCEPT ![h.slot] = Unset] ELSE stamps
           asked == admitted'.disposition = "respond"
           mode  == asked /\ Interleaves(table', fresh, h, origin)
           kind  == IF asked THEN what
                    ELSE IF admitted'.disposition = "kiss" THEN "kiss" ELSE "none"
       IN  /\ stamps' = IF asked THEN [fresh EXCEPT ![h.slot].receive = Receive(recv)] ELSE fresh
           /\ built' = [key |-> k, origin |-> origin, handle |-> h, kind |-> kind,
                        receive |-> Receive(recv), interleaved |-> mode,
                        transmit |-> IF mode THEN fresh[h.slot].transmit ELSE ZERO]

Outcomes == {"time", "nak", "none"}

-----------------------------------------------------------------------------
Init ==
    /\ TableInit
    /\ stamps = [i \in Slots |-> Unset]
    /\ phase = "idle" /\ batch = <<>> /\ recvTs = 0 /\ replies = <<>>
    /\ sentTs = ZERO /\ sent = 0
    /\ told = [k \in Keys |-> {}] /\ sentAt = [k \in Keys |-> {}]
    /\ kissed = {} /\ webbed = {} /\ built = None

\* Two requests are never received at the same reading of the clock.
FreshReading == recvTs < now /\ (built # None => built.receive < Receive(now))

\* recv_batch, and one reading of the clock for the whole batch.
ReceiveBatch ==
    /\ phase = "idle" /\ FreshReading
    /\ \E n \in 1..BatchMax, keys \in [1..BatchMax -> Keys] :
         \E origins \in [1..n -> UNION {Origins(k) : k \in Keys}] :
            /\ \A i \in 1..n : origins[i] \in Origins(keys[i])
            /\ batch' = [i \in 1..n |-> [key |-> keys[i], origin |-> origins[i]]]
    /\ recvTs' = now /\ replies' = <<>>
    /\ phase' = "received"
    /\ UNCHANGED <<tableVars, stamps, sentTs, sent, history, built>>

\* The lock is taken for the whole batch.
Lock ==
    /\ phase = "received"
    /\ phase' = "build"
    /\ UNCHANGED <<tableVars, stamps, batch, recvTs, replies, sentTs, sent, history, built>>

BuildNext(what) ==
    /\ phase = "build" /\ batch # <<>>
    /\ Build(batch[1].key, batch[1].origin, recvTs, what)
    /\ batch' = Tail(batch)
    /\ replies' = IF built'.kind = "none" THEN replies
                  ELSE Append(replies, [key |-> built'.key, handle |-> built'.handle,
                                        kind |-> built'.kind, receive |-> built'.receive])
    /\ UNCHANGED <<phase, recvTs, sentTs, sent, history>>

Unlock ==
    /\ phase = "build" /\ batch = <<>>
    /\ phase' = IF replies = <<>> THEN "idle" ELSE "send"
    /\ UNCHANGED <<tableVars, stamps, batch, recvTs, replies, sentTs, sent, history, built>>

\* send_batch_by takes some of the replies from the front; the rest are dropped.
Left(k, n, kind) == \E i \in 1..n : replies[i].key = k /\ replies[i].kind = kind
Send ==
    /\ phase = "send"
    /\ \E n \in 0..Len(replies) :
        /\ sent' = n /\ sentTs' = Transmit(now)
        /\ phase' = IF n = 0 THEN "idle" ELSE "note"
        /\ sentAt' = [k \in Keys |->
               sentAt[k] \cup {t \in {sentTs'} : \E i \in 1..n : replies[i].key = k}]
        /\ told' = [k \in Keys |->
               told[k] \cup {[receive |-> replies[i].receive, sent |-> sentTs'] :
                              i \in {j \in 1..n : replies[j].key = k /\ replies[j].kind = "time"}}]
        /\ kissed' = {k \in Keys : \/ Left(k, n, "kiss")
                                   \/ k \in kissed /\ ~Left(k, n, "time")}
    /\ UNCHANGED <<tableVars, stamps, batch, recvTs, replies, webbed, built>>

\* note_transmit_at for every reply that was sent, kisses of death included.
Note ==
    /\ phase = "note"
    /\ stamps' = Noted
    /\ phase' = "idle"
    /\ UNCHANGED <<tableVars, batch, recvTs, replies, sentTs, sent, history, built>>

\* time_exchange: the gateway answers over HTTP and notes no transmit time.
Gateway(k, what) ==
    /\ phase # "build" /\ FreshReading
    /\ \E origin \in Origins(k) : Build(k, origin, now, what)
    /\ webbed' = webbed \cup {k}
    /\ told' = IF built'.kind = "time"
               THEN [told EXCEPT ![k] = @ \cup {[receive |-> built'.receive, sent |-> Transmit(now)]}]
               ELSE told
    /\ UNCHANGED <<thread, sentAt, kissed>>

Tick == TableTick /\ UNCHANGED <<stamps, thread, history, built>>

Next ==
    \/ ReceiveBatch
    \/ Lock
    \/ \E what \in Outcomes : BuildNext(what)
    \/ Unlock
    \/ Send
    \/ Note
    \/ \E k \in WebKeys, what \in Outcomes : Gateway(k, what)
    \/ Tick

Spec == Init /\ [][Next]_serverVars

-----------------------------------------------------------------------------
\* The transmit time in a client's record is one at which a datagram left for that very
\* client, however its slot was evicted and taken over while a reply was on its way: "if
\* the client was evicted in between, the update is dropped rather than landing on
\* whoever inherited the slot" (server.rs, note_transmit_at).
TransmitsAreOwn ==
    \A n \in DOMAIN Order :
        LET i == Order[n]
        IN  stamps[i].transmit # ZERO => stamps[i].transmit \in sentAt[table.slots[i].key]

\* What an interleaved reply to k says of the reply it was asked about is the truth.
TellsTruth(b) == [receive |-> b.origin, sent |-> b.transmit] \in told[b.key]
MisleadingReply ==
    built' # built /\ built'.interleaved /\ built'.kind = "time" /\ ~TellsTruth(built')

\* An interleaved reply carries the real transmit time of the very reply the client
\* named, as long as the client never used the gateway and was not kissed since,
\* through partial sends, evictions and batches with several of its requests.
InterleavedIsTrue ==
    [][MisleadingReply => built'.key \in kissed \cup webbed']_serverVars

\* An interleaved reply carries the real transmit time of the very reply the client
\* named: "anything older falls back to basic rather than answering with a transmit
\* timestamp from the wrong exchange" (core server.rs, response_mode_at).
InterleavedAlwaysTrue ==
    [][~MisleadingReply]_serverVars
=============================================================================
