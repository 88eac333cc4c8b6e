------------------------------ MODULE Datagrams ------------------------------
(***************************************************************************)
(* The server's socket: batches of datagrams (rusty_time-clock, net.rs)     *)
(* under the loop that answers them (rusty_time-daemon, server.rs,          *)
(* ntp_serve_loop), on Linux, on Linux with the batched send turned off,    *)
(* and on the platforms without batches.  Buffers and addresses are reused  *)
(* from one batch to the next and are never cleared.                        *)
(*                                                                          *)
(* Abstractions.  A datagram is its sender and a number.  A reply is the    *)
(* address it goes to and the datagram found in the buffer it answers.      *)
(***************************************************************************)
EXTENDS Integers, Sequences, Positions

CONSTANTS
    Peers,        \* addresses of the clients, all of the socket's own kind
    BatchSize,    \* BATCH_SIZE
    Ways,         \* ways of receiving and sending: of "linux", "unbatched", "other"
    Nobody,       \* the address in a slot that was never filled
    MaxDatagrams  \* bound on the datagrams, for model checking

ASSUME DatagramsAssumption ==
    /\ BatchSize \in Nat \ {0} /\ Ways \subseteq {"linux", "unbatched", "other"}
    /\ MaxDatagrams \in Nat /\ Nobody \notin Peers

VARIABLES
    way,       \* of Ways
    queue,     \* datagrams the kernel holds
    arrived,   \* number of datagrams so far
    bufs,      \* the buffers
    addrs,     \* the addresses of BatchScratch, beside the buffers
    received,  \* the addresses recv_batch reports, in its order
    replies,   \* built for the batch
    left,      \* replies that left, in their order
    counted,   \* how many the send says it took
    noted,     \* replies whose transmit time was noted
    loop       \* where the loop is

netVars == <<way, queue, arrived, bufs, addrs, received, replies, left, counted, noted, loop>>

NoPacket == [peer |-> Nobody, nr |-> 0]
Fewer(a, b) == IF a < b THEN a ELSE b
First(s, n) == SubSeq(s, 1, n)

NetInit ==
    /\ way \in Ways
    /\ queue = <<>> /\ arrived = 0
    /\ bufs = [i \in 1..BatchSize |-> NoPacket] /\ addrs = [i \in 1..BatchSize |-> Nobody]
    /\ received = <<>> /\ replies = <<>> /\ left = <<>> /\ counted = 0 /\ noted = {}
    /\ loop = "receive"

Datagram(p) ==
    /\ arrived < MaxDatagrams
    /\ arrived' = arrived + 1
    /\ queue' = Append(queue, [peer |-> p, nr |-> arrived + 1])
    /\ UNCHANGED <<way, bufs, addrs, received, replies, left, counted, noted, loop>>

-----------------------------------------------------------------------------
(* recv_batch, after wait_readable.  An error, a signal and a datagram that *)
(* was dropped since the poll leave the batch empty: the loop polls again.  *)

\* The addresses are reported in the order of the buffers; one that is of no known
\* family, which the socket does not have, would be passed over.
Report(n) == Pick(addrs', {i \in 1..n : addrs'[i] # Nobody})

TakesAll == BatchSize   \* mutant: the fallback fills the buffers too
Takes == 1

Fill(n) ==
    /\ bufs'  = [i \in 1..BatchSize |-> IF i <= n THEN queue[i] ELSE bufs[i]]
    /\ addrs' = [i \in 1..BatchSize |-> IF i <= n THEN queue[i].peer ELSE addrs[i]]
    /\ queue' = SubSeq(queue, n + 1, Len(queue))
    /\ received' = Report(n)
    /\ loop' = "build"
    /\ UNCHANGED <<way, arrived, replies, left, counted, noted>>

\* recvmmsg
RecvBatch ==
    /\ loop = "receive" /\ way # "other"
    /\ \E n \in 1..Fewer(BatchSize, Len(queue)) : Fill(n)
\* recv_from
RecvFrom ==
    /\ loop = "receive" /\ way = "other"
    /\ \E n \in 1..Fewer(Takes, Len(queue)) : Fill(n)

-----------------------------------------------------------------------------
\* build_reply_in for every datagram of the batch: not every one is answered.
BuildReplies ==
    /\ loop = "build"
    /\ \E answered \in SUBSET DOMAIN received :
         replies' = Pick([i \in DOMAIN received |-> [to |-> received[i], request |-> bufs[i]]], answered)
    /\ loop' = IF replies' = <<>> THEN "receive" ELSE "send"
    /\ UNCHANGED <<way, queue, arrived, bufs, addrs, received, left, counted, noted>>

Depart(n, count) ==
    /\ left' = left \o First(replies, n)
    /\ counted' = count
    /\ loop' = IF count = 0 THEN "receive" ELSE "note"
    /\ UNCHANGED <<way, queue, arrived, bufs, addrs, received, replies, noted>>

\* sendmmsg, or send_to until one fails: the count is what left, of a batch at most.
SendBatch ==
    /\ loop = "send" /\ way # "other"
    /\ \E n \in 0..Fewer(BatchSize, Len(replies)) : Depart(n, n)
\* send_to until the socket is full, or until it fails: an error has no count.
SendTo ==
    /\ loop = "send" /\ way = "other"
    /\ \E n \in 0..Len(replies) : Depart(n, n) \/ (n < Len(replies) /\ Depart(n, 0))

\* note_transmit_at
NoteSent ==
    /\ loop = "note"
    /\ noted' = noted \cup {replies[i].request.nr : i \in 1..counted}
    /\ loop' = "receive"
    /\ UNCHANGED <<way, queue, arrived, bufs, addrs, received, replies, left, counted>>

NetNext ==
    \/ \E p \in Peers : Datagram(p)
    \/ RecvBatch \/ RecvFrom \/ BuildReplies \/ SendBatch \/ SendTo \/ NoteSent
NetSpec == NetInit /\ [][NetNext]_netVars

-----------------------------------------------------------------------------
\* Every reply goes to the sender of the datagram it answers, none is answered twice, and
\* when a batch is done the transmit time was noted of exactly those that left: a reply
\* that left unnoted would leave the time of an older one beside its receive stamp, for
\* the client's next interleaved request to be answered with.  "both must produce
\* identical results" (net.rs, recv_batch).
AnswersGoHome ==
    /\ \A i \in DOMAIN left : left[i].to = left[i].request.peer
    /\ \A i, j \in DOMAIN left : left[i].request = left[j].request => i = j
    /\ loop = "receive" => noted = {left[i].request.nr : i \in DOMAIN left}
=============================================================================
