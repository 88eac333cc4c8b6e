-------------------------- MODULE KeyEstablishment --------------------------
(***************************************************************************)
(* NTS key establishment over TLS: the client (rusty_time-nts, ke.rs), the  *)
(* records on the stream (records.rs) and the server's thread for the       *)
(* connection (rusty_time-daemon, server.rs, handle_ke).  Either stream may *)
(* be cut anywhere, by a close that TLS was not told of or by an error, and *)
(* arrives in pieces of any length.                                         *)
(*                                                                          *)
(* Abstractions.  A record is two units long, so that a piece may end in    *)
(* the middle of one.  The keys of a connection are its number, and a       *)
(* cookie holds the keys it was minted for.  The limits on the size of a    *)
(* message are not reached.  Certificates are good.                         *)
(***************************************************************************)
EXTENDS Integers, Sequences, Positions

CONSTANTS
    Addresses,   \* number of addresses of the host
    CookieCount, \* KE_COOKIE_COUNT
    NtpPorts,    \* ports a server may answer NTP on
    Strangers,   \* what servers of other makes may answer
    MaxConns     \* bound on the connections, for model checking

ASSUME KeAssumption ==
    /\ Addresses \in Nat \ {0} /\ CookieCount \in Nat \ {0} /\ NtpPorts \subseteq Nat
    /\ MaxConns \in Nat

VARIABLES
    peer,     \* the server: its NTP port, and its answer unless it is this program
    dialling, \* the client: idle, connecting to an address, or reading
    conns,    \* number of connections made
    handler,  \* the server's thread: reading, or gone
    up, down, \* the streams of the connection to the server and to the client
    session   \* what the last establishment that succeeded returned

keVars == <<peer, dialling, conns, handler, up, down, session>>

DefaultPort == 123
NoKeys      == [conn |-> 0]
AtRest      == [at |-> "idle"]
Ours        == <<>>   \* the answer of this program is made when it is asked

-----------------------------------------------------------------------------
(* Streams of records.                                                     *)

Record(type, body) == [type |-> type, critical |-> type \in {"proto", "aead", "error", "end"},
                       body |-> body]
Stream(records)    == [sent |-> records, got |-> 0, end |-> "open"]

\* records: whole ones, up to the end of the message
HasEnd(s) == \E i \in 1..(s.got \div 2) : s.sent[i].type = "end"
Heard(s)  == SubSeq(s.sent, 1,
                    IF HasEnd(s) THEN (CHOOSE i \in 1..(s.got \div 2) : s.sent[i].type = "end")
                    ELSE s.got \div 2)
\* RecordError::Truncated
Truncated(s) == ~ HasEnd(s) /\ s.got % 2 = 1

AtEof(s) == s.end = "cut" \/ (s.end = "closed" /\ s.got = 2 * Len(s.sent))
Arrives(s, n) == IF s.end # "cut" /\ s.got + n <= 2 * Len(s.sent)
                 THEN [s EXCEPT !.got = @ + n] ELSE s

Where(records, type) == {i \in DOMAIN records : records[i].type = type}
All(records, type)   == Pick(records, Where(records, type))
\* The last record of a type decides.
Said(records, type, default) ==
    LET at == Where(records, type)
    IN  IF at = {} THEN default ELSE records[Nth(at, Cardinality(at))].body

-----------------------------------------------------------------------------
(* The two ends.                                                           *)

ClientRequest == <<Record("proto", TRUE), Record("aead", TRUE), Record("end", 0)>>

\* handle_ke: a bad request, or what was negotiated and a batch of cookies.
CookieRecord(i) == Record("cookie", [keys |-> conns, nr |-> i])
PortRecord == IF peer.port = DefaultPort THEN <<>> ELSE <<Record("port", peer.port)>>
KeAnswerPortLast(request) ==   \* mutant: the port is written after the cookies
    IF Said(request, "proto", FALSE) /\ Said(request, "aead", FALSE)
    THEN <<Record("proto", TRUE), Record("aead", TRUE)>>
         \o [i \in 1..CookieCount |-> CookieRecord(i)] \o PortRecord \o <<Record("end", 0)>>
    ELSE <<Record("error", 1), Record("end", 0)>>
KeAnswer(request) ==
    IF Said(request, "proto", FALSE) /\ Said(request, "aead", FALSE)
    THEN <<Record("proto", TRUE), Record("aead", TRUE)>> \o PortRecord
         \o [i \in 1..CookieCount |-> CookieRecord(i)] \o <<Record("end", 0)>>
    ELSE <<Record("error", 1), Record("end", 0)>>

\* parse_response
Known == {"proto", "aead", "cookie", "warning", "server", "port", "end"}
Agreed(s) ==
    /\ ~ Truncated(s)
    /\ \A i \in DOMAIN Heard(s) : /\ Heard(s)[i].type # "error"
                                  /\ Heard(s)[i].critical => Heard(s)[i].type \in Known
    /\ Said(Heard(s), "proto", FALSE) /\ Said(Heard(s), "aead", FALSE)
    /\ All(Heard(s), "cookie") # <<>>
KeResult(s) ==
    [conn    |-> conns,
     host    |-> Said(Heard(s), "server", "host"),
     port    |-> Said(Heard(s), "port", DefaultPort),
     cookies |-> LET c == All(Heard(s), "cookie") IN [i \in DOMAIN c |-> c[i].body]]

-----------------------------------------------------------------------------
KeInit ==
    /\ peer \in [port : NtpPorts, answer : Strangers \cup {Ours}, alpn : BOOLEAN]
    /\ peer.answer = Ours => peer.alpn
    /\ dialling = AtRest /\ conns = 0 /\ handler = "gone"
    /\ up = Stream(<<>>) /\ down = Stream(<<>>) /\ session = NoKeys

\* establish_with_config: every address in its turn
Establish ==
    /\ dialling = AtRest /\ conns < MaxConns
    /\ dialling' = [at |-> "connecting", address |-> 1]
    /\ UNCHANGED <<peer, conns, handler, up, down, session>>
Unreachable ==
    /\ dialling.at = "connecting"
    /\ dialling' = IF dialling.address < Addresses THEN [dialling EXCEPT !.address = @ + 1] ELSE AtRest
    /\ UNCHANGED <<peer, conns, handler, up, down, session>>
Connect ==
    /\ dialling.at = "connecting"
    /\ dialling' = [at |-> "reading"] /\ conns' = conns + 1 /\ handler' = "reading"
    /\ up' = Stream(ClientRequest) /\ down' = Stream(<<>>)
    /\ UNCHANGED <<peer, session>>

Deliver ==
    /\ dialling.at = "reading"
    /\ \E n \in 1..(2 * (CookieCount + 4)) :
         \/ up' = Arrives(up, n) /\ UNCHANGED down
         \/ down' = Arrives(down, n) /\ UNCHANGED up
    /\ UNCHANGED <<peer, dialling, conns, handler, session>>
CutOff ==
    /\ dialling.at = "reading"
    /\ \/ up' = [up EXCEPT !.end = "cut"] /\ UNCHANGED down
       \/ down' = [down EXCEPT !.end = "cut"] /\ UNCHANGED up
    /\ UNCHANGED <<peer, dialling, conns, handler, session>>

\* handle_ke after its reading: end of message, or of the stream.
HandleKe ==
    /\ handler = "reading" /\ (HasEnd(up) \/ AtEof(up))
    /\ handler' = "gone"
    /\ down' = [down EXCEPT !.sent = IF peer.answer # Ours THEN peer.answer
                                     ELSE IF Truncated(up) THEN <<>> ELSE KeAnswer(Heard(up)),
                            !.end = IF @ = "open" THEN "closed" ELSE @]
    /\ UNCHANGED <<peer, dialling, conns, up, session>>
\* its read or its write fails, or takes ten seconds
HandlerFails ==
    /\ handler = "reading" /\ handler' = "gone"
    /\ down' = [down EXCEPT !.end = IF @ = "open" THEN "closed" ELSE @]
    /\ UNCHANGED <<peer, dialling, conns, up, session>>

\* The client after its reading: "A server that closes without close_notify still gave us
\* bytes".
Finished == HasEnd(down) \/ AtEof(down)
FinishKe ==
    /\ dialling.at = "reading" /\ Finished
    /\ dialling' = AtRest /\ handler' = "gone"
    /\ session' = IF peer.alpn /\ Agreed(down) THEN KeResult(down) ELSE session
    /\ UNCHANGED <<peer, conns, up, down>>
GivesUp ==
    /\ dialling.at = "reading"
    /\ dialling' = AtRest /\ handler' = "gone"
    /\ UNCHANGED <<peer, conns, up, down, session>>

KeNext ==
    \/ Establish \/ Unreachable \/ Connect \/ Deliver \/ CutOff
    \/ HandleKe \/ HandlerFails \/ FinishKe \/ GivesUp
KeSpec == KeInit /\ [][KeNext]_keVars

-----------------------------------------------------------------------------
\* A session made with this program's server is one the server agreed to, wherever the
\* connection was cut: the client takes a message that does not end for what it says so
\* far (establish_with_config), so whatever it must not miss has to come before the first
\* cookie (handle_ke), and no cookie or port is left from an earlier connection.
EstablishedIsAgreed ==
    session # NoKeys /\ peer.answer = Ours =>
        /\ session.host = "host" /\ session.port = peer.port
        /\ Len(session.cookies) \in 1..CookieCount
        /\ \A i \in DOMAIN session.cookies : session.cookies[i] = [keys |-> session.conn, nr |-> i]
=============================================================================
