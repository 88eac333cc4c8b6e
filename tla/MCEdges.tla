------------------------------ MODULE MCEdges ------------------------------
(***************************************************************************)
(* The parts around the clock's own loop, checked side by side: one run,    *)
(* one part of which moves while the others rest in an initial state.       *)
(***************************************************************************)
EXTENDS ClockDrivers, ShmRefclock, Tracking, KeyEstablishment, Datagrams, TimeClient,
        Store

VARIABLE part

One(S) == CHOOSE x \in S : TRUE

Endpoints == [port : NtpPorts, answer : Strangers \cup {Ours}, alpn : {TRUE}]

daemonVars == <<driverVars, shmVars, reportVars>>
netOrKeyVars == <<keVars, netVars>>

EdgesInit ==
    /\ part \in {"drivers", "refclock", "report", "keys", "net", "client", "store"}
    /\ DriverInit /\ (part # "drivers"  => platform = One(Platforms))
    /\ ShmInit    /\ (part # "refclock" => seg.mode = 0)
    /\ ReportInit
    /\ KeInit     /\ (part # "keys"     => peer = One({p \in Endpoints : p.answer = Ours}))
    /\ NetInit    /\ (part # "net"      => way = One(Ways))
    /\ ClientInit /\ (part # "client"   => drift = One(Drifts) /\ wall = One(Jumps))
    /\ Init       /\ (part # "store"    => pass = One(Passphrases))

EdgesNext ==
    /\ UNCHANGED part
    /\ \/ /\ UNCHANGED <<netOrKeyVars, clientVars, vars>>
          /\ \/ part = "drivers"  /\ DriverNext /\ UNCHANGED <<shmVars, reportVars>>
             \/ part = "refclock" /\ ShmNext    /\ UNCHANGED <<driverVars, reportVars>>
             \/ part = "report"   /\ ReportNext /\ UNCHANGED <<driverVars, shmVars>>
       \/ /\ UNCHANGED <<daemonVars, vars>>
          /\ \/ part = "keys"     /\ KeNext     /\ UNCHANGED <<netVars, clientVars>>
             \/ part = "net"      /\ NetNext    /\ UNCHANGED <<keVars, clientVars>>
             \/ part = "client"   /\ ClientNext /\ UNCHANGED netOrKeyVars
       \/ /\ UNCHANGED <<daemonVars, netOrKeyVars, clientVars>>
          /\ part = "store" /\ Next

EdgesSpec ==
    EdgesInit /\ [][EdgesNext]_<<part, daemonVars, netOrKeyVars, clientVars, vars>>

\* What the constants are given.
Frequencies == {-501, 31, 1000}
DrainsUs    == {-5000, -7, 0, 900}
DrainRates  == {0, 7, 166666, 240000}
StepUnits   == {-57, 33, 5}
Corrections == {-3, -1, 0, 2}
BigJumps    == {-5, 5}
Foreign ==   \* a server that names another and goes on after a cookie, one that refuses the
             \* algorithm, and one with a record that must be understood
    LET Good   == <<Record("proto", TRUE), Record("aead", TRUE), Record("cookie", 1)>>
        Strange == [type |-> "strange", critical |-> TRUE, body |-> 0]
    IN  {Good \o <<Record("server", "other"), Record("warning", 1), Record("end", 0)>>,
         <<Record("aead", FALSE)>> \o Good \o <<Record("aead", FALSE), Record("end", 0)>>,
         Good \o <<Strange, Record("end", 0)>>}
=============================================================================
