---------------------------- MODULE MCNtsSession ----------------------------
EXTENDS NtsSession
(* Two cookies aimed at for eight, two exchanges a run for four: as with   *)
(* the nine of the program, a number of runs leaves one cookie of a full   *)
(* jar.                                                                    *)
MCCookieIds == 1..12
BothClients == {"sync", "query"}
QueryOnly == {"query"}
=============================================================================
