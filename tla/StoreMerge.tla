----------------------------- MODULE StoreMerge -----------------------------
(***************************************************************************)
(* `rtimed state merge` (state_cmd.rs): the store of a peer is merged into  *)
(* the store at the path, which is then flushed.  The peer's replica shares *)
(* the salt, as the replicas of one owner's data do.                        *)
(***************************************************************************)
EXTENDS Store

VARIABLES
    peer,    \* the registers of the peer's replica
    merged   \* the open store has taken them in

mergeVars == <<vars, peer, merged>>

MergeInit ==
    /\ Init /\ merged = FALSE
    /\ \E h \in Servers, p \in Passphrases, s \in Salts :
          peer = [Empty EXCEPT ![Drift(h)] = [key |-> Drift(h), pass |-> p, salt |-> s, put |-> 1]]

\* merge_from: registers of the peer appear beside the local ones; of two writers of one
\* register either may win.  A panic of the CRDT library is swallowed and brings nothing.
MergeFrom ==
    /\ proc = "ready" /\ ~ merged
    /\ \/ merged' = TRUE
          /\ \E theirs \in SUBSET {k \in Keys : peer[k] # Nothing} :
                /\ {k \in Keys : peer[k] # Nothing /\ db[k] = Nothing} \subseteq theirs
                /\ db' = [k \in Keys |-> IF k \in theirs THEN peer[k] ELSE db[k]]
       \/ UNCHANGED <<merged, db>>
    /\ UNCHANGED <<salt, tmp, file, proc, pass, fields, puts, peer>>

MergeNext ==
    \/ MergeFrom
    \/ /\ Next /\ UNCHANGED peer
       /\ merged' = (merged /\ proc' # "down")
MergeSpec == MergeInit /\ [][MergeNext]_mergeVars

\* What was merged in reaches the disk with the flush that follows: "merge folds a
\* peer replica's CRDT state into a local store" (state_cmd.rs).
MergeReachesTheFile ==
    [][merged /\ Rename => \A k \in Keys : peer[k] # Nothing => file'[k] # Nothing]_mergeVars
=============================================================================
