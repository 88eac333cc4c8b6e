------------------------- MODULE SyncDaemon_proofs -------------------------
(***************************************************************************)
(* Proofs about SyncDaemon, for any number of sources with any biases and    *)
(* any root distances, and whatever the guard and the driver refuse.         *)
(***************************************************************************)
EXTENDS SyncDaemon, Estimation_proofs

USE SourcesAssumption, BoundsAssumption

TypeInv ==
    /\ error \in Int
    /\ heard \subseteq Sources
    /\ est \in [Sources -> [offset : Int, dist : Nat \ {0}, stratum : 1..Unsynchronized]]
    /\ lost \in [Sources -> 0..UnreachableAfter]
    /\ served \in Int /\ tracked \in BOOLEAN /\ corrected \in BOOLEAN
    /\ pc \in {"poll", "select", "steer", "exited"}

\* From the answer to the end of the turn the answering source has an estimate, and what
\* is steered by is what the selection would choose now.
TurnInv ==
    /\ pc \in {"select", "steer"} => answered \in heard
    /\ pc = "steer" => selected = SelectedIndex

Inv == TypeInv /\ TurnInv /\ VouchesOnlyAfterCorrection

LEMMA BumpFacts ==
    ASSUME NEW n \in Nat, NEW cap \in Nat, n <= cap
    PROVE  Bump(n, cap) \in 0..cap
BY DEF Bump

LEMMA InitInv == Init => Inv
<1> SUFFICES ASSUME Init PROVE Inv
  OBVIOUS
<1>1. TypeInv
  <2>1. est \in [Sources -> [offset : Int, dist : Nat \ {0}, stratum : 1..Unsynchronized]]
    BY DEF Init
  <2>2. lost \in [Sources -> 0..UnreachableAfter]
    BY DEF Init
  <2>3. error \in Int /\ heard = {} /\ served \in Int
    BY DEF Init
  <2> QED BY <2>1, <2>2, <2>3 DEF Init, TypeInv
<1>2. TurnInv
  BY DEF Init, TurnInv
<1>3. VouchesOnlyAfterCorrection
  BY DEF Init, VouchesOnlyAfterCorrection
<1> QED BY <1>1, <1>2, <1>3 DEF Inv

LEMMA NextTypeInv == TypeInv /\ TurnInv /\ [Next]_vars => TypeInv'
<1> SUFFICES ASSUME TypeInv, TurnInv, [Next]_vars PROVE TypeInv'
  OBVIOUS
<1> USE DEF TypeInv
<1>1. ASSUME NEW s \in Sources, NEW d \in Dists, Answer(s, d) PROVE TypeInv'
  BY <1>1 DEF Answer, status, views
<1>2. ASSUME Select PROVE TypeInv'
  BY <1>2 DEF Select, source, status, views
<1>3. ASSUME SelectedOther PROVE TypeInv'
  BY <1>3 DEF SelectedOther, source, views
<1>4. ASSUME Hold PROVE TypeInv'
  BY <1>4 DEF Hold, source, views
<1>5. ASSUME NEW v \in Verdicts, SteerOk(v) PROVE TypeInv'
  <2>1. answered \in Sources
    BY <1>5 DEF SteerOk, Steering, TurnInv
  <2> QED BY <1>5, <2>1 DEF SteerOk, Synchronized, AtMost, source
<1>6. ASSUME SteerRefused PROVE TypeInv'
  BY <1>6 DEF SteerRefused, source
<1>7. ASSUME SteerGiveUp PROVE TypeInv'
  BY <1>7 DEF SteerGiveUp, source, views, status
<1>8. ASSUME Retire PROVE TypeInv'
  BY <1>8 DEF Retire, source, views, thread
<1>9. ASSUME NEW s \in Sources, Lose(s) PROVE TypeInv'
  BY <1>9, BumpFacts DEF Lose, status, views, thread
<1>10. ASSUME Tick PROVE TypeInv'
  BY <1>10 DEF Tick, source, status, thread
<1>11. ASSUME Expire PROVE TypeInv'
  BY <1>11 DEF Expire, source, status, thread
<1>12. ASSUME UNCHANGED vars PROVE TypeInv'
  BY <1>12 DEF vars, source, status, views, thread
<1> QED
  BY <1>1, <1>2, <1>3, <1>4, <1>5, <1>6, <1>7, <1>8, <1>9, <1>10, <1>11, <1>12
  DEF Next, Poll, Answers, Proceed

LEMMA NextTurnInv == TypeInv /\ TurnInv /\ [Next]_vars => TurnInv'
<1> SUFFICES ASSUME TypeInv, TurnInv, [Next]_vars PROVE TurnInv'
  OBVIOUS
<1> USE DEF TurnInv
<1>1. ASSUME NEW s \in Sources, NEW d \in Dists, Answer(s, d) PROVE TurnInv'
  BY <1>1 DEF Answer
<1>2. ASSUME Select PROVE TurnInv'
  <2>1. SelectedIndex' = SelectedIndex
    BY <1>2 DEF Select, source, SelectedIndex, NoQuorum, Answering, Candidates
  <2> QED BY <1>2, <2>1 DEF Select, source
<1>3. ASSUME \/ SelectedOther \/ Hold \/ SteerRefused \/ SteerGiveUp \/ Retire \/ Expire
             \/ \E v \in Verdicts : SteerOk(v)
             \/ \E s \in Sources : Lose(s)
      PROVE  TurnInv'
  <2>1. pc' \in {"poll", "exited"}
    BY <1>3
    DEF SelectedOther, Hold, SteerRefused, SteerGiveUp, Retire, Expire, SteerOk, Lose, thread
  <2> QED BY <2>1
<1>4. ASSUME Tick \/ UNCHANGED vars PROVE TurnInv'
  <2>1. UNCHANGED <<heard, est, lost, pc, answered, selected>>
    BY <1>4 DEF Tick, vars, source, thread
  <2>2. SelectedIndex' = SelectedIndex
    BY <2>1 DEF SelectedIndex, NoQuorum, Answering, Candidates
  <2> QED BY <2>1, <2>2
<1> QED BY <1>1, <1>2, <1>3, <1>4 DEF Next, Poll, Answers, Proceed

LEMMA NextVouches ==
    TypeInv /\ VouchesOnlyAfterCorrection /\ [Next]_vars => VouchesOnlyAfterCorrection'
<1> SUFFICES ASSUME TypeInv, VouchesOnlyAfterCorrection, [Next]_vars
             PROVE  VouchesOnlyAfterCorrection'
  OBVIOUS
<1> USE DEF VouchesOnlyAfterCorrection
\* Only a verdict raises what is vouched for, and then the correction is made.
<1>1. ASSUME NEW v \in Verdicts, SteerOk(v) PROVE VouchesOnlyAfterCorrection'
  BY <1>1 DEF SteerOk, Synchronized
<1>2. ASSUME SteerRefused PROVE VouchesOnlyAfterCorrection'
  BY <1>2 DEF SteerRefused
<1>3. ASSUME Expire PROVE VouchesOnlyAfterCorrection'
  BY <1>3 DEF Expire
<1>4. ASSUME \/ Select \/ SelectedOther \/ Hold \/ SteerGiveUp \/ Retire \/ Tick
             \/ UNCHANGED vars
             \/ \E s \in Sources : Poll(s)
      PROVE  VouchesOnlyAfterCorrection'
  <2>1. UNCHANGED <<served, tracked, corrected>>
    BY <1>4
    DEF Select, SelectedOther, Hold, SteerGiveUp, Retire, Tick, vars, Poll, Answers, Answer,
        Lose, views
  <2> QED BY <2>1
<1> QED BY <1>1, <1>2, <1>3, <1>4 DEF Next, Proceed

\* Neither the control socket nor the LAN is told that the clock is synchronised before a
\* correction has reached it (sync.rs, run).
THEOREM NothingIsVouchedForEarly == Spec => []VouchesOnlyAfterCorrection
<1>1. Inv /\ [Next]_vars => Inv'
  BY NextTypeInv, NextTurnInv, NextVouches DEF Inv
<1>2. Inv => VouchesOnlyAfterCorrection
  BY DEF Inv
<1> QED BY InitInv, <1>1, <1>2, PTL DEF Spec

-----------------------------------------------------------------------------
\* With several sources, none of which is given up, the quorum has been met by at least
\* two, so the source that is selected has been found to overlap another.
LEMMA SteeringIsCorroborated ==
    ASSUME Inv, N > 1, Steering, \A s \in Sources : lost[s] < UnreachableAfter
    PROVE  \E s \in heard \ {answered} : Agree(est[answered], est[s])
<1> DEFINE E == Candidates
<1>1. /\ DOMAIN E = heard /\ heard \subseteq Sources /\ answered \in heard
      /\ \A s \in heard : E[s] = est[s]
  BY DEF Candidates, Steering, Inv, TypeInv, TurnInv
<1>2. IsFiniteSet(Sources) /\ Cardinality(Sources) = N
  BY FS_Interval DEF Sources
<1>3. Slice(E)
  <2>1. IsFiniteSet(heard) /\ heard \subseteq Int
    <3>1. heard \in SUBSET Sources /\ Sources \subseteq Int
      BY <1>1 DEF Sources
    <3> QED BY <1>2, <3>1, FS_Subset
  <2>2. \A s \in heard : /\ est[s].offset \in Int /\ est[s].dist \in Nat
                         /\ est[s].dist > 0 /\ est[s].stratum \in Int
    BY DEF Inv, TypeInv
  <2> HIDE DEF E
  <2> QED BY <1>1, <2>1, <2>2 DEF Slice
<1>4. Answering = Sources
  BY DEF Answering
<1>5. SelectedIndex = answered /\ answered # Never
  BY <1>1 DEF Steering, Inv, TurnInv, Never, Sources
<1>6. ~ NoQuorum /\ Truechimers(E) # {} /\ First(E) = answered
  BY <1>5 DEF SelectedIndex
<1>7. Cardinality(heard) > 1
  <2>1. Cardinality(heard) \in Nat
    BY <1>1, <1>2, FS_Subset, FS_CardinalityType
  <2> QED BY <1>2, <1>4, <1>6, <2>1 DEF NoQuorum
<1> HIDE DEF E
<1>8. PICK s \in heard \ {answered} :
         Low(E, answered) <= High(E, s) /\ Low(E, s) <= High(E, answered)
  BY <1>1, <1>3, <1>6, <1>7, FirstIsCorroborated
<1> QED BY <1>1, <1>8 DEF Agree, Low, High

\* As long as no configured source has been given up as unreachable, the first correction
\* is one that another source's estimate agrees with (sync.rs, selected_index).
THEOREM NoSingleSourceMovesTheClock == Spec => FirstCorrectionIsCorroborated
<1>1. Inv /\ [Next]_vars => Inv'
  BY NextTypeInv, NextTurnInv, NextVouches DEF Inv
<1>2. Inv => [N > 1 /\ ~corrected /\ SteerOk("accepted")
                 /\ (\A s \in Sources : lost[s] < UnreachableAfter)
              => \E s \in heard \ {answered} : Agree(est[answered], est[s])]_vars
  BY SteeringIsCorroborated DEF SteerOk
<1> QED BY InitInv, <1>1, <1>2, PTL DEF Spec, FirstCorrectionIsCorroborated
=============================================================================
