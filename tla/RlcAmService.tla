---------------------------- MODULE RlcAmService ----------------------------
(***************************************************************************)
(* What an RLC AM bearer promises its users: an accepted SDU is delivered   *)
(* at most once, unless it was discarded before it was sent, in any order;  *)
(* and a confirmed SDU has been delivered.                                  *)
(***************************************************************************)
EXTENDS Naturals

CONSTANT Sdus
VARIABLES accepted, delivered, confirmed
vars == <<accepted, delivered, confirmed>>

Init == accepted = {} /\ delivered = {} /\ confirmed = {}

Accept(sdu) ==
  /\ sdu \notin accepted \cup delivered
  /\ accepted' = accepted \cup {sdu}
  /\ UNCHANGED <<delivered, confirmed>>

Discard(sdu) ==
  /\ sdu \in accepted \ delivered
  /\ accepted' = accepted \ {sdu}
  /\ UNCHANGED <<delivered, confirmed>>

Deliver(sdu) ==
  /\ sdu \in accepted \ delivered
  /\ delivered' = delivered \cup {sdu}
  /\ UNCHANGED <<accepted, confirmed>>

Confirm(sdus) ==
  /\ sdus \subseteq delivered
  /\ confirmed' = confirmed \cup sdus
  /\ UNCHANGED <<accepted, delivered>>

Next ==
  \/ \E sdu \in Sdus : Accept(sdu) \/ Discard(sdu) \/ Deliver(sdu)
  \/ \E sdus \in SUBSET Sdus : Confirm(sdus)

Spec == Init /\ [][Next]_vars
=============================================================================
