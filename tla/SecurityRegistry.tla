--------------------------- MODULE SecurityRegistry ---------------------------
(***************************************************************************)
(* What the security_config account promises to the business entry points: *)
(* a single whitelist of pools and fee owners with one administrator, who  *)
(* replaces both lists at once or takes the registry down.  While it is up *)
(* at least one pool is listed; while it is down nothing is allowed.       *)
(***************************************************************************)
CONSTANTS Keys, NoAdmin

VARIABLES admin, pools, feeOwners

rvars == <<admin, pools, feeOwners>>

Init == admin = NoAdmin /\ pools = {} /\ feeOwners = {}

Create(a, P, F) ==
  /\ admin = NoAdmin
  /\ P # {}
  /\ admin' = a /\ pools' = P /\ feeOwners' = F

Replace(P, F) ==
  /\ admin # NoAdmin
  /\ P # {}
  /\ pools' = P /\ feeOwners' = F
  /\ UNCHANGED admin

Remove ==
  /\ admin # NoAdmin
  /\ admin' = NoAdmin /\ pools' = {} /\ feeOwners' = {}

Next ==
  \/ \E a \in Keys, P, F \in SUBSET Keys : Create(a, P, F)
  \/ \E P, F \in SUBSET Keys : Replace(P, F)
  \/ Remove

Spec == Init /\ [][Next]_rvars

=============================================================================
