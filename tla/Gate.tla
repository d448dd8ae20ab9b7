--------------------------------- MODULE Gate ---------------------------------
(***************************************************************************)
(* What the program promises about the calls it serves: one at a time,     *)
(* each judged by the registry as it is when the call takes effect, none   *)
(* while the registry is blocked, and none that leaves a permission on an  *)
(* account that took part.  A call that is not served changes nothing of   *)
(* this, and a served one neither the registry nor any other account.      *)
(***************************************************************************)
EXTENDS SecurityRegistry

CONSTANTS Users, Signer, Accounts, Wsol

VARIABLES
  blocked,   \* the registry holds lamports beyond its rent
  granted,   \* the signer's accounts with a delegate or a close authority
  served     \* the call that has just taken effect

gvars == <<rvars, blocked, granted, served>>

Nothing == [pool |-> NoAdmin]

ServedType == [pool : Keys, feeOwner : Users \cup Keys, recipient : Users,
               accounts : SUBSET Accounts]

GateInit == Init /\ blocked = FALSE /\ granted = {} /\ served = Nothing

Administer ==
  /\ served = Nothing
  /\ \/ \E a \in Keys, P, F \in SUBSET Keys : Create(a, P, F) /\ blocked' \in BOOLEAN
     \/ \E P, F \in SUBSET Keys : Replace(P, F) /\ UNCHANGED blocked
     \/ Remove /\ blocked' = FALSE
  /\ UNCHANGED <<granted, served>>

\* A single lamport is enough, and only Remove takes it back.
Fund ==
  /\ served = Nothing
  /\ admin # NoAdmin
  /\ blocked' = TRUE
  /\ UNCHANGED <<rvars, granted, served>>

Grant ==
  /\ served = Nothing
  /\ granted' \in SUBSET Accounts
  /\ UNCHANGED <<rvars, blocked, served>>

\* Only the closing of the wSOL account removes a permission; with one on another of its
\* accounts a call is not served.
Serve ==
  /\ served = Nothing
  /\ served' \in ServedType
  /\ ~blocked
  /\ served'.pool \in pools
  /\ served'.feeOwner \in feeOwners \cup {Signer, served'.recipient}
  /\ granted \cap served'.accounts \subseteq {Wsol}
  /\ granted' = granted \ served'.accounts
  /\ UNCHANGED <<rvars, blocked>>

Finish ==
  /\ served # Nothing
  /\ served' = Nothing
  /\ UNCHANGED <<rvars, blocked, granted>>

GateNext == Administer \/ Fund \/ Grant \/ Serve \/ Finish

GateSpec == GateInit /\ [][GateNext]_gvars

===============================================================================
