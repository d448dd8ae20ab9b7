----------------------------- MODULE MCLpHandler -----------------------------
(* The whole program with two keys that are pools, fee owners and administrators *)
(* at once, lists of up to two pools and one fee owner, and the calls that differ *)
(* in what the checks look at.                                                    *)
EXTENDS LpHandler

CONSTANTS k1, k2

MCKeys == {k1, k2}
MCUsers == {"sam", "rex", "pat"}

\* The longest pool list first written, a shorter one over it, and other fee owners.
MCLists ==
  {[pools |-> <<k1, k2>>, feeOwners |-> <<k2>>],
   [pools |-> <<k1>>, feeOwners |-> <<>>],
   [pools |-> <<k2>>, feeOwners |-> <<k1>>]}

Plain(op, to) ==
  [op |-> op, pool |-> k1, native |-> TRUE, recipient |-> to, feeOwner |-> k2,
   separators |-> 1, executables |-> {"token", "raydium"}, remaining |-> {}]

\* Every operation with and without the native side, with accounts of the signer among
\* the remaining accounts.
Shapes ==
  {[Plain(op, "sam") EXCEPT !.native = native, !.remaining = rest] :
     op \in {"deposit", "increase", "decrease"}, native \in BOOLEAN,
     rest \in {{}, {"nft"}, {"wsol"}}}

\* Every pool and owner of the fee account, with another recipient.
Parties ==
  {[Plain("deposit", "rex") EXCEPT !.pool = p, !.feeOwner = f] :
     p \in MCKeys, f \in MCKeys \cup MCUsers}

Malformed ==
  {[Plain("decrease", "rex") EXCEPT !.separators = 2],
   [Plain("decrease", "rex") EXCEPT !.executables = {"token", "other"}]}

MCCalls == Shapes \cup Parties \cup Malformed

MCPermissions ==
  {[delegate |-> d, closeAuth |-> c] : d, c \in BOOLEAN} \ {[delegate |-> TRUE, closeAuth |-> TRUE]}
=============================================================================
