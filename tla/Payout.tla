-------------------------------- MODULE Payout --------------------------------
(***************************************************************************)
(* What a withdrawal or a claim promises to the wallets that take part: it *)
(* happens in one step or not at all, and nothing but it changes what      *)
(* anybody holds.  The yield of the position is divided between recipient  *)
(* and fee owner; a mint may withhold a part.  A call may cost the signer  *)
(* something only where it brings no principal, and then no more than the  *)
(* fee owner gets, or of one token that a conversion used up and more.     *)
(***************************************************************************)
EXTENDS Integers

CONSTANTS Wallets, Signer

VARIABLES
  holding,   \* what each wallet holds of each side
  payout     \* the payout just made

pvars == <<holding, payout>>

Sides == {0, 1}

Nothing == [made |-> FALSE]

\* principal and yield are what the position was to bring and brought, settled and fee
\* what reaches recipient and fee owner, advanced what the signer adds of its own,
\* overspent what a conversion took of the signer's own.
PayoutType == [made : {TRUE}, recipient : Wallets, feeOwner : Wallets,
               principal : [Sides -> Nat], yield : [Sides -> Nat],
               settled : [Sides -> Nat], fee : [Sides -> Nat],
               withheld : [Sides -> Nat], advanced : [Sides -> Nat],
               overspent : [Sides -> Nat]]

Balanced(p) ==
  \A s \in Sides :
    /\ p.settled[s] + p.fee[s] + p.withheld[s] = p.yield[s] + p.advanced[s]
    /\ p.advanced[s] <= p.fee[s]
    /\ p.advanced[s] > 0 => p.principal[s] = 0
    /\ p.overspent[s] > 0 => p.yield[s] = 0 /\ p.fee[s] = 0 /\ p.overspent[1 - s] = 0

Affordable(p) == \A s \in Sides : p.overspent[s] <= holding[Signer][s]

Share(p, w, s) ==
  (IF w = p.recipient THEN p.settled[s] ELSE 0)
    + (IF w = p.feeOwner THEN p.fee[s] ELSE 0)
    - (IF w = Signer THEN p.advanced[s] + p.overspent[s] ELSE 0)

Init == holding \in [Wallets -> [Sides -> Int]] /\ payout = Nothing

Pay ==
  /\ payout = Nothing
  /\ payout' \in PayoutType
  /\ Balanced(payout') /\ Affordable(payout')
  /\ holding' = [w \in Wallets |-> [s \in Sides |-> holding[w][s] + Share(payout', w, s)]]

Finish ==
  /\ payout # Nothing
  /\ payout' = Nothing
  /\ UNCHANGED holding

Next == Pay \/ Finish

Spec == Init /\ [][Next]_pvars

\* Nobody but the signer ever has less than before.  The signer pays either at most what
\* the fee owner gets, where the position brings no principal, or what a conversion took
\* of a token of which nothing is left: it has that, and it happens with one token only.
OnlySignerAdvances ==
  [][\A w \in Wallets, s \in Sides :
       LET loss == holding[w][s] - holding'[w][s] IN
       loss > 0 =>
         /\ w = Signer /\ payout'.made
         /\ \/ payout'.principal[s] = 0 /\ loss <= payout'.fee[s]
            \/ /\ loss <= payout'.overspent[s] /\ loss <= holding[w][s]
               /\ payout'.yield[s] = 0 /\ payout'.overspent[1 - s] = 0]_pvars

=============================================================================
