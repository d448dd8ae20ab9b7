------------------------------- MODULE Deposit -------------------------------
(***************************************************************************)
(* What a deposit promises to the wallets that take part: it happens in    *)
(* one step or not at all, and nothing but it changes what anybody holds.  *)
(* The signer gives the input of the call, and keeps what is returned or   *)
(* could not be sold back.  Of one token of which nothing is returned it   *)
(* may give more, when selling the rest of it back took more than the      *)
(* rest; it has what it gives.  The only other wallet that gains is the    *)
(* fee owner, who may get a rest of one token of which nothing is returned.*)
(***************************************************************************)
EXTENDS Integers

CONSTANTS Wallets, Signer

VARIABLES
  holding,   \* what each wallet holds of each side
  made       \* the deposit just made

dvars == <<holding, made>>

Sides == {0, 1}

Nothing == [done |-> FALSE]

DepositType == [done : {TRUE}, feeOwner : Wallets, amountIn : [Sides -> Nat],
                returned : [Sides -> Nat], unsold : [Sides -> Int], dust : [Sides -> Nat]]

\* What selling the rest of a token took beyond the rest.
Overdrawn(d, s) == IF d.unsold[s] < 0 THEN -d.unsold[s] ELSE 0

Affordable(d) == \A s \in Sides : d.amountIn[s] + Overdrawn(d, s) <= holding[Signer][s]

OnlyRests(d) ==
  \A s \in Sides :
    /\ d.dust[s] > 0 => d.returned[s] = 0 /\ d.unsold[s] = 0 /\ d.dust[1 - s] = 0
    /\ d.unsold[s] # 0 => d.returned[s] = 0 /\ d.unsold[1 - s] = 0

Share(d, w, s) ==
  (IF w = Signer THEN d.returned[s] + d.unsold[s] - d.amountIn[s] ELSE 0)
    + (IF w = d.feeOwner THEN d.dust[s] ELSE 0)

Init == holding \in [Wallets -> [Sides -> Int]] /\ made = Nothing

Make ==
  /\ made = Nothing
  /\ made' \in DepositType
  /\ Affordable(made') /\ OnlyRests(made')
  /\ holding' = [w \in Wallets |-> [s \in Sides |-> holding[w][s] + Share(made', w, s)]]

Finish ==
  /\ made # Nothing
  /\ made' = Nothing
  /\ UNCHANGED holding

Next == Make \/ Finish

Spec == Init /\ [][Next]_dvars

\* Nobody but the signer ever has less than before, and the signer by no more than the
\* input of the deposit and what selling a rest took beyond it.  It has both, and it
\* loses more than the input of one token at most, of which nothing is returned.
OnlySignerSpends ==
  [][\A w \in Wallets, s \in Sides :
       holding'[w][s] < holding[w][s] =>
         /\ w = Signer /\ made'.done
         /\ holding[w][s] - holding'[w][s] <= made'.amountIn[s] + Overdrawn(made', s)
         /\ made'.amountIn[s] + Overdrawn(made', s) <= holding[w][s]
         /\ Overdrawn(made', s) > 0 =>
              made'.returned[s] = 0 /\ Overdrawn(made', 1 - s) = 0]_dvars

=============================================================================
