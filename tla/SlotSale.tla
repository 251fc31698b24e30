------------------------------ MODULE SlotSale ------------------------------
(***************************************************************************)
(* What the purchase of ad slots promises, without documents, locks,       *)
(* sessions or recoverers: slots are sold in order, each to one buyer who  *)
(* can pay for it and owes nothing else, and each sale is settled once.    *)
(* SlotPurchase implements this specification.                             *)
(***************************************************************************)
EXTENDS Integers

CONSTANTS Users, NoUser, MaxSlot, StartBalance, OtherAmounts

VARIABLES
  owner,     \* who bought slot i
  price,     \* for how much
  settled,   \* whether the price has left the owner's balance
  balance

vars == <<owner, price, settled, balance>>

Owes(u, i) == owner[i] = u /\ ~settled[i]
OwesNothing(u) == \A i \in 0..MaxSlot : ~Owes(u, i)

Init ==
  /\ owner   = [i \in 0..MaxSlot |-> NoUser]
  /\ price   = [i \in 0..MaxSlot |-> 0]
  /\ settled = [i \in 0..MaxSlot |-> FALSE]
  /\ balance = StartBalance

Sell(i, u) ==
  /\ owner[i] = NoUser
  /\ owner' = [owner EXCEPT ![i] = u]
  /\ \A j \in 0..(i - 1) : owner[j] # NoUser
  /\ OwesNothing(u)
  /\ \E p \in 0..balance[u] : price' = [price EXCEPT ![i] = p]
  /\ UNCHANGED <<settled, balance>>

Settle(i, u) ==
  /\ Owes(u, i)
  /\ settled' = [settled EXCEPT ![i] = TRUE]
  /\ balance' = [balance EXCEPT ![u] = @ - price[i]]
  /\ UNCHANGED <<owner, price>>

\* A withdrawal or a credit, never between a sale and its settlement.
Change(u) ==
  /\ OwesNothing(u)
  /\ \E d \in OtherAmounts :
       /\ balance[u] + d >= 0
       /\ balance' = [balance EXCEPT ![u] = @ + d]
  /\ UNCHANGED <<owner, price, settled>>

Next == \E u \in Users :
  \/ \E i \in 0..MaxSlot : Sell(i, u) \/ Settle(i, u)
  \/ Change(u)

Spec == Init /\ [][Next]_vars
=============================================================================
