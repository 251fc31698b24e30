--------------------------- MODULE MCSlotPurchase ---------------------------
(* Instances of SlotPurchase for TLC: two buyers, alice and bob.           *)
EXTENDS SlotSaleProofs, TLC

CONSTANTS alice, bob, s1, s2, a1, a2, b1, r1, r2

\* One session each.
UserOfRivals == s1 :> alice @@ s2 :> bob

\* A single buyer: what is left to the recoverers when the driver fails.
UserOfOne == s1 :> alice

\* Two tabs of the same user, with two ads to choose from.
UserOfTabs == s1 :> alice @@ s2 :> alice

OwnerOfFiller == [f \in Fillers |-> IF f = b1 THEN bob ELSE alice]

\* Enough for two slots at the minimum price, not for a dearer second one.
StartBalances == [u \in Users |-> 2]

\* A withdrawal that takes one unit, and one that was reverted.
Withdrawals == {-1, 0}

\* The two buyers may be exchanged, with all that is theirs.
Exchange ==
  s1 :> s2 @@ s2 :> s1 @@ alice :> bob @@ bob :> alice @@ a1 :> b1 @@ b1 :> a1
RivalsSymmetry == {Exchange}

\* The two tabs may be exchanged, and the two ads.
TabsSymmetry == Permutations({s1, s2}) \cup Permutations({a1, a2})
=============================================================================
