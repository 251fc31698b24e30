------------------------ MODULE MCWithdrawProcessor ------------------------
(* Instances of WithdrawProcessor for TLC: requests q1 and q2 of alice, and *)
(* runs x1 and x2 of the program.                                           *)
EXTENDS WithdrawLedgerProofs, TLC

CONSTANTS alice, q1, q2, x1, x2

UserOfRequest == [r \in Requests |-> alice]

\* 10, and 1 of fee.
Amounts == [r \in Requests |-> 10]

\* Enough for one request, not for two.
StartBalances == [v \in Users |-> 15]

\* A purchase that leaves enough for a request but not for its fee, one that
\* was given up, and a sale or deposit that makes two requests affordable.
OtherChanges == {-5, 0, 7}
=============================================================================
