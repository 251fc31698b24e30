--------------------------- MODULE SlotSaleProofs ---------------------------
(***************************************************************************)
(* Theorems about the money of SlotPurchase: slots are sold without gaps,   *)
(* the price of a sold slot stays on its buyer's account until it is        *)
(* debited, and the purchases implement SlotSale.  What any step can do to  *)
(* the documents is one of the few steps of DocStep; the proofs are about   *)
(* those.                                                                   *)
(***************************************************************************)
EXTENDS SlotPurchaseProofs, SumTheorems

\* A session with the newest version of its account has its balance, and from
\* the lock on that balance covers the price it was shown.  A lock for a slot
\* that is still empty can only be released by the session that made it.
KnowsMoney(s) ==
  /\ pc[s] \in {"getSlot", "lockAccount", "addSlot", "addTx", "debit"} \cup Recovering
       /\ Fresh(s) => buy[s].balance = account[UserOf[s]].balance
  /\ pc[s] \in {"lockAccount", "addSlot", "addTx", "debit"} => buy[s].price <= buy[s].balance
  /\ pc[s] = "addSlot" /\ ~SlotExists(buy[s].slot) => Fresh(s)

\* The slot to be bought follows one that is sold, and what is published is sold.
KnowsLast(s) ==
  /\ pc[s] \in {"getSlot", "lockAccount", "addSlot"} =>
       buy[s].slot = 0 \/ SlotExists(buy[s].slot - 1)
  /\ pc[s] \in {"debited", "updateCampaign"} =>
       buy[s].slot \in Slots /\ SlotExists(buy[s].slot)

RecKnowsMoney(r) ==
  rec[r].pc \in {"addTx", "debit"} /\ rec[r].cas = account[BuyerOf(rec[r].n)].cas =>
    rec[r].balance = account[BuyerOf(rec[r].n)].balance

\* Until a sold slot is debited its buyer stays locked to it: PaperworkOrder
\* says so only until there is a transaction.
LockedUntilDebited ==
  \A i \in Slots : SlotExists(i) /\ debits[i] = 0 => account[BuyerOf(i)].filling = i

\* All slots before a sold one are sold: NoGaps says so of the one before it.
SoldInOrder == \A i, j \in Slots : j < i /\ SlotExists(i) => SlotExists(j)

MoneyInv ==
  /\ LockedUntilDebited
  /\ PriceReserved
  /\ NoGaps
  /\ SoldInOrder
  /\ \A s \in Sessions : KnowsMoney(s) /\ KnowsLast(s)
  /\ \A r \in Recoverers : RecKnowsMoney(r)

SaleInv == IInv /\ MoneyInv

-----------------------------------------------------------------------------
(* What a step does to the documents.                                       *)

\* The account of u is stored once more, and no other.
StoredOnly(u) ==
  /\ \A v \in Users \ {u} : account'[v] = account[v]
  /\ account'[u].cas > account[u].cas

\* It is locked, or given up, with its balance as it was: not while a slot of
\* u's is to be debited, and not towards one.
Relocked(u) ==
  /\ StoredOnly(u)
  /\ account[u].filling # None => SlotExists(account[u].filling)
  /\ \A i \in Slots : SlotExists(i) /\ BuyerOf(i) = u =>
       account[u].filling # i /\ account'[u].filling # i
  /\ account'[u].balance = account[u].balance
  /\ UNCHANGED <<slot, tx, debits, ledger>>

\* A deposit, a withdrawal or a credit.
Changed(u) ==
  /\ StoredOnly(u)
  /\ account[u].filling = None /\ account'[u].filling = None
  /\ \E d \in OtherAmounts :
       /\ account[u].balance + d >= 0
       /\ account'[u].balance = account[u].balance + d
       /\ ledger' = [ledger EXCEPT ![u] = @ + d]
  /\ UNCHANGED <<slot, tx, debits>>

\* u is charged for slot i.
Charged(u, i) ==
  /\ StoredOnly(u)
  /\ SlotExists(i) /\ TxExists(i) /\ BuyerOf(i) = u /\ debits[i] = 0
  /\ account[u].filling = i /\ account'[u].filling = None
  /\ account'[u].balance = account[u].balance - slot[i].price
  /\ debits' = [debits EXCEPT ![i] = 1]
  /\ UNCHANGED <<slot, tx, ledger>>

\* u is sold slot i.
Sold(u, i) ==
  /\ ~SlotExists(i) /\ SlotExists(i)' /\ BuyerOf(i)' = u
  /\ \A j \in Slots \ {i} : slot'[j] = slot[j]
  /\ i = 0 \/ SlotExists(i - 1)
  /\ account[u].filling = i /\ slot'[i].price <= account[u].balance
  /\ UNCHANGED <<account, tx, debits, ledger>>

\* The transaction of slot i is added.
Recorded(i) ==
  /\ SlotExists(i) /\ ~TxExists(i) /\ TxExists(i)'
  /\ \A j \in Slots \ {i} : tx'[j] = tx[j]
  /\ UNCHANGED <<account, slot, debits, ledger>>

NothingStored == UNCHANGED <<account, slot, tx, debits, ledger>>

DocStep ==
  \/ NothingStored
  \/ \E u \in Users : Relocked(u) \/ Changed(u)
  \/ \E u \in Users, i \in Slots : Charged(u, i) \/ Sold(u, i)
  \/ \E i \in Slots : Recorded(i)

-----------------------------------------------------------------------------
(* BalancesReconcile in the terms of SumTheorems.                           *)

\* What each slot has cost its buyer so far.
cost == [i \in Slots |-> debits[i] * slot[i].price]

LEMMA BoughtIsFinite == \A u : IsFiniteSet(Bought(u))
  <1> SUFFICES ASSUME NEW u PROVE IsFiniteSet(Bought(u))
    OBVIOUS
  <1>1. IsFiniteSet(0..MaxSlot)
    BY ConstantsAssumption, FS_Interval DEF ConstantsAssumption
  <1> QED BY <1>1, FS_Subset DEF Bought, Slots

LEMMA SpentIsASum == \A u : Spent(u) = SumOver(cost, Bought(u))
  <1> SUFFICES ASSUME NEW u PROVE Spent(u) = SumOver(cost, Bought(u))
    OBVIOUS
  <1> DEFINE f == [i \in Bought(u) |-> debits[i] * slot[i].price]
  <1>1. Spent(u) = SumOver(f, Bought(u))
    BY DEF Spent, SumOver, MapThenSumSet, MapThenFoldSet
  <1>2. \A i \in Bought(u) : f[i] = cost[i]
    BY DEF cost, Bought
  <1> HIDE DEF f
  <1> QED BY <1>1, <1>2, BoughtIsFinite, SumOverEqual

-----------------------------------------------------------------------------
USE ConstantsAssumption DEF ConstantsAssumption, None, Slots

\* A charge is made only on the account as it was locked: its balance is known.
LEMMA ChargeIsKnown ==
  ASSUME TypeInv, DocInv, NEW u \in Users, NEW i \in Slots,
         SlotExists(i), BuyerOf(i) = u, TxExists(i), account[u].filling = i,
         DebitAndUnlock(u, i, account[u].balance, slot[i].price), UNCHANGED <<slot, tx, ledger>>
  PROVE  Charged(u, i)
  <1> DEFINE a == [balance |-> account[u].balance - slot[i].price,
                   cas |-> account[u].cas + 1,
                   filling |-> None, with |-> NoFiller, other |-> FALSE]
  <1>1. account' = [account EXCEPT ![u] = a] /\ debits' = [debits EXCEPT ![i] = debits[i] + 1]
    BY DEF DebitAndUnlock, SetAccount
  <1>2. account \in [Users -> Account] /\ account[u].cas \in Nat
    BY DEF TypeInv, TypeOK, Account
  <1>3. /\ a.balance = account[u].balance - slot[i].price
        /\ a.filling = None /\ a.cas > account[u].cas
    BY <1>2
  <1> HIDE DEF a
  <1>4. account'[u] = a /\ StoredOnly(u)
    BY <1>1, <1>2, <1>3 DEF StoredOnly
  <1>5. debits[i] = 0
    BY LockedIsUnpaid
  <1>6. debits' = [debits EXCEPT ![i] = 1]
    BY <1>1, <1>5
  <1> QED BY <1>3, <1>4, <1>5, <1>6 DEF Charged

LEMMA LockAccountDocStep ==
  ASSUME IInv, NEW s \in Sessions, KnowsMoney(s), LockAccount(s)
  PROVE  DocStep
  <1> DEFINE u == UserOf[s]
             a == [balance |-> buy[s].balance, cas |-> account[u].cas + 1,
                   filling |-> buy[s].slot, with |-> buy[s].with, other |-> FALSE]
  <1>1. /\ TypeInv /\ u \in Users /\ account[u].cas \in Nat /\ account \in [Users -> Account]
        /\ UNCHANGED <<slot, tx, debits, ledger>>
    BY SessionFacts DEF IInv, TypeInv, TypeOK, LockAccount, hist
  <1>2. CASE ~CasMatches(u, buy[s].cas)
    BY <1>1, <1>2 DEF LockAccount, DocStep, NothingStored
  <1>3. CASE CasMatches(u, buy[s].cas)
    <2>1. account' = [account EXCEPT ![u] = a]
      BY <1>3 DEF LockAccount, SetAccount
    <2>2. Fresh(s) /\ pc[s] = "lockAccount"
      BY <1>3 DEF CasMatches, Fresh, LockAccount
    <2>3. account[u].filling = None
      BY <2>2 DEF IInv, DriverInv, profileIsLocked
    <2>4. SlotExists(buy[s].slot) => BuyerOf(buy[s].slot) # u
      BY <2>2 DEF IInv, DriverInv
    <2>5. a.balance = account[u].balance
      BY <2>2 DEF KnowsMoney
    <2>6. a.filling = buy[s].slot /\ a.cas > account[u].cas
      BY <1>1
    <2> HIDE DEF a
    <2>7. account'[u] = a /\ StoredOnly(u)
      BY <1>1, <2>1, <2>6 DEF StoredOnly
    <2>8. Relocked(u)
      BY <1>1, <2>3, <2>4, <2>5, <2>6, <2>7 DEF Relocked
    <2> QED BY <1>1, <2>8 DEF DocStep
  <1> QED BY <1>2, <1>3

LEMMA AddSlotDocStep ==
  ASSUME IInv, NEW s \in Sessions, KnowsMoney(s), KnowsLast(s), AddSlot(s)
  PROVE  DocStep
  <1> DEFINE u == UserOf[s]
             i == buy[s].slot
  <1>1. /\ TypeInv /\ u \in Users /\ i \in Slots /\ buy[s].with \in Fillers
        /\ OwnerOf[buy[s].with] = u /\ pc[s] = "addSlot"
        /\ UNCHANGED <<account, tx, debits, ledger, buy>>
    BY SessionFacts DEF IInv, AddSlot, DriverInv, Resting, hist
  <1>2. CASE SlotExists(i)
    BY <1>1, <1>2 DEF AddSlot, DocStep, NothingStored
  <1>3. CASE ~SlotExists(i)
    <2>1. slot' = [slot EXCEPT ![i] = [with |-> buy[s].with, price |-> buy[s].price]]
      BY <1>3 DEF AddSlot
    <2>2. slot \in [Slots -> SlotDoc]
      BY <1>1 DEF TypeInv, TypeOK
    <2>3. /\ slot'[i].with = buy[s].with /\ slot'[i].price = buy[s].price
          /\ \A j \in Slots \ {i} : slot'[j] = slot[j]
      BY <1>1, <2>1, <2>2
    <2>4. account[u].filling = i
      BY <1>1, <1>3 DEF IInv, DriverInv, HoldsLock
    <2>5. buy[s].price <= account[u].balance
      BY <1>1, <1>3 DEF KnowsMoney
    <2>6. i = 0 \/ SlotExists(i - 1)
      BY <1>1 DEF KnowsLast
    <2>7. SlotExists(i)' /\ BuyerOf(i)' = u
      BY <1>1, <2>3 DEF SlotExists, BuyerOf
    <2>8. Sold(u, i)
      BY <1>1, <1>3, <2>3, <2>4, <2>5, <2>6, <2>7 DEF Sold
    <2> QED BY <1>1, <2>8 DEF DocStep
  <1> QED BY <1>2, <1>3

LEMMA AddTxDocStep ==
  ASSUME IInv, NEW s \in Sessions, AddTx(s)
  PROVE  DocStep
  <1> DEFINE i == buy[s].slot
  <1>1. /\ TypeInv /\ UserOf[s] \in Users /\ i \in Slots /\ buy[s].with \in Fillers
        /\ slot[i].with = buy[s].with /\ UNCHANGED <<account, slot, debits, ledger, buy>>
    BY SessionFacts DEF IInv, AddTx, DriverInv, Resting, hist
  <1>2. SlotExists(i)
    BY <1>1 DEF SlotExists
  <1>3. CASE TxExists(i)
    BY <1>1, <1>3 DEF AddTx, DocStep, NothingStored
  <1>4. CASE ~TxExists(i)
    <2>1. tx' = [tx EXCEPT ![i] = [buyer |-> UserOf[s], amount |-> buy[s].price]]
      BY <1>4 DEF AddTx, AddTransaction
    <2>2. tx \in [Slots -> TxDoc]
      BY <1>1 DEF TypeInv, TypeOK
    <2>3. tx'[i].buyer = UserOf[s] /\ \A j \in Slots \ {i} : tx'[j] = tx[j]
      BY <1>1, <2>1, <2>2
    <2>4. TxExists(i)'
      BY <1>1, <2>3 DEF TxExists
    <2> QED BY <1>1, <1>2, <1>4, <2>3, <2>4 DEF DocStep, Recorded
  <1> QED BY <1>3, <1>4

LEMMA DebitDocStep ==
  ASSUME IInv, NEW s \in Sessions, KnowsMoney(s), Debit(s)
  PROVE  DocStep
  <1> DEFINE u == UserOf[s]
             i == buy[s].slot
  <1>1. /\ TypeInv /\ DocInv /\ u \in Users /\ i \in Slots /\ buy[s].with \in Fillers
        /\ OwnerOf[buy[s].with] = u /\ slot[i].with = buy[s].with
        /\ slot[i].price = buy[s].price /\ TxExists(i) /\ pc[s] = "debit"
        /\ UNCHANGED <<slot, tx, ledger>>
    BY SessionFacts DEF IInv, Debit, DriverInv, Resting
  <1>2. SlotExists(i) /\ BuyerOf(i) = u
    BY <1>1 DEF SlotExists, BuyerOf
  <1>3. CASE CasMatches(u, buy[s].cas)
    <2>1. Fresh(s)
      BY <1>3 DEF CasMatches, Fresh
    <2>2. account[u].filling = i
      BY <1>1, <2>1 DEF IInv, DriverInv, HoldsLock
    <2>3. buy[s].balance = account[u].balance
      BY <1>1, <2>1 DEF KnowsMoney
    <2>4. DebitAndUnlock(u, i, account[u].balance, slot[i].price)
      BY <1>1, <1>3, <2>3 DEF Debit
    <2> HIDE DEF u, i
    <2> QED BY <1>1, <1>2, <2>2, <2>4, ChargeIsKnown DEF DocStep
  <1>4. CASE ~CasMatches(u, buy[s].cas)
    BY <1>1, <1>4 DEF Debit, DocStep, NothingStored
  <1> QED BY <1>3, <1>4

LEMMA UnlockDocStep ==
  ASSUME IInv, NEW s \in Sessions, KnowsMoney(s), UnlockWithoutDebitting(s)
  PROVE  DocStep
  <1> DEFINE u == UserOf[s]
             a == [balance |-> buy[s].balance, cas |-> account[u].cas + 1,
                   filling |-> None, with |-> NoFiller, other |-> FALSE]
  <1>1. /\ TypeInv /\ u \in Users /\ account[u].cas \in Nat /\ account \in [Users -> Account]
        /\ buy[s].slot \in Slots /\ SlotExists(buy[s].slot)
        /\ slot[buy[s].slot].with # buy[s].with
        /\ UNCHANGED <<slot, tx, debits, ledger>>
    BY SessionFacts DEF IInv, UnlockWithoutDebitting, DriverInv, Resting, TypeInv, TypeOK, hist
  <1>2. CASE ~CasMatches(u, buy[s].cas)
    BY <1>1, <1>2 DEF UnlockWithoutDebitting, DocStep, NothingStored
  <1>3. CASE CasMatches(u, buy[s].cas)
    <2>1. account' = [account EXCEPT ![u] = a]
      BY <1>3 DEF UnlockWithoutDebitting, SetAccount
    <2>2. Fresh(s) /\ pc[s] \in Recovering
      BY <1>3 DEF CasMatches, Fresh, UnlockWithoutDebitting, Recovering
    <2>3. account[u].filling = buy[s].slot /\ account[u].with = buy[s].with
      BY <2>2 DEF IInv, DriverInv, HoldsLock
    <2>4. BuyerOf(buy[s].slot) # u
      BY <1>1, <2>3 DEF IInv, DocInv, NeverRelockedToPaidSlot
    <2>5. a.balance = account[u].balance
      BY <2>2 DEF KnowsMoney
    <2>6. a.filling = None /\ a.cas > account[u].cas
      BY <1>1
    <2> HIDE DEF a
    <2>7. account'[u] = a /\ StoredOnly(u)
      BY <1>1, <2>1, <2>6 DEF StoredOnly
    <2>8. Relocked(u)
      BY <1>1, <2>3, <2>4, <2>5, <2>6, <2>7 DEF Relocked
    <2> QED BY <1>1, <2>8 DEF DocStep
  <1> QED BY <1>2, <1>3

LEMMA OthersDocStep ==
  ASSUME IInv, NEW u \in Users, account[u].balance >= 0,
         OtherLock(u) \/ OtherUnlock(u) \/ AddFunds(u)
  PROVE  DocStep
  <1>1. /\ TypeInv /\ account[u] \in Account /\ account \in [Users -> Account]
        /\ account[u].cas \in Nat /\ account[u].balance \in Int
    BY DEF IInv, TypeInv, TypeOK, Account
  <1>2. account[u].filling = None
    BY DEF OtherLock, OtherUnlock, AddFunds, profileIsLocked, IInv, DocInv, OneLock
  <1>3. ASSUME NEW b, NEW k, SetAccount(u, b, None, NoFiller, k)
        PROVE  StoredOnly(u) /\ account'[u].balance = b /\ account'[u].filling = None
    <2> DEFINE a == [balance |-> b, cas |-> account[u].cas + 1, filling |-> None,
                     with |-> NoFiller, other |-> k]
    <2>1. account' = [account EXCEPT ![u] = a]
      BY <1>3 DEF SetAccount
    <2>2. a.balance = b /\ a.filling = None /\ a.cas > account[u].cas
      BY <1>1
    <2> HIDE DEF a
    <2> QED BY <1>1, <2>1, <2>2 DEF StoredOnly
  <1>4. CASE OtherLock(u)
    <2>1. /\ StoredOnly(u) /\ account'[u].balance = account[u].balance
          /\ account'[u].filling = None
      BY <1>3, <1>4 DEF OtherLock
    <2>2. UNCHANGED <<slot, tx, debits, ledger>>
      BY <1>4 DEF OtherLock, hist
    <2> QED BY <1>2, <2>1, <2>2 DEF DocStep, Relocked
  <1>5. CASE OtherUnlock(u) \/ AddFunds(u)
    <2>1. PICK d \in OtherAmounts :
             /\ account[u].balance + d >= 0 \/ d >= 0
             /\ SetAccount(u, account[u].balance + d, None, NoFiller, FALSE)
             /\ ledger' = [ledger EXCEPT ![u] = ledger[u] + d]
      BY <1>5 DEF OtherUnlock, AddFunds
    <2>2. account[u].balance + d >= 0
      BY <1>1, <2>1
    <2>3. /\ StoredOnly(u) /\ account'[u].balance = account[u].balance + d
          /\ account'[u].filling = None
      BY <1>3, <2>1
    <2>4. UNCHANGED <<slot, tx, debits>>
      BY <1>5 DEF OtherUnlock, AddFunds
    <2> QED BY <1>2, <2>1, <2>2, <2>3, <2>4 DEF DocStep, Changed
  <1> QED BY <1>4, <1>5

LEMMA RecovererDocStep ==
  ASSUME IInv, NEW r \in Recoverers, RecKnowsMoney(r), Recoverer(r) \/ RecExit(r)
  PROVE  DocStep
  <1>1. TypeInv /\ DocInv /\ RecInv(r)
    BY DEF IInv
  <1>2. CASE RecAddTx(r)
    <2>1. PICK i \in Slots : i = rec[r].n
      BY <1>1, <1>2, BuyerIsUser DEF RecAddTx
    <2>2. SlotExists(i) /\ BuyerOf(i) \in Users /\ UNCHANGED <<account, slot, debits, ledger>>
      BY <1>1, <1>2, <2>1, BuyerIsUser DEF RecAddTx, hist
    <2>3. CASE TxExists(i)
      BY <1>2, <2>1, <2>2, <2>3 DEF RecAddTx, DocStep, NothingStored
    <2>4. CASE ~TxExists(i)
      <3>1. tx' = [tx EXCEPT ![i] = [buyer |-> BuyerOf(i), amount |-> slot[i].price]]
        BY <1>2, <2>1, <2>4 DEF RecAddTx, AddTransaction
      <3>2. tx \in [Slots -> TxDoc]
        BY <1>1 DEF TypeInv, TypeOK
      <3>3. tx'[i].buyer = BuyerOf(i) /\ \A j \in Slots \ {i} : tx'[j] = tx[j]
        BY <3>1, <3>2
      <3>4. TxExists(i)'
        BY <2>2, <3>3 DEF TxExists
      <3> QED BY <2>2, <2>4, <3>3, <3>4 DEF DocStep, Recorded
    <2> QED BY <2>3, <2>4
  <1>3. CASE RecDebit(r)
    <2>1. PICK i \in Slots : i = rec[r].n
      BY <1>1, <1>3, BuyerIsUser DEF RecDebit
    <2>2. PICK u \in Users : u = BuyerOf(i)
      BY <1>1, <1>3, <2>1, BuyerIsUser DEF RecDebit
    <2>3. SlotExists(i) /\ TxExists(i) /\ UNCHANGED <<slot, tx, ledger>>
      BY <1>1, <1>3, <2>1, BuyerIsUser DEF RecDebit, RecInv
    <2>4. CASE CasMatches(u, rec[r].cas)
      <3>1. account[u].filling = i
        BY <1>1, <1>3, <2>1, <2>2, <2>4 DEF RecDebit, RecInv, CasMatches
      <3>2. rec[r].balance = account[u].balance
        BY <1>3, <2>1, <2>2, <2>4 DEF RecDebit, RecKnowsMoney, CasMatches
      <3>3. DebitAndUnlock(u, i, account[u].balance, slot[i].price)
        BY <1>3, <2>1, <2>2, <2>4, <3>2 DEF RecDebit
      <3> QED BY <1>1, <2>2, <2>3, <3>1, <3>3, ChargeIsKnown DEF DocStep
    <2>5. CASE ~CasMatches(u, rec[r].cas)
      BY <1>3, <2>1, <2>2, <2>3, <2>5 DEF RecDebit, DocStep, NothingStored
    <2> QED BY <2>4, <2>5
  <1>4. CASE ~RecAddTx(r) /\ ~RecDebit(r)
    BY <1>4 DEF Recoverer, AuditCampaign, CheckNextSlot, RecheckCampaign, GetTx, GetAccount,
       RecheckTx, RecUpdateCampaign, RecStart, RecExit, db, hist, DocStep, NothingStored
  <1> QED BY <1>2, <1>3, <1>4

\* Whatever anybody does, the documents see one of a few steps.
LEMMA NextDocStep == SaleInv /\ [Next]_vars => DocStep
  <1> SUFFICES ASSUME SaleInv, [Next]_vars PROVE DocStep
    OBVIOUS
  <1>1. /\ IInv /\ \A s \in Sessions : KnowsMoney(s) /\ KnowsLast(s)
        /\ \A r \in Recoverers : RecKnowsMoney(r)
        /\ \A u \in Users : account[u].balance >= 0
    BY DEF SaleInv, MoneyInv, PriceReserved
  <1>2. CASE UNCHANGED vars
    BY <1>2 DEF vars, DocStep, NothingStored
  <1>3. ASSUME NEW s \in Sessions, Driver(s) \/ Crash(s) \/ DbError(s)
        PROVE  DocStep
    <2>1. CASE Quiet(s)
      BY <2>1 DEF Quiet, db, hist, CampaignUpdate, Login, Logout, BuySlotStep1,
         BuySlotPopulateStep2, BuySlotStep2, VerifyAccount, EnsureSlotDoesntExist,
         DoneUnlocking, UpdateCampaign, ContinueRecovering, Crash, DbError,
         DocStep, NothingStored
    <2>2. CASE LockAccount(s) BY <1>1, <2>2, LockAccountDocStep
    <2>3. CASE AddSlot(s) BY <1>1, <2>3, AddSlotDocStep
    <2>4. CASE AddTx(s) BY <1>1, <2>4, AddTxDocStep
    <2>5. CASE Debit(s) BY <1>1, <2>5, DebitDocStep
    <2>6. CASE UnlockWithoutDebitting(s) BY <1>1, <2>6, UnlockDocStep
    <2> QED BY <1>3, <2>1, <2>2, <2>3, <2>4, <2>5, <2>6 DEF Driver, Quiet
  <1>4. ASSUME NEW r \in Recoverers, Recoverer(r) \/ RecExit(r)
        PROVE  DocStep
    BY <1>1, <1>4, RecovererDocStep
  <1>5. ASSUME NEW u \in Users, OtherLock(u) \/ OtherUnlock(u) \/ AddFunds(u)
        PROVE  DocStep
    BY <1>1, <1>5, OthersDocStep
  <1> QED BY <1>2, <1>3, <1>4, <1>5 DEF Next

-----------------------------------------------------------------------------
(* What such a step preserves.                                              *)

\* What was stored stays, and who has the newest account has it until it is
\* stored again; a lock towards an empty slot is not stored over.
LEMMA DocStepFrame ==
  ASSUME TypeInv, DocStep
  PROVE  /\ \A i \in Slots : SlotExists(i) =>
              SlotExists(i)' /\ BuyerOf(i)' = BuyerOf(i) /\ slot'[i] = slot[i]
         /\ \A u \in Users : account'[u] = account[u] \/ account'[u].cas > account[u].cas
         /\ \A u \in Users : account[u].filling \in Slots /\ ~SlotExists(account[u].filling) =>
              account'[u] = account[u]
  <1>1. CASE NothingStored
    BY <1>1 DEF NothingStored, SlotExists, BuyerOf
  <1>2. ASSUME NEW u \in Users, Relocked(u)
        PROVE  /\ slot' = slot /\ StoredOnly(u)
               /\ account[u].filling # None => SlotExists(account[u].filling)
    BY <1>2 DEF Relocked
  <1>3. ASSUME NEW u \in Users, Changed(u)
        PROVE  slot' = slot /\ StoredOnly(u) /\ account[u].filling = None
    BY <1>3 DEF Changed
  <1>4. ASSUME NEW u \in Users, NEW i \in Slots, Charged(u, i)
        PROVE  slot' = slot /\ StoredOnly(u) /\ SlotExists(account[u].filling)
    BY <1>4 DEF Charged
  <1>5. ASSUME NEW u \in Users, slot' = slot, StoredOnly(u),
               account[u].filling \in Slots => SlotExists(account[u].filling)
        PROVE  /\ \A i \in Slots : SlotExists(i) =>
                    SlotExists(i)' /\ BuyerOf(i)' = BuyerOf(i) /\ slot'[i] = slot[i]
               /\ \A v \in Users : account'[v] = account[v] \/ account'[v].cas > account[v].cas
               /\ \A v \in Users : account[v].filling \in Slots /\ ~SlotExists(account[v].filling) =>
                    account'[v] = account[v]
    BY <1>5 DEF StoredOnly, SlotExists, BuyerOf
  <1>6. ASSUME NEW u \in Users, NEW i \in Slots, Sold(u, i)
        PROVE  /\ account' = account
               /\ \A j \in Slots : SlotExists(j) =>
                    SlotExists(j)' /\ BuyerOf(j)' = BuyerOf(j) /\ slot'[j] = slot[j]
    BY <1>6 DEF Sold, SlotExists, BuyerOf
  <1>7. ASSUME NEW i \in Slots, Recorded(i)
        PROVE  account' = account /\ slot' = slot
    BY <1>7 DEF Recorded
  <1> QED
    <2>1. CASE \E u \in Users : Relocked(u)
      BY <2>1, <1>2, <1>5
    <2>2. CASE \E u \in Users : Changed(u)
      BY <2>2, <1>3, <1>5
    <2>3. CASE \E u \in Users, i \in Slots : Charged(u, i)
      BY <2>3, <1>4, <1>5
    <2>4. CASE \E u \in Users, i \in Slots : Sold(u, i)
      BY <2>4, <1>6
    <2>5. CASE \E i \in Slots : Recorded(i)
      BY <2>5, <1>7 DEF SlotExists, BuyerOf
    <2> QED BY <1>1, <2>1, <2>2, <2>3, <2>4, <2>5 DEF DocStep

\* Slots are sold to accounts locked to them, one lock at a time, at a price
\* the balance covers; nothing else is taken from it meanwhile.
LEMMA DocStepMoney ==
  ASSUME TypeInv, TypeInv', DocInv, LockedUntilDebited, PriceReserved, DocStep
  PROVE  LockedUntilDebited' /\ PriceReserved'
  <1>1. /\ account \in [Users -> Account] /\ debits \in [Slots -> Nat]
        /\ \A u \in Users : account[u].balance \in Int
        /\ \A i \in Slots : SlotExists(i) => BuyerOf(i) \in Users /\ slot[i].price \in Nat
    BY SlotFacts DEF TypeInv, TypeOK, Account
  <1> USE DEF LockedUntilDebited, PriceReserved
  <1>2. CASE NothingStored
    BY <1>2 DEF NothingStored, SlotExists, BuyerOf
  <1>3. ASSUME NEW u \in Users, Relocked(u)
        PROVE  LockedUntilDebited' /\ PriceReserved'
    BY <1>1, <1>3 DEF Relocked, StoredOnly, SlotExists, BuyerOf
  <1>4. ASSUME NEW u \in Users, Changed(u)
        PROVE  LockedUntilDebited' /\ PriceReserved'
    <2>1. \A i \in Slots : SlotExists(i) /\ debits[i] = 0 => BuyerOf(i) # u
      BY <1>4 DEF Changed
    <2>2. account'[u].balance >= 0
      BY <1>4 DEF Changed
    <2> QED BY <1>1, <1>4, <2>1, <2>2 DEF Changed, StoredOnly, SlotExists, BuyerOf
  <1>5. ASSUME NEW u \in Users, NEW i \in Slots, Charged(u, i)
        PROVE  LockedUntilDebited' /\ PriceReserved'
    <2>1. /\ debits'[i] = 1 /\ \A j \in Slots \ {i} : debits'[j] = debits[j]
          /\ \A v \in Users \ {u} : account'[v] = account[v]
          /\ slot' = slot
      BY <1>1, <1>5 DEF Charged, StoredOnly
    <2>2. \A j \in Slots \ {i} : SlotExists(j) /\ debits[j] = 0 => BuyerOf(j) # u
      BY <1>5 DEF Charged
    <2>3. account'[u].balance >= 0
      BY <1>1, <1>5 DEF Charged
    <2>4. \A j \in Slots : SlotExists(j)' = SlotExists(j) /\ BuyerOf(j)' = BuyerOf(j)
      BY <2>1 DEF SlotExists, BuyerOf
    <2>5. \A j \in Slots : SlotExists(j)' /\ debits'[j] = 0 =>
            SlotExists(j) /\ debits[j] = 0 /\ BuyerOf(j)' \in Users \ {u}
      BY <1>1, <2>1, <2>2, <2>4
    <2>6. \A v \in Users : account'[v].balance >= 0
      BY <2>1, <2>3
    <2> QED BY <2>1, <2>4, <2>5, <2>6
  <1>6. ASSUME NEW u \in Users, NEW i \in Slots, Sold(u, i)
        PROVE  LockedUntilDebited' /\ PriceReserved'
    <2>1. /\ account' = account /\ debits' = debits /\ BuyerOf(i)' = u
          /\ account[u].filling = i /\ slot'[i].price <= account[u].balance
          /\ \A j \in Slots \ {i} : slot'[j] = slot[j]
      BY <1>6 DEF Sold
    <2>2. \A j \in Slots \ {i} : SlotExists(j)' = SlotExists(j) /\ BuyerOf(j)' = BuyerOf(j)
      BY <2>1 DEF SlotExists, BuyerOf
    <2> QED BY <2>1, <2>2
  <1>7. ASSUME NEW i \in Slots, Recorded(i)
        PROVE  LockedUntilDebited' /\ PriceReserved'
    BY <1>7 DEF Recorded, SlotExists, BuyerOf
  <1> QED BY <1>2, <1>3, <1>4, <1>5, <1>6, <1>7 DEF DocStep

\* A session that takes no part in a step knows afterwards what it knew.
LEMMA KnowledgeFrame ==
  ASSUME IInv, TypeInv', DocStep, NEW s \in Sessions, KnowsMoney(s), KnowsLast(s),
         pc'[s] = pc[s], buy'[s] = buy[s]
  PROVE  KnowsMoney(s)' /\ KnowsLast(s)'
  <1> DEFINE u == UserOf[s]
  <1>1. /\ TypeInv /\ DriverInv(s) /\ u \in Users /\ account[u].cas \in Nat
        /\ buy[s].cas \in Nat /\ buy[s].cas <= account[u].cas
        /\ buy[s].slot \in Slots \cup {None}
    BY SessionFacts, SessionTypes DEF IInv, DriverInv, Buy
  <1>2. account'[u].cas \in Nat
    BY <1>1 DEF TypeInv, TypeOK, Account
  <1>3. account'[u] = account[u] \/ account'[u].cas > account[u].cas
    BY <1>1, DocStepFrame
  <1>4. Fresh(s)' => Fresh(s) /\ account'[u] = account[u]
    BY <1>1, <1>2, <1>3 DEF Fresh
  <1>5. \A i \in Slots : SlotExists(i) => SlotExists(i)'
    BY <1>1, DocStepFrame
  <1>6. pc[s] = "addSlot" /\ ~SlotExists(buy[s].slot)' => Fresh(s)'
    <2> SUFFICES ASSUME pc[s] = "addSlot", ~SlotExists(buy[s].slot)' PROVE Fresh(s)'
      OBVIOUS
    <2>1. PICK i \in Slots : i = buy[s].slot
      BY <1>1 DEF DriverInv, Resting
    <2>2. ~SlotExists(i)'
      BY <2>1
    <2>3. ~SlotExists(i)
      BY <1>5, <2>2
    <2>4. Fresh(s) /\ account[u].filling = i
      BY <1>1, <2>1, <2>3 DEF KnowsMoney, DriverInv, HoldsLock
    <2>5. account'[u] = account[u]
      BY <1>1, <2>3, <2>4, DocStepFrame
    <2> QED BY <2>4, <2>5 DEF Fresh
  <1>7. KnowsMoney(s)'
    BY <1>4, <1>6 DEF KnowsMoney
  <1>8. KnowsLast(s)'
    BY <1>1, <1>5 DEF KnowsLast, DriverInv, Resting
  <1> QED BY <1>7, <1>8

LEMMA RecKnowledgeFrame ==
  ASSUME IInv, TypeInv', DocStep, NEW r \in Recoverers, RecKnowsMoney(r), rec'[r] = rec[r]
  PROVE  RecKnowsMoney(r)'
  <1> SUFFICES ASSUME rec[r].pc \in {"addTx", "debit"} PROVE RecKnowsMoney(r)'
    BY DEF RecKnowsMoney
  <1>1. TypeInv /\ RecInv(r)
    BY DEF IInv
  <1>2. PICK i \in Slots : i = rec[r].n
    BY <1>1, BuyerIsUser
  <1>3. PICK u \in Users : u = BuyerOf(i)
    BY <1>1, <1>2, BuyerIsUser
  <1>4. /\ SlotExists(i) /\ account[u].cas \in Nat /\ rec[r].cas <= account[u].cas
        /\ rec[r].cas \in Nat
    BY <1>1, <1>2, <1>3, BuyerIsUser, RecTypes DEF RecInv, Rec
  <1>5. BuyerOf(i)' = u
    BY <1>1, <1>3, <1>4, DocStepFrame
  <1>6. account'[u] = account[u] \/ account'[u].cas > account[u].cas
    BY <1>1, DocStepFrame
  <1>7. account'[u].cas \in Nat
    BY DEF TypeInv, TypeOK, Account
  <1> QED BY <1>2, <1>3, <1>4, <1>5, <1>6, <1>7 DEF RecKnowsMoney

-----------------------------------------------------------------------------
(* What the participant in a step knows after it.                           *)

LEMMA KnowsNothingAtRest ==
  ASSUME NEW s \in Sessions, pc'[s] \in Resting \cup {"getFillers", "getAccount"}
  PROVE  KnowsMoney(s)' /\ KnowsLast(s)'
  BY DEF KnowsMoney, KnowsLast, Resting, Recovering

LEMMA QuietKnowledge ==
  ASSUME SaleInv, TypeInv', DocStep, NEW s \in Sessions, Quiet(s)
  PROVE  KnowsMoney(s)' /\ KnowsLast(s)'
  <1> DEFINE u == UserOf[s]
  <1>1. /\ IInv /\ TypeInv /\ DriverInv(s) /\ KnowsMoney(s) /\ KnowsLast(s) /\ NoGaps
        /\ u \in Users
    BY SessionFacts DEF SaleInv, MoneyInv, IInv
  <1>2. UNCHANGED <<account, slot, tx, debits>>
    BY QuietStoresNothing
  <1>3. /\ pc \in [Sessions -> SessionPcs] /\ buy \in [Sessions -> Buy] /\ buy[s] \in Buy
        /\ view[s].last \in Slots \cup {None} /\ page[s] \in Page
    BY <1>1, SessionTypes DEF TypeInv, TypeOK
  <1>4. CASE CampaignUpdate(s)
    BY <1>1, <1>4, KnowledgeFrame DEF CampaignUpdate
  <1>5. CASE Login(s)
    <2> DEFINE a == account[u]
               B == [NoBuy EXCEPT !.slot = a.filling, !.with = a.with,
                                  !.balance = a.balance, !.cas = a.cas]
    <2>1. pc'[s] = "idle" \/ (pc'[s] = "loginCheckSlot" /\ buy'[s] = B)
      BY <1>3, <1>5 DEF Login, Goto, SetBuy
    <2>2. B.balance = a.balance
      BY DEF NoBuy
    <2> HIDE DEF B
    <2> QED BY <1>2, <2>1, <2>2, KnowsNothingAtRest DEF Resting, KnowsMoney, KnowsLast
  <1>6. CASE Logout(s) \/ BuySlotStep1(s) \/ BuySlotPopulateStep2(s) \/ BuySlotStep2(s)
             \/ UpdateCampaign(s) \/ Crash(s) \/ DbError(s)
    <2>1. pc'[s] \in Resting \cup {"getFillers", "getAccount"}
      BY <1>3, <1>6 DEF Logout, BuySlotStep1, BuySlotPopulateStep2, BuySlotStep2,
         UpdateCampaign, Crash, DbError, Goto, Resting
    <2> QED BY <2>1, KnowsNothingAtRest
  <1>7. CASE VerifyAccount(s)
    <2> DEFINE i == IF view[s].last = None THEN 0 ELSE page[s].recorded + 1
               B == [buy[s] EXCEPT !.slot = i, !.balance = account[u].balance,
                                   !.cas = account[u].cas]
    <2>1. \/ pc'[s] = "idle"
          \/ pc'[s] = "getSlot" /\ buy'[s] = B /\ page[s].recorded = view[s].last
      BY <1>3, <1>7 DEF VerifyAccount, Goto, SetBuy
    <2>2. view[s].last # None => SlotExists(view[s].last)
      BY <1>1 DEF NoGaps
    <2>3. page[s].recorded = view[s].last => i = 0 \/ (i \in Int /\ SlotExists(i - 1))
      <3> SUFFICES ASSUME page[s].recorded = view[s].last, view[s].last # None
                   PROVE  i \in Int /\ SlotExists(i - 1)
        OBVIOUS
      <3>1. view[s].last \in Slots /\ i = view[s].last + 1
        BY <1>3
      <3>2. i - 1 = view[s].last
        BY <3>1
      <3> QED BY <2>2, <3>1, <3>2
    <2> HIDE DEF i
    <2>4. B.slot = i /\ B.balance = account[u].balance
      BY <1>3 DEF Buy
    <2> HIDE DEF B
    <2>5. CASE pc'[s] = "idle"
      BY <2>5, KnowsNothingAtRest DEF Resting
    <2>6. CASE pc'[s] = "getSlot"
      <3>1. KnowsMoney(s)'
        BY <1>2, <2>1, <2>4, <2>6 DEF KnowsMoney, Recovering
      <3>2. KnowsLast(s)'
        BY <1>2, <2>1, <2>3, <2>4, <2>6 DEF KnowsLast, SlotExists
      <3> QED BY <3>1, <3>2
    <2> QED BY <2>1, <2>5, <2>6
  <1>8. CASE EnsureSlotDoesntExist(s)
    <2>1. PICK p \in PricesNow(s) :
            \/ pc'[s] = "idle"
            \/ /\ pc'[s] = "lockAccount" /\ buy'[s] = [buy[s] EXCEPT !.price = p]
               /\ buy[s].balance >= p
      BY <1>3, <1>8 DEF EnsureSlotDoesntExist, MayLock, Goto, SetBuy
    <2> DEFINE B == [buy[s] EXCEPT !.price = p]
    <2>2. /\ B.slot = buy[s].slot /\ B.cas = buy[s].cas /\ B.balance = buy[s].balance
          /\ B.price = p
      BY <1>3 DEF Buy
    <2>3. pc'[s] = "idle" \/ (pc'[s] = "lockAccount" /\ buy'[s] = B /\ buy[s].balance >= p)
      BY <2>1
    <2> HIDE DEF B
    <2>4. p \in Int /\ buy[s].balance \in Int
      BY <1>1, <1>3, SlotFacts DEF PricesNow, NoGaps, Buy
    <2>5. CASE pc'[s] = "idle"
      BY <2>5, KnowsNothingAtRest DEF Resting
    <2>6. CASE pc'[s] = "lockAccount"
      <3>1. pc[s] = "getSlot"
        BY <1>8 DEF EnsureSlotDoesntExist
      <3>2. KnowsMoney(s)'
        BY <1>1, <1>2, <2>2, <2>3, <2>4, <2>6, <3>1 DEF KnowsMoney, Recovering, Fresh
      <3>3. KnowsLast(s)'
        BY <1>1, <1>2, <2>2, <2>3, <2>6, <3>1 DEF KnowsLast, SlotExists
      <3> QED BY <3>2, <3>3
    <2> QED BY <2>3, <2>5, <2>6
  <1>9. CASE DoneUnlocking(s)
    <2>1. pc[s] = "debited" /\ pc'[s] = "updateCampaign"
          /\ buy'[s] = [buy[s] EXCEPT !.campaignCas = view[s].cas]
      BY <1>3, <1>9 DEF DoneUnlocking, Goto, SetBuy
    <2>2. buy'[s].slot = buy[s].slot
      BY <1>3, <2>1 DEF Buy
    <2> QED BY <1>1, <1>2, <2>1, <2>2 DEF KnowsMoney, KnowsLast, Recovering, SlotExists
  <1>10. CASE ContinueRecovering(s)
    <2>1. \/ pc'[s] \in Resting
          \/ pc'[s] \in {"loginUnlock", "beatenUnlock"} /\ buy' = buy
      BY <1>3, <1>10 DEF ContinueRecovering, SlotIsTheirs, Goto, Resting
    <2>2. CASE pc'[s] \in Resting
      BY <2>2, KnowsNothingAtRest
    <2>3. CASE pc'[s] \in {"loginUnlock", "beatenUnlock"} /\ buy' = buy
      BY <1>1, <1>2, <1>10, <2>3
         DEF KnowsMoney, KnowsLast, Recovering, ContinueRecovering, SlotIsTheirs, Fresh
    <2> QED BY <2>1, <2>2, <2>3
  <1> QED BY <1>4, <1>5, <1>6, <1>7, <1>8, <1>9, <1>10 DEF Quiet

LEMMA BuyerKnowledge ==
  ASSUME SaleInv, TypeInv', DocStep, NEW s \in Sessions,
         LockAccount(s) \/ AddSlot(s) \/ AddTx(s) \/ Debit(s) \/ UnlockWithoutDebitting(s)
  PROVE  KnowsMoney(s)' /\ KnowsLast(s)'
  <1> DEFINE u == UserOf[s]
             i == buy[s].slot
  <1>1. /\ IInv /\ TypeInv /\ DriverInv(s) /\ KnowsMoney(s) /\ KnowsLast(s)
        /\ u \in Users /\ account[u].cas \in Nat /\ account \in [Users -> Account]
        /\ pc \in [Sessions -> SessionPcs] /\ buy \in [Sessions -> Buy] /\ buy[s] \in Buy
        /\ slot \in [Slots -> SlotDoc]
    BY SessionFacts DEF SaleInv, MoneyInv, IInv, TypeInv, TypeOK
  <1>2. CASE LockAccount(s)
    <2> DEFINE a == [balance |-> buy[s].balance, cas |-> account[u].cas + 1,
                     filling |-> buy[s].slot, with |-> buy[s].with, other |-> FALSE]
               B == [buy[s] EXCEPT !.cas = account[u].cas + 1]
    <2>1. \/ pc'[s] = "idle"
          \/ /\ pc'[s] = "addSlot" /\ buy'[s] = B /\ account' = [account EXCEPT ![u] = a]
             /\ slot' = slot
      BY <1>1, <1>2 DEF LockAccount, SetAccount, Goto, SetBuy
    <2>2. /\ B.slot = i /\ B.cas = account[u].cas + 1 /\ B.balance = buy[s].balance
          /\ B.price = buy[s].price
      BY <1>1 DEF Buy
    <2>3. a.cas = account[u].cas + 1 /\ a.balance = buy[s].balance
      OBVIOUS
    <2> HIDE DEF a, B
    <2>4. CASE pc'[s] = "idle"
      BY <2>4, KnowsNothingAtRest DEF Resting
    <2>5. CASE pc'[s] = "addSlot"
      <3>1. /\ buy'[s] = B /\ account'[u] = a /\ slot' = slot /\ pc[s] = "lockAccount"
        BY <1>1, <1>2, <2>1, <2>5 DEF LockAccount
      <3>2. KnowsMoney(s)'
        BY <1>1, <2>2, <2>3, <2>5, <3>1 DEF KnowsMoney, Recovering, Fresh
      <3>3. KnowsLast(s)'
        BY <1>1, <2>2, <2>5, <3>1 DEF KnowsLast, SlotExists
      <3> QED BY <3>2, <3>3
    <2> QED BY <2>1, <2>4, <2>5
  <1>3. CASE AddSlot(s)
    <2>1. pc[s] = "addSlot" /\ account' = account /\ buy' = buy
      BY <1>3 DEF AddSlot
    <2>2. pc'[s] \in {"addTx", "beatenCheckSlot"}
      BY <1>1, <1>3 DEF AddSlot, Goto
    <2> QED BY <1>1, <2>1, <2>2 DEF KnowsMoney, KnowsLast, Recovering, Fresh
  <1>4. CASE AddTx(s)
    <2>1. pc[s] = "addTx" /\ account' = account /\ buy' = buy /\ pc'[s] = "debit"
      BY <1>1, <1>4 DEF AddTx, Goto
    <2> QED BY <1>1, <2>1 DEF KnowsMoney, KnowsLast, Recovering, Fresh
  <1>5. CASE Debit(s)
    <2>1. pc[s] = "debit" /\ slot' = slot /\ buy' = buy /\ pc'[s] = "debited"
      BY <1>1, <1>5 DEF Debit, Goto
    <2>2. i \in Slots /\ SlotExists(i)
      BY <1>1, <2>1 DEF DriverInv, Resting, SlotExists
    <2> QED BY <2>1, <2>2 DEF KnowsMoney, KnowsLast, Recovering, SlotExists
  <1>6. CASE UnlockWithoutDebitting(s)
    <2>1. pc'[s] \in Resting
      BY <1>1, <1>6 DEF UnlockWithoutDebitting, Goto, Resting
    <2> QED BY <2>1, KnowsNothingAtRest
  <1> QED BY <1>2, <1>3, <1>4, <1>5, <1>6

LEMMA RecKnowledge ==
  ASSUME SaleInv, TypeInv', DocStep, NEW r \in Recoverers, Recoverer(r) \/ RecExit(r)
  PROVE  RecKnowsMoney(r)'
  <1>1. /\ IInv /\ TypeInv /\ RecKnowsMoney(r) /\ rec[r] \in Rec
        /\ rec \in [Recoverers -> Rec]
    BY RecTypes DEF SaleInv, MoneyInv, IInv
  <1>2. ASSUME rec'[r].pc \notin {"addTx", "debit"} PROVE RecKnowsMoney(r)'
    BY <1>2 DEF RecKnowsMoney
  <1>3. \A p \in {"sleep", "down"} : Parked(p).pc = p
    BY DEF Parked
  <1>4. \A p \in {"recheckCampaign", "updateCampaign", "debit", "totalSystemFailure"} :
          /\ At(r, p).pc = p /\ At(r, p).n = rec[r].n /\ At(r, p).cas = rec[r].cas
          /\ At(r, p).balance = rec[r].balance
    BY <1>1 DEF At, Rec
  <1>5. CASE GetAccount(r)
    <2>1. PICK i \in Slots : i = rec[r].n
      BY <1>1, <1>5, BuyerIsUser DEF GetAccount
    <2> DEFINE a == account[BuyerOf(i)]
               p == LeftToDo(a, i, rec[r].txExists)
               R == [rec[r] EXCEPT !.pc = p, !.balance = a.balance, !.cas = a.cas]
    <2>2. /\ account' = account /\ slot' = slot
          /\ rec'[r] = Asleep \/ rec'[r] = R
      BY <1>1, <1>5, <2>1 DEF GetAccount, SetRec, db
    <2>3. R.balance = a.balance /\ R.cas = a.cas /\ R.n = i
      BY <1>1, <2>1 DEF Rec
    <2> HIDE DEF R
    <2>4. CASE rec'[r] = Asleep
      BY <1>2, <1>3, <2>4 DEF Asleep
    <2>5. CASE rec'[r] = R
      BY <2>2, <2>3, <2>5 DEF RecKnowsMoney, BuyerOf
    <2> QED BY <2>2, <2>4, <2>5
  <1>6. CASE RecAddTx(r)
    <2>1. /\ rec[r].pc = "addTx" /\ account' = account /\ slot' = slot
          /\ rec'[r] = Asleep \/ rec'[r] = At(r, "debit")
      BY <1>1, <1>6 DEF RecAddTx, SetRec
    <2>2. CASE rec'[r] = Asleep
      BY <1>2, <1>3, <2>2 DEF Asleep
    <2>3. CASE rec'[r] = At(r, "debit")
      BY <1>1, <1>4, <2>1, <2>3 DEF RecKnowsMoney, BuyerOf
    <2> QED BY <2>1, <2>2, <2>3
  <1>7. CASE AuditCampaign(r) \/ RecheckCampaign(r) \/ GetTx(r)
    <2>1. \/ rec'[r] = [rec[r] EXCEPT !.pc = "getSlot", !.n = campaign.last + 1]
          \/ rec'[r] = Asleep
          \/ rec'[r] = [rec[r] EXCEPT !.pc = "getTx", !.campaignCas = campaign.cas]
          \/ rec'[r] = [rec[r] EXCEPT !.pc = "getAccount", !.txExists = TxExists(rec[r].n)]
      BY <1>1, <1>7 DEF AuditCampaign, RecheckCampaign, GetTx, SetRec
    <2>2. rec'[r].pc \in {"getSlot", "sleep", "getTx", "getAccount"}
      BY <1>1, <1>3, <2>1 DEF Rec, Asleep
    <2> QED BY <1>2, <2>2
  <1>8. CASE CheckNextSlot(r) \/ RecheckTx(r) \/ RecDebit(r) \/ RecUpdateCampaign(r)
             \/ RecStart(r) \/ RecExit(r)
    <2>1. \/ rec'[r] \in {Asleep, Parked("down")}
          \/ \E p \in {"recheckCampaign", "updateCampaign", "totalSystemFailure"} :
               rec'[r] = At(r, p)
      BY <1>1, <1>8 DEF CheckNextSlot, RecheckTx, RecDebit, RecUpdateCampaign, RecStart,
         RecExit, SetRec
    <2>2. rec'[r].pc \notin {"addTx", "debit"}
      BY <1>3, <1>4, <2>1 DEF Asleep
    <2> QED BY <1>2, <2>2
  <1> QED BY <1>5, <1>6, <1>7, <1>8 DEF Recoverer

-----------------------------------------------------------------------------
(* Gaps.                                                                    *)

\* Only a slot that is sold is ever written to the campaign document, and a page
\* takes its last slot from there.
LEMMA LastIsSold ==
  ASSUME SaleInv, [Next]_vars
  PROVE  /\ campaign' = campaign \/ (campaign'.last \in Slots /\ SlotExists(campaign'.last))
         /\ \A s \in Sessions : view'[s] \in {view[s], campaign, NoView}
  <1>1. /\ TypeInv /\ view \in [Sessions -> Snapshot]
        /\ \A s \in Sessions : KnowsLast(s)
    BY DEF SaleInv, MoneyInv, IInv, TypeInv, TypeOK
  <1>2. CASE UNCHANGED vars
    BY <1>2 DEF vars
  <1>3. ASSUME NEW s \in Sessions, Driver(s) \/ Crash(s) \/ DbError(s)
        PROVE  /\ campaign' = campaign \/ (campaign'.last \in Slots /\ SlotExists(campaign'.last))
               /\ \A t \in Sessions : view'[t] \in {view[t], campaign, NoView}
    <2>1. CASE CampaignUpdate(s) \/ Crash(s)
      BY <1>1, <2>1 DEF CampaignUpdate, Crash, db
    <2>2. CASE UpdateCampaign(s)
      BY <1>1, <2>2 DEF UpdateCampaign, KnowsLast, SetCampaign
    <2>3. CASE Login(s) \/ Logout(s) \/ DbError(s) \/ BuySlotStep1(s)
               \/ BuySlotPopulateStep2(s) \/ BuySlotStep2(s) \/ VerifyAccount(s)
               \/ EnsureSlotDoesntExist(s) \/ LockAccount(s) \/ AddSlot(s) \/ AddTx(s)
               \/ Debit(s) \/ DoneUnlocking(s) \/ ContinueRecovering(s)
               \/ UnlockWithoutDebitting(s)
      BY <2>3 DEF Login, Logout, DbError, BuySlotStep1, BuySlotPopulateStep2, BuySlotStep2,
         VerifyAccount, EnsureSlotDoesntExist, LockAccount, AddSlot, AddTx, Debit,
         DoneUnlocking, ContinueRecovering, UnlockWithoutDebitting, db
    <2> QED BY <1>3, <2>1, <2>2, <2>3 DEF Driver
  <1>4. ASSUME NEW r \in Recoverers, Recoverer(r) \/ RecExit(r)
        PROVE  /\ campaign' = campaign \/ (campaign'.last \in Slots /\ SlotExists(campaign'.last))
               /\ view' = view
    <2>1. CASE RecUpdateCampaign(r)
      BY <1>1, <2>1, BuyerIsUser DEF RecUpdateCampaign, SetCampaign, sess
    <2>2. CASE ~RecUpdateCampaign(r)
      BY <1>4, <2>2 DEF Recoverer, AuditCampaign, CheckNextSlot, RecheckCampaign, GetTx,
         GetAccount, RecheckTx, RecAddTx, RecDebit, RecStart, RecExit, db, sess
    <2> QED BY <2>1, <2>2
  <1>5. ASSUME NEW u \in Users, OtherLock(u) \/ OtherUnlock(u) \/ AddFunds(u)
        PROVE  campaign' = campaign /\ view' = view
    BY <1>5 DEF OtherLock, OtherUnlock, AddFunds, sess
  <1> QED BY <1>2, <1>3, <1>4, <1>5 DEF Next

LEMMA NoGapsStep ==
  ASSUME SaleInv, [Next]_vars, DocStep
  PROVE  NoGaps' /\ SoldInOrder'
  <1>1. TypeInv /\ NoGaps /\ SoldInOrder
    BY DEF SaleInv, MoneyInv, IInv
  <1>2. \A i \in Slots : SlotExists(i) => SlotExists(i)'
    BY <1>1, DocStepFrame
  <1>3. \A i \in Slots : SlotExists(i)' /\ ~SlotExists(i) => i = 0 \/ SlotExists(i - 1)
    BY DEF DocStep, NothingStored, Relocked, Changed, Charged, Sold, Recorded, SlotExists
  <1>4. \A i \in Slots : i > 0 /\ SlotExists(i)' => SlotExists(i - 1)'
    BY <1>1, <1>2, <1>3 DEF NoGaps
  <1>5. \A v \in {campaign} \cup {view[s] : s \in Sessions} \cup {NoView} :
          v.last # None => v.last \in Slots /\ SlotExists(v.last)
    <2>1. \A s \in Sessions : view[s].last \in Slots \cup {None}
      BY <1>1, SessionTypes
    <2>2. campaign.last \in Slots \cup {None}
      BY <1>1 DEF TypeInv, TypeOK, Snapshot
    <2>3. NoView.last = None
      BY DEF NoView
    <2> QED BY <1>1, <2>1, <2>2, <2>3 DEF NoGaps
  <1>6. \A v \in {campaign'} \cup {view'[s] : s \in Sessions} :
          v.last # None => v.last \in Slots /\ SlotExists(v.last)
    BY <1>5, LastIsSold
  <1>7. \A i, j \in Slots : j < i /\ SlotExists(i)' => SlotExists(j)'
    <2> SUFFICES ASSUME NEW i \in Slots, NEW j \in Slots, j < i, SlotExists(i)'
                 PROVE  SlotExists(j)
      BY <1>2
    <2>1. CASE SlotExists(i)
      BY <1>1, <2>1 DEF SoldInOrder
    <2>2. CASE ~SlotExists(i)
      <3>1. i - 1 \in Slots /\ SlotExists(i - 1)
        BY <1>3, <2>2
      <3> QED BY <1>1, <3>1 DEF SoldInOrder
    <2> QED BY <2>1, <2>2
  <1> QED BY <1>2, <1>4, <1>6, <1>7 DEF NoGaps, SoldInOrder

-----------------------------------------------------------------------------
(* The inductive invariant and what follows from it.                        *)

LEMMA InitSaleInv == Init => SaleInv
  <1> SUFFICES ASSUME Init PROVE SaleInv
    OBVIOUS
  <1>1. IInv
    BY InitIInv
  <1>2. /\ \A i \in Slots : ~SlotExists(i)
        /\ \A u \in Users : account[u].balance \in Nat
        /\ campaign.last = None /\ \A s \in Sessions : view[s].last = None
    BY DEF Init, SlotExists, NoView
  <1>3. \A s \in Sessions : KnowsMoney(s) /\ KnowsLast(s)
    BY DEF Init, KnowsMoney, KnowsLast, Recovering
  <1>4. \A r \in Recoverers : RecKnowsMoney(r)
    BY DEF Init, RecKnowsMoney, Asleep, Parked
  <1> QED BY <1>1, <1>2, <1>3, <1>4
          DEF SaleInv, MoneyInv, LockedUntilDebited, PriceReserved, NoGaps, SoldInOrder

LEMMA NextSaleInv == SaleInv /\ [Next]_vars => SaleInv' /\ DocStep
  <1> SUFFICES ASSUME SaleInv, [Next]_vars PROVE SaleInv' /\ DocStep
    OBVIOUS
  <1>1. IInv /\ TypeInv /\ DocInv /\ LockedUntilDebited /\ PriceReserved
    BY DEF SaleInv, MoneyInv, IInv
  <1>2. /\ \A s \in Sessions : KnowsMoney(s) /\ KnowsLast(s)
        /\ \A r \in Recoverers : RecKnowsMoney(r)
    BY DEF SaleInv, MoneyInv
  <1>3. DocStep
    BY NextDocStep
  <1>4. IInv' /\ TypeInv'
    BY <1>1, NextIInv DEF IInv
  <1>5. LockedUntilDebited' /\ PriceReserved'
    BY <1>1, <1>3, <1>4, DocStepMoney
  <1>6. NoGaps' /\ SoldInOrder'
    BY <1>3, NoGapsStep
  <1>7. /\ \A s \in Sessions : KnowsMoney(s)' /\ KnowsLast(s)'
        /\ \A r \in Recoverers : RecKnowsMoney(r)'
    <2>1. CASE UNCHANGED vars
      <3>1. UNCHANGED <<pc, buy, rec>>
        BY <2>1 DEF vars
      <3> QED BY <1>1, <1>2, <1>3, <1>4, <3>1, KnowledgeFrame, RecKnowledgeFrame
    <2>2. ASSUME NEW s \in Sessions, Driver(s) \/ Crash(s) \/ DbError(s)
          PROVE  /\ \A t \in Sessions : KnowsMoney(t)' /\ KnowsLast(t)'
                 /\ \A r \in Recoverers : RecKnowsMoney(r)'
      <3>1. /\ \A t \in Sessions \ {s} : pc'[t] = pc[t] /\ buy'[t] = buy[t]
            /\ rec' = rec
        BY <1>1, <2>2, OnlyItsOwn
      <3>2. KnowsMoney(s)' /\ KnowsLast(s)'
        BY <1>3, <1>4, <2>2, QuietKnowledge, BuyerKnowledge DEF Driver, Quiet
      <3> QED BY <1>1, <1>2, <1>3, <1>4, <3>1, <3>2, KnowledgeFrame, RecKnowledgeFrame
    <2>3. ASSUME NEW r \in Recoverers, Recoverer(r) \/ RecExit(r)
          PROVE  /\ \A s \in Sessions : KnowsMoney(s)' /\ KnowsLast(s)'
                 /\ \A q \in Recoverers : RecKnowsMoney(q)'
      <3>1. (\A q \in Recoverers \ {r} : rec'[q] = rec[q]) /\ pc' = pc /\ buy' = buy
        BY <1>1, <2>3, RecOnlyItsOwn DEF sess
      <3>2. RecKnowsMoney(r)'
        BY <1>3, <1>4, <2>3, RecKnowledge
      <3> QED BY <1>1, <1>2, <1>3, <1>4, <3>1, <3>2, KnowledgeFrame, RecKnowledgeFrame
    <2>4. ASSUME NEW u \in Users, OtherLock(u) \/ OtherUnlock(u) \/ AddFunds(u)
          PROVE  /\ \A s \in Sessions : KnowsMoney(s)' /\ KnowsLast(s)'
                 /\ \A r \in Recoverers : RecKnowsMoney(r)'
      <3>1. UNCHANGED <<pc, buy, rec>>
        BY <2>4 DEF OtherLock, OtherUnlock, AddFunds, sess
      <3> QED BY <1>1, <1>2, <1>3, <1>4, <3>1, KnowledgeFrame, RecKnowledgeFrame
    <2> QED BY <2>1, <2>2, <2>3, <2>4 DEF Next
  <1> QED BY <1>3, <1>4, <1>5, <1>6, <1>7 DEF SaleInv, MoneyInv

\* Every reachable state satisfies the invariant about the money too.
THEOREM SaleInvariant == Spec => []SaleInv
  BY InitSaleInv, NextSaleInv, PTL DEF Spec

\* The debit of a sold slot never overdraws an account, however long it takes
\* and whoever makes it.
THEOREM PriceStaysReserved == Spec => []PriceReserved
  <1>1. SaleInv => PriceReserved
    BY DEF SaleInv, MoneyInv
  <1> QED BY <1>1, SaleInvariant, PTL

\* Although the campaign document can be brought back in time, no page ever
\* offers a slot whose predecessor is not sold, and none is sold so.
THEOREM SoldWithoutGaps == Spec => []NoGaps
  <1>1. SaleInv => NoGaps
    BY DEF SaleInv, MoneyInv
  <1> QED BY <1>1, SaleInvariant, PTL

-----------------------------------------------------------------------------
(* The purchases are a SlotSale.                                            *)

\* A sold slot is settled when it is debited.
MeaningOf(i) ==
  /\ isSettled[i] <=> SlotExists(i) /\ debits[i] # 0
  /\ soldTo[i] # NoUser <=> SlotExists(i)
  /\ SlotExists(i) => soldTo[i] = BuyerOf(i) /\ BuyerOf(i) \in Users

LEMMA SettledIsDebited == SaleInv => \A i \in Slots : MeaningOf(i)
  <1> SUFFICES ASSUME SaleInv, NEW i \in Slots PROVE MeaningOf(i)
    OBVIOUS
  <1>1. TypeInv /\ DocInv /\ LockedUntilDebited /\ debits[i] \in Nat
    BY DEF SaleInv, MoneyInv, IInv, TypeInv, TypeOK
  <1>2. SlotExists(i) => BuyerOf(i) \in Users
    BY <1>1, SlotFacts
  <1>3. TxExists(i) => SlotExists(i)
    BY <1>1 DEF DocInv, TransactionMatchesSlot
  <1>4. SlotExists(i) /\ debits[i] # 0 => TxExists(i) /\ account[BuyerOf(i)].filling # i
    <2>1. debits[i] # 0 => debits[i] = 1
      BY <1>1 DEF DocInv, DebitedOnce
    <2>2. debits[i] # 0 => TxExists(i)
      BY <1>1, <2>1 DEF DocInv, DebitedOnce
    <2> QED BY <1>1, <1>2, <2>2, LockedIsUnpaid
  <1>5. SlotExists(i) /\ debits[i] = 0 => account[BuyerOf(i)].filling = i
    BY <1>1 DEF LockedUntilDebited
  <1> QED BY <1>2, <1>3, <1>4, <1>5 DEF MeaningOf, isSettled, soldTo

LEMMA SettledIsDebitedNext == SaleInv' => (\A i \in Slots : MeaningOf(i))'
  BY SettledIsDebited, PTL

LEMMA InitSale == Init => Sale!Init
  <1> SUFFICES ASSUME Init PROVE Sale!Init
    OBVIOUS
  <1>1. SaleInv
    BY InitSaleInv
  <1>2. \A i \in Slots : ~SlotExists(i) /\ ~TxExists(i) /\ slot[i].price = 0
    BY DEF Init, SlotExists, TxExists
  <1>3. soldTo = [i \in Slots |-> NoUser] /\ soldFor = [i \in Slots |-> 0]
    BY <1>2 DEF soldTo, soldFor
  <1>4. isSettled = [i \in Slots |-> FALSE]
    BY <1>2 DEF isSettled
  <1>5. balanceOf = [u \in Users |-> StartBalance[u]]
    BY DEF balanceOf, Init
  <1>6. balanceOf = StartBalance
    BY <1>5
  <1> QED BY <1>3, <1>4, <1>6 DEF Sale!Init

LEMMA StepSale ==
  ASSUME SaleInv, SaleInv', DocStep
  PROVE  Sale!Next \/ UNCHANGED Sale!vars
  <1>1. /\ TypeInv /\ TypeInv' /\ DocInv
        /\ \A u \in Users : account[u].balance \in Int
    BY DEF SaleInv, IInv, TypeInv, TypeOK, Account
  <1>2. /\ soldTo = [i \in Slots |-> soldTo[i]] /\ soldTo' = [i \in Slots |-> soldTo'[i]]
        /\ soldFor = [i \in Slots |-> soldFor[i]] /\ soldFor' = [i \in Slots |-> soldFor'[i]]
        /\ isSettled = [i \in Slots |-> isSettled[i]]
        /\ isSettled' = [i \in Slots |-> isSettled'[i]]
        /\ \A i \in Slots : isSettled[i] \in BOOLEAN /\ isSettled'[i] \in BOOLEAN
    BY DEF soldTo, soldFor, isSettled
  <1>3. /\ balanceOf = [u \in Users |-> account[u].balance]
        /\ balanceOf' = [u \in Users |-> account'[u].balance]
    BY DEF balanceOf
  <1>4. \A i \in Slots :
          /\ isSettled[i] <=> SlotExists(i) /\ debits[i] # 0
          /\ soldTo[i] # NoUser <=> SlotExists(i)
          /\ SlotExists(i) => soldTo[i] = BuyerOf(i) /\ BuyerOf(i) \in Users
    BY SettledIsDebited DEF MeaningOf
  <1>5. \A i \in Slots : isSettled'[i] <=> SlotExists(i)' /\ debits'[i] # 0
    BY SettledIsDebitedNext DEF MeaningOf
  <1>6. \A i \in Slots : soldTo'[i] = IF SlotExists(i)' THEN BuyerOf(i)' ELSE NoUser
    BY DEF soldTo
  <1>7. \A i \in Slots : soldFor[i] = slot[i].price /\ soldFor'[i] = slot'[i].price
    BY DEF soldFor
  \* Nothing is owed by an account that is not locked to a slot that is sold.
  <1>8. ASSUME NEW u \in Users, NEW i \in Slots, soldTo[i] = u, ~isSettled[i]
        PROVE  account[u].filling = i /\ SlotExists(i)
    <2>1. SlotExists(i) /\ debits[i] = 0 /\ BuyerOf(i) = u
      BY <1>4, <1>8
    <2> QED BY <2>1 DEF SaleInv, MoneyInv, LockedUntilDebited
  <1>9. ASSUME slot' = slot, debits' = debits
        PROVE  UNCHANGED <<soldTo, soldFor, isSettled>>
    <2>1. \A i \in Slots : SlotExists(i)' = SlotExists(i) /\ BuyerOf(i)' = BuyerOf(i)
      BY <1>9 DEF SlotExists, BuyerOf
    <2>2. UNCHANGED <<soldTo, soldFor>>
      BY <1>9, <2>1 DEF soldTo, soldFor
    <2>3. \A i \in Slots : isSettled'[i] = isSettled[i]
      BY <1>2, <1>4, <1>5, <1>9, <2>1
    <2> QED BY <1>2, <2>2, <2>3
  <1>10. CASE NothingStored \/ \E i \in Slots : Recorded(i)
    <2>1. UNCHANGED <<account, slot, debits>>
      BY <1>10 DEF NothingStored, Recorded
    <2> QED BY <1>3, <1>9, <2>1 DEF Sale!vars
  <1>11. ASSUME NEW u \in Users, Relocked(u)
         PROVE  UNCHANGED Sale!vars
    <2>1. \A v \in Users : account'[v].balance = account[v].balance
      BY <1>11 DEF Relocked, StoredOnly
    <2> QED BY <1>3, <1>9, <1>11, <2>1 DEF Sale!vars, Relocked
  <1>12. ASSUME NEW u \in Users, Changed(u)
         PROVE  Sale!Change(u)
    <2>1. PICK d \in OtherAmounts : /\ account[u].balance + d >= 0
                                    /\ account'[u].balance = account[u].balance + d
      BY <1>12 DEF Changed
    <2>2. account[u].filling = None /\ \A v \in Users \ {u} : account'[v] = account[v]
      BY <1>12 DEF Changed, StoredOnly
    <2>3. \A i \in Slots : ~(soldTo[i] = u /\ ~isSettled[i])
      BY <1>8, <2>2
    <2>4. balanceOf' = [balanceOf EXCEPT ![u] = balanceOf[u] + d] /\ balanceOf[u] + d >= 0
      BY <1>3, <2>1, <2>2
    <2>5. UNCHANGED <<soldTo, soldFor, isSettled>>
      BY <1>9, <1>12 DEF Changed
    <2> QED BY <2>3, <2>4, <2>5 DEF Sale!Change, Sale!OwesNothing, Sale!Owes
  <1>13. ASSUME NEW u \in Users, NEW i \in Slots, Charged(u, i)
         PROVE  Sale!Settle(i, u)
    <2>1. /\ SlotExists(i) /\ BuyerOf(i) = u /\ debits[i] = 0 /\ slot' = slot
          /\ account'[u].balance = account[u].balance - slot[i].price
          /\ \A v \in Users \ {u} : account'[v] = account[v]
      BY <1>13 DEF Charged, StoredOnly
    <2>2. debits'[i] = 1 /\ \A j \in Slots \ {i} : debits'[j] = debits[j]
      BY <1>1, <1>13 DEF Charged, TypeInv, TypeOK
    <2>3. \A j \in Slots : SlotExists(j)' = SlotExists(j) /\ BuyerOf(j)' = BuyerOf(j)
      BY <2>1 DEF SlotExists, BuyerOf
    <2>4. soldTo' = soldTo /\ soldFor' = soldFor
      BY <2>1, <2>3 DEF soldTo, soldFor
    <2>5. soldTo[i] = u /\ ~isSettled[i]
      BY <1>4, <2>1
    <2>6. isSettled' = [isSettled EXCEPT ![i] = TRUE]
      <3>1. isSettled'[i] = TRUE
        BY <1>2, <1>5, <2>1, <2>2, <2>3
      <3>2. \A j \in Slots \ {i} : isSettled'[j] = isSettled[j]
        BY <1>2, <1>4, <1>5, <2>2, <2>3
      <3> QED BY <1>2, <3>1, <3>2
    <2>7. balanceOf' = [balanceOf EXCEPT ![u] = balanceOf[u] - soldFor[i]]
      BY <1>3, <1>7, <2>1
    <2> QED BY <2>4, <2>5, <2>6, <2>7 DEF Sale!Settle, Sale!Owes
  <1>14. ASSUME NEW u \in Users, NEW i \in Slots, Sold(u, i)
         PROVE  Sale!Sell(i, u)
    <2>1. /\ ~SlotExists(i) /\ SlotExists(i)' /\ BuyerOf(i)' = u
          /\ \A j \in Slots \ {i} : slot'[j] = slot[j]
          /\ account[u].filling = i /\ slot'[i].price <= account[u].balance
          /\ account' = account /\ debits' = debits
          /\ i = 0 \/ SlotExists(i - 1)
      BY <1>14 DEF Sold
    <2>2. \A j \in Slots \ {i} : SlotExists(j)' = SlotExists(j) /\ BuyerOf(j)' = BuyerOf(j)
      BY <2>1 DEF SlotExists, BuyerOf
    <2>3. soldTo[i] = NoUser
      BY <1>4, <2>1
    <2>4. soldTo' = [soldTo EXCEPT ![i] = u]
      <3>1. soldTo'[i] = u
        BY <1>6, <2>1
      <3>2. \A j \in Slots \ {i} : soldTo'[j] = soldTo[j]
        BY <1>6, <2>2 DEF soldTo
      <3> QED BY <1>2, <3>1, <3>2
    <2>5. \A j \in 0..(i - 1) : soldTo[j] # NoUser
      <3>1. \A j \in Slots : j < i => SlotExists(j)
        BY <2>1 DEF SaleInv, MoneyInv, SoldInOrder
      <3> QED BY <1>4, <3>1
    <2>6. \A j \in Slots : ~(soldTo[j] = u /\ ~isSettled[j])
      BY <1>8, <2>1
    <2>7. \E p \in 0..balanceOf[u] : soldFor' = [soldFor EXCEPT ![i] = p]
      <3>1. slot'[i].price \in Nat
        BY <1>1 DEF TypeInv, TypeOK, SlotDoc
      <3>2. slot'[i].price \in 0..balanceOf[u]
        BY <1>1, <1>3, <2>1, <3>1
      <3>3. \A j \in Slots \ {i} : soldFor'[j] = soldFor[j]
        BY <1>7, <2>1
      <3>4. soldFor' = [soldFor EXCEPT ![i] = slot'[i].price]
        BY <1>2, <1>7, <3>3
      <3> QED BY <3>2, <3>4
    <2>8. isSettled' = isSettled
      <3>1. ~isSettled[i]
        BY <1>4, <2>1
      <3>2. ~isSettled'[i]
        <4>1. debits[i] \in Nat /\ ~TxExists(i)
          BY <1>1, <2>1 DEF TypeInv, TypeOK, DocInv, TransactionMatchesSlot
        <4>2. debits[i] = 0
          BY <1>1, <4>1 DEF DocInv, DebitedOnce
        <4> QED BY <1>5, <2>1, <4>2
      <3>3. \A j \in Slots \ {i} : isSettled'[j] = isSettled[j]
        BY <1>2, <1>4, <1>5, <2>1, <2>2
      <3> QED BY <1>2, <3>1, <3>2, <3>3
    <2>9. balanceOf' = balanceOf
      BY <1>3, <2>1
    <2> QED BY <2>3, <2>4, <2>5, <2>6, <2>7, <2>8, <2>9
            DEF Sale!Sell, Sale!OwesNothing, Sale!Owes
  <1> QED BY <1>10, <1>11, <1>12, <1>13, <1>14 DEF DocStep, Sale!Next

\* Sessions, recoverers, crashes and foreign locks together do nothing to the
\* documents but sell slots in order to buyers who can pay, settle each sale
\* once, and change the balance of accounts that owe nothing.
THEOREM PurchasesAreSales == Spec => ImplementsSale
  <1>1. SaleInv /\ [Next]_vars => [Sale!Next]_(Sale!vars)
    <2>1. SaleInv /\ [Next]_vars => SaleInv' /\ DocStep
      BY NextSaleInv
    <2>2. SaleInv /\ SaleInv' /\ DocStep => Sale!Next \/ UNCHANGED Sale!vars
      BY StepSale
    <2> QED BY <2>1, <2>2
  <1> QED BY <1>1, InitSale, SaleInvariant, PTL DEF Spec, ImplementsSale, Sale!Spec

-----------------------------------------------------------------------------
(* The balances.                                                            *)

LEMMA SpentIsASumNext == (\A u : Spent(u) = SumOver(cost, Bought(u)))'
  BY SpentIsASum, PTL

LEMMA CostType ==
  ASSUME TypeInv
  PROVE  \A i \in Slots : cost[i] = debits[i] * slot[i].price /\ cost[i] \in Int
  <1>1. \A i \in Slots : debits[i] \in Int /\ slot[i].price \in Int
    BY DEF TypeInv, TypeOK, SlotDoc
  <1> QED BY <1>1 DEF cost

LEMMA CostTypeNext ==
  TypeInv' => (\A i \in Slots : cost[i] = debits[i] * slot[i].price /\ cost[i] \in Int)'
  <1>1. TypeInv => \A i \in Slots : cost[i] = debits[i] * slot[i].price /\ cost[i] \in Int
    BY CostType
  <1> QED BY <1>1, PTL

LEMMA DocStepBalances ==
  ASSUME SaleInv, SaleInv', DocStep,
         \A u \in Users : account[u].balance = ledger[u] - Spent(u),
         NEW v \in Users
  PROVE  account'[v].balance = ledger'[v] - Spent(v)'
  <1>1. TypeInv /\ TypeInv' /\ DocInv /\ DocInv'
    BY DEF SaleInv, IInv
  <1>2. /\ \A i \in Slots : cost[i] = debits[i] * slot[i].price /\ cost[i] \in Int
        /\ \A i \in Slots : cost'[i] = debits'[i] * slot'[i].price /\ cost'[i] \in Int
    BY <1>1, CostType, CostTypeNext
  <1>3. \A i \in Slots : slot[i].price \in Int /\ slot'[i].price \in Int
    BY <1>1 DEF TypeInv, TypeOK, SlotDoc
  <1>4. /\ account[v].balance \in Int /\ account'[v].balance \in Int
        /\ ledger[v] \in Int /\ ledger'[v] \in Int /\ ledger \in [Users -> Int]
    BY <1>1 DEF TypeInv, TypeOK, Account
  <1>5. Bought(v) \in SUBSET Slots /\ IsFiniteSet(Bought(v)) /\ Spent(v) \in Int
    <2>1. Bought(v) \in SUBSET Slots /\ IsFiniteSet(Bought(v))
      BY BoughtIsFinite DEF Bought
    <2>2. \A i \in Bought(v) : cost[i] \in Int
      BY <1>2, <2>1
    <2> QED BY <2>1, <2>2, SumOverType, SpentIsASum
  <1>6. ASSUME UNCHANGED <<slot, debits>> PROVE Spent(v)' = Spent(v)
    <2>1. cost' = cost /\ Bought(v)' = Bought(v)
      BY <1>6 DEF cost, Bought, SlotExists, BuyerOf
    <2> QED BY <2>1, SpentIsASum, SpentIsASumNext
  <1>7. CASE NothingStored \/ \E i \in Slots : Recorded(i)
    BY <1>6, <1>7 DEF NothingStored, Recorded
  <1>8. ASSUME NEW u \in Users, Relocked(u) \/ Changed(u)
        PROVE  account'[v].balance = ledger'[v] - Spent(v)'
    <2>1. UNCHANGED <<slot, debits>>
      BY <1>8 DEF Relocked, Changed
    <2>2. account'[v].balance - account[v].balance = ledger'[v] - ledger[v]
      <3>1. CASE v # u
        BY <1>4, <1>8, <3>1 DEF Relocked, Changed, StoredOnly
      <3>2. CASE v = u
        <4>1. CASE Relocked(u)
          BY <1>4, <3>2, <4>1 DEF Relocked
        <4>2. CASE Changed(u)
          <5>1. PICK d \in OtherAmounts :
                  /\ account'[u].balance = account[u].balance + d
                  /\ ledger' = [ledger EXCEPT ![u] = ledger[u] + d]
            BY <4>2 DEF Changed
          <5>2. ledger'[u] = ledger[u] + d /\ d \in Int
            BY <1>4, <5>1
          <5> QED BY <1>4, <3>2, <5>1, <5>2
        <4> QED BY <1>8, <4>1, <4>2
      <3> QED BY <3>1, <3>2
    <2> QED BY <1>4, <1>5, <1>6, <2>1, <2>2
  <1>9. ASSUME NEW u \in Users, NEW i \in Slots, Charged(u, i)
        PROVE  account'[v].balance = ledger'[v] - Spent(v)'
    <2>1. /\ SlotExists(i) /\ BuyerOf(i) = u /\ debits[i] = 0
          /\ slot' = slot /\ ledger' = ledger
          /\ account'[u].balance = account[u].balance - slot[i].price
          /\ \A w \in Users \ {u} : account'[w] = account[w]
      BY <1>9 DEF Charged, StoredOnly
    <2>2. debits'[i] = 1 /\ \A j \in Slots \ {i} : debits'[j] = debits[j]
      BY <1>1, <1>9 DEF Charged, TypeInv, TypeOK
    <2>3. Bought(v)' = Bought(v)
      BY <2>1 DEF Bought, SlotExists, BuyerOf
    <2>4. cost[i] = 0 /\ cost'[i] = slot[i].price
      BY <1>2, <1>3, <2>1, <2>2
    <2>5. \A j \in Slots \ {i} : cost'[j] = cost[j]
      BY <1>2, <2>1, <2>2
    <2>6. CASE v = u
      <3>1. i \in Bought(v)
        BY <2>1, <2>6 DEF Bought
      <3>2. /\ \A j \in Bought(v) : cost[j] \in Int /\ cost'[j] \in Int
            /\ \A j \in Bought(v) \ {i} : cost[j] = cost'[j]
        BY <1>2, <1>5, <2>5
      <3>3. SumOver(cost', Bought(v)) = SumOver(cost, Bought(v)) + cost'[i] - cost[i]
        BY <1>5, <3>1, <3>2, SumOverChange
      <3>4. Spent(v)' = Spent(v) + slot[i].price
        BY <1>3, <1>5, <2>3, <2>4, <3>3, SpentIsASum, SpentIsASumNext
      <3> QED BY <1>3, <1>4, <1>5, <2>1, <2>6, <3>4
    <2>7. CASE v # u
      <3>1. i \notin Bought(v)
        BY <2>1, <2>7 DEF Bought
      <3>2. \A j \in Bought(v) : cost'[j] = cost[j]
        BY <1>5, <2>5, <3>1
      <3>3. Spent(v)' = Spent(v)
        BY <1>5, <2>3, <3>2, SumOverEqual, SpentIsASum, SpentIsASumNext
      <3> QED BY <2>1, <2>7, <3>3
    <2> QED BY <2>6, <2>7
  <1>10. ASSUME NEW u \in Users, NEW i \in Slots, Sold(u, i)
         PROVE  account'[v].balance = ledger'[v] - Spent(v)'
    <2>1. /\ ~SlotExists(i) /\ SlotExists(i)' /\ BuyerOf(i)' = u
          /\ \A j \in Slots \ {i} : slot'[j] = slot[j]
          /\ UNCHANGED <<account, debits, ledger>>
      BY <1>10 DEF Sold
    <2>2. \A j \in Slots \ {i} : SlotExists(j)' = SlotExists(j) /\ BuyerOf(j)' = BuyerOf(j)
      BY <2>1 DEF SlotExists, BuyerOf
    <2>3. debits[i] = 0
      <3>1. debits[i] \in Nat /\ ~TxExists(i)
        BY <1>1, <2>1 DEF TypeInv, TypeOK, DocInv, TransactionMatchesSlot
      <3> QED BY <1>1, <3>1 DEF DocInv, DebitedOnce
    <2>4. cost'[i] = 0
      BY <1>2, <1>3, <2>1, <2>3
    <2>5. \A j \in Slots \ {i} : cost'[j] = cost[j]
      BY <1>2, <2>1
    <2>6. i \notin Bought(v)
      BY <2>1 DEF Bought
    <2>7. \A j \in Bought(v) : cost'[j] = cost[j] /\ cost'[j] \in Int
      BY <1>2, <1>5, <2>5, <2>6
    <2>8. SumOver(cost', Bought(v)) = Spent(v)
      BY <1>5, <2>7, SumOverEqual, SpentIsASum, SpentIsASumNext
    <2>9. CASE v = u
      <3>1. Bought(v)' = Bought(v) \cup {i}
        BY <2>1, <2>2, <2>9 DEF Bought
      <3>2. SumOver(cost', Bought(v) \cup {i}) = cost'[i] + SumOver(cost', Bought(v))
        BY <1>2, <1>5, <2>4, <2>6, <2>7, SumOverAdd
      <3>3. Spent(v)' = Spent(v)
        <4>1. Spent(v)' = SumOver(cost', Bought(v) \cup {i})
          BY <3>1, SpentIsASumNext
        <4>2. SumOver(cost', Bought(v) \cup {i}) = Spent(v)
          BY <1>5, <2>4, <2>8, <3>2
        <4> QED BY <4>1, <4>2
      <3> QED BY <2>1, <3>3
    <2>10. CASE v # u
      <3>1. Bought(v)' = Bought(v)
        BY <2>1, <2>2, <2>10 DEF Bought
      <3>2. Spent(v)' = Spent(v)
        BY <2>8, <3>1, SpentIsASum, SpentIsASumNext
      <3> QED BY <2>1, <3>2
    <2> QED BY <2>9, <2>10
  <1> QED BY <1>7, <1>8, <1>9, <1>10 DEF DocStep

LEMMA InitBalances == Init => BalancesReconcile
  <1> SUFFICES ASSUME Init, NEW u \in Users
               PROVE  account[u].balance = ledger[u] - Spent(u)
    BY DEF BalancesReconcile
  <1>1. Bought(u) = {}
    BY DEF Init, Bought, SlotExists
  <1>2. Spent(u) = 0
    BY <1>1, SumOverEmpty, SpentIsASum
  <1>3. account[u].balance = StartBalance[u] /\ ledger[u] = StartBalance[u]
    BY DEF Init
  <1> QED BY <1>2, <1>3

\* A balance is always what was deposited, less what was withdrawn, less the
\* prices of the slots debited: whoever writes an account writes it under the CAS
\* of the balance he starts from.
THEOREM BalancesAlwaysReconcile == Spec => []BalancesReconcile
  <1>1. SaleInv /\ BalancesReconcile /\ [Next]_vars => BalancesReconcile'
    <2> SUFFICES ASSUME SaleInv, BalancesReconcile, [Next]_vars
                 PROVE  BalancesReconcile'
      OBVIOUS
    <2>1. SaleInv' /\ DocStep
      BY NextSaleInv
    <2>2. \A u \in Users : account'[u].balance = ledger'[u] - Spent(u)'
      BY <2>1, DocStepBalances DEF BalancesReconcile
    <2> QED BY <2>2 DEF BalancesReconcile
  <1> QED BY <1>1, InitBalances, SaleInvariant, PTL DEF Spec
=============================================================================
