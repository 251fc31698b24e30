------------------------ MODULE SlotPurchaseProofs ------------------------
(***************************************************************************)
(* Theorems about SlotPurchase, for any number of users, sessions,         *)
(* recoverers and slots.  DocInv is what is promised of the documents;     *)
(* DriverInv and RecInv say what every program counter knows about them,   *)
(* and together they are inductive.                                        *)
(***************************************************************************)
EXTENDS SlotPurchase, TLAPS

\* Session s has read, or written, the newest version of its account.
Fresh(s) == buy[s].cas = account[UserOf[s]].cas

\* The account is locked to the purchase that session s has under way.
HoldsLock(s) ==
  /\ account[UserOf[s]].filling = buy[s].slot
  /\ account[UserOf[s]].with = buy[s].with

Recovering == {"loginCheckSlot", "loginUnlock", "beatenCheckSlot", "beatenUnlock"}

\* Nobody locks an account that somebody else holds.
OneLock == \A u \in Users : account[u].other => account[u].filling = None

DocInv ==
  /\ PaperworkOrder
  /\ TransactionMatchesSlot
  /\ DebitedOnce
  /\ NeverRelockedToPaidSlot
  /\ OneLock

DriverInv(s) ==
  /\ buy[s].cas <= account[UserOf[s]].cas
  /\ pc[s] \notin Resting \cup {"getFillers", "getAccount", "debited", "updateCampaign"} =>
       buy[s].slot \in Slots
  /\ pc[s] \in {"getAccount", "getSlot", "lockAccount", "addSlot", "addTx", "debit"} =>
       buy[s].with \in Fillers /\ OwnerOf[buy[s].with] = UserOf[s]
  /\ pc[s] \in {"getSlot", "lockAccount"} /\ Fresh(s) =>
       ~profileIsLocked(account[UserOf[s]])
  /\ pc[s] = "lockAccount" /\ Fresh(s) /\ SlotExists(buy[s].slot) =>
       BuyerOf(buy[s].slot) # UserOf[s]
  /\ pc[s] \in {"addSlot", "addTx", "debit"} \cup Recovering /\ Fresh(s) =>
       HoldsLock(s)
  /\ pc[s] = "addSlot" /\ ~SlotExists(buy[s].slot) => HoldsLock(s)
  /\ pc[s] \in {"addTx", "debit"} =>
       slot[buy[s].slot].with = buy[s].with /\ slot[buy[s].slot].price = buy[s].price
  /\ pc[s] = "debit" => TxExists(buy[s].slot)
  /\ pc[s] \in {"loginUnlock", "beatenUnlock"} =>
       SlotExists(buy[s].slot) /\ slot[buy[s].slot].with # buy[s].with

RecInv(r) ==
  /\ rec[r].pc # "totalSystemFailure"
  /\ rec[r].pc = "sleep" => ~rec[r].txExists
  /\ rec[r].txExists => rec[r].n \in Slots /\ TxExists(rec[r].n)
  /\ rec[r].pc \in {"recheckTx", "debit"} => TxExists(rec[r].n)
  /\ rec[r].pc \in {"addTx", "debit"} =>
       /\ rec[r].cas <= account[BuyerOf(rec[r].n)].cas
       /\ rec[r].cas = account[BuyerOf(rec[r].n)].cas =>
            account[BuyerOf(rec[r].n)].filling = rec[r].n

\* A recoverer at work has a slot in mind, and past its check one that is sold.
AuditsSlot(r) ==
  /\ rec[r].pc \notin {"sleep", "down"} => rec[r].n \in Slots
  /\ rec[r].pc \notin {"sleep", "down", "getSlot"} => SlotExists(rec[r].n)

\* TypeOK by itself is not inductive: the recorded slot index is incremented,
\* and stays a slot only because step 1 checked the bound; and a recoverer's
\* transaction has a buyer only because it has seen the slot.
TypeInv ==
  /\ TypeOK
  /\ \A s \in Sessions : page[s].recorded < MaxSlot
  /\ \A r \in Recoverers : AuditsSlot(r)

IInv ==
  /\ TypeInv
  /\ DocInv
  /\ \A s \in Sessions : DriverInv(s)
  /\ \A r \in Recoverers : RecInv(r)

-----------------------------------------------------------------------------
(* Types.                                                                   *)

USE ConstantsAssumption DEF ConstantsAssumption, None, Slots

LEMMA InitTypeInv == Init => TypeInv
  BY DEF Init, TypeInv, TypeOK, Account, SlotDoc, TxDoc, Snapshot, Page, Buy, Rec,
         SessionPcs, NoBuy, NoPage, NoView, Asleep, Parked, AuditsSlot

\* What TypeInv says of one session, one recoverer.
LEMMA SessionTypes ==
  ASSUME TypeInv, NEW s \in Sessions
  PROVE  /\ page[s] \in Page /\ page[s].recorded < MaxSlot
         /\ buy[s] \in Buy /\ pc[s] \in SessionPcs
         /\ view[s] \in Snapshot /\ view[s].last \in Slots \cup {None} /\ view[s].cas \in Nat
         /\ UserOf[s] \in Users /\ account[UserOf[s]] \in Account
         /\ campaign \in Snapshot /\ account[UserOf[s]].balance \in Int /\ account[UserOf[s]].cas \in Nat
  <1>1. /\ page[s] \in Page /\ page[s].recorded < MaxSlot
        /\ buy[s] \in Buy /\ pc[s] \in SessionPcs
        /\ view[s] \in Snapshot
        /\ UserOf[s] \in Users /\ account[UserOf[s]] \in Account
        /\ campaign \in Snapshot
    BY DEF TypeInv, TypeOK
  <1> QED BY <1>1 DEF Snapshot, Account

LEMMA RecTypes ==
  ASSUME TypeInv, NEW r \in Recoverers
  PROVE  rec[r] \in Rec /\ rec \in [Recoverers -> Rec] /\ campaign \in Snapshot
  BY DEF TypeInv, TypeOK

LEMMA BuyerIsUser ==
  ASSUME TypeInv, NEW r \in Recoverers, rec[r].pc \notin {"sleep", "down", "getSlot"}
  PROVE  /\ rec[r].n \in Slots /\ SlotExists(rec[r].n)
         /\ BuyerOf(rec[r].n) \in Users
         /\ account[BuyerOf(rec[r].n)] \in Account
         /\ account[BuyerOf(rec[r].n)].balance \in Int
         /\ account[BuyerOf(rec[r].n)].cas \in Nat
         /\ slot[rec[r].n].price \in Nat
  <1>1. /\ rec[r].n \in Slots /\ SlotExists(rec[r].n) BY DEF TypeInv, AuditsSlot
  <1>2. slot[rec[r].n] \in SlotDoc BY <1>1 DEF TypeInv, TypeOK
  <1>3. BuyerOf(rec[r].n) \in Users BY <1>1, <1>2 DEF SlotDoc, BuyerOf, SlotExists
  <1>4. account[BuyerOf(rec[r].n)] \in Account BY <1>3 DEF TypeInv, TypeOK
  <1> QED BY <1>1, <1>2, <1>3, <1>4 DEF SlotDoc, Account

\* Actions of a session keep the types.
LEMMA DriverTypeInv ==
  ASSUME TypeInv, NEW s \in Sessions, Driver(s) \/ Crash(s) \/ DbError(s)
  PROVE  TypeInv'
  <1>1. CASE CampaignUpdate(s)
    <2>1. view' \in [Sessions -> Snapshot]
      BY <1>1 DEF CampaignUpdate, TypeInv, TypeOK
    <2>2. NoPage \in Page /\ NoPage.recorded < MaxSlot
      BY DEF NoPage, Page
    <2>3. RolledBack(s) \in Page /\ RolledBack(s).recorded < MaxSlot
      BY SessionTypes DEF RolledBack, Page
    <2>4. page' \in [Sessions -> Page] /\ \A t \in Sessions : page'[t].recorded
         < MaxSlot
      BY <1>1, <2>2, <2>3 DEF CampaignUpdate, TypeInv, TypeOK, SetPage
    <2>5. UNCHANGED <<account, slot, tx, campaign, pc, buy, rec, faults, others,
         debits, ledger>>
      BY <1>1 DEF CampaignUpdate, db, sess, hist
    <2> QED BY <2>1, <2>4, <2>5 DEF TypeInv, TypeOK, AuditsSlot, SlotExists
  <1>2. CASE Login(s)
    <2>1. pc' \in [Sessions -> SessionPcs]
      BY <1>2 DEF Login, TypeInv, TypeOK, Goto, SessionPcs
    <2>2. UserOf[s] \in Users /\ [NoBuy EXCEPT !.slot =
         account[UserOf[s]].filling, !.with = account[UserOf[s]].with, !.balance
         = account[UserOf[s]].balance, !.cas = account[UserOf[s]].cas] \in Buy
      BY SessionTypes DEF NoBuy, Buy, Account
    <2>3. buy' \in [Sessions -> Buy]
      BY <1>2, <2>2 DEF Login, TypeInv, TypeOK, SetBuy
    <2>4. UNCHANGED <<account, slot, tx, campaign, view, page, rec, faults,
         others, debits, ledger>>
      BY <1>2 DEF Login, db, sess, hist
    <2> QED BY <2>1, <2>3, <2>4 DEF TypeInv, TypeOK, AuditsSlot, SlotExists
  <1>3. CASE Logout(s)
    <2>1. pc' \in [Sessions -> SessionPcs]
      BY <1>3 DEF Logout, TypeInv, TypeOK, Goto, SessionPcs
    <2>2. NoPage \in Page /\ NoPage.recorded < MaxSlot
      BY DEF NoPage, Page
    <2>3. page' \in [Sessions -> Page] /\ \A t \in Sessions : page'[t].recorded
         < MaxSlot
      BY <1>3, <2>2 DEF Logout, TypeInv, TypeOK, SetPage
    <2>4. UNCHANGED <<account, slot, tx, campaign, view, buy, rec, faults,
         others, debits, ledger>>
      BY <1>3 DEF Logout, db, sess, hist
    <2> QED BY <2>1, <2>3, <2>4 DEF TypeInv, TypeOK, AuditsSlot, SlotExists
  <1>4. CASE BuySlotStep1(s)
    <2>1. pc' \in [Sessions -> SessionPcs]
      BY <1>4 DEF BuySlotStep1, TypeInv, TypeOK, Goto, SessionPcs
    <2>2. view[s].last < MaxSlot => [page[s] EXCEPT !.recorded = view[s].last]
         \in Page /\ [page[s] EXCEPT !.recorded = view[s].last].recorded <
         MaxSlot
      BY SessionTypes DEF Page
    <2>3. page' \in [Sessions -> Page] /\ \A t \in Sessions : page'[t].recorded
         < MaxSlot
      BY <1>4, <2>2 DEF BuySlotStep1, TypeInv, TypeOK, SetPage
    <2>4. UNCHANGED <<account, slot, tx, campaign, view, buy, rec, faults,
         others, debits, ledger>>
      BY <1>4 DEF BuySlotStep1, db, sess, hist
    <2> QED BY <2>1, <2>3, <2>4 DEF TypeInv, TypeOK, AuditsSlot, SlotExists
  <1>5. CASE BuySlotPopulateStep2(s)
    <2>1. pc' \in [Sessions -> SessionPcs]
      BY <1>5 DEF BuySlotPopulateStep2, TypeInv, TypeOK, Goto, SessionPcs
    <2>2. NoPage \in Page /\ NoPage.recorded < MaxSlot
      BY DEF NoPage, Page
    <2>3. [page[s] EXCEPT !.step2 = "shown"] \in Page /\ [page[s] EXCEPT !.step2
         = "shown"].recorded < MaxSlot
      BY SessionTypes DEF Page
    <2>4. page' \in [Sessions -> Page] /\ \A t \in Sessions : page'[t].recorded
         < MaxSlot
      BY <1>5, <2>2, <2>3 DEF BuySlotPopulateStep2, TypeInv, TypeOK, SetPage
    <2>5. UNCHANGED <<account, slot, tx, campaign, view, buy, rec, faults,
         others, debits, ledger>>
      BY <1>5 DEF BuySlotPopulateStep2, db, sess, hist
    <2> QED BY <2>1, <2>4, <2>5 DEF TypeInv, TypeOK, AuditsSlot, SlotExists
  <1>6. CASE BuySlotStep2(s)
    <2>1. pc' \in [Sessions -> SessionPcs]
      BY <1>6 DEF BuySlotStep2, TypeInv, TypeOK, Goto, SessionPcs
    <2>2. [page[s] EXCEPT !.step2 = "clicked"] \in Page /\ [page[s] EXCEPT
         !.step2 = "clicked"].recorded < MaxSlot
      BY SessionTypes DEF Page
    <2>3. page' \in [Sessions -> Page] /\ \A t \in Sessions : page'[t].recorded
         < MaxSlot
      BY <1>6, <2>2 DEF BuySlotStep2, TypeInv, TypeOK, SetPage
    <2>4. \A f \in Fillers : [buy[s] EXCEPT !.with = f] \in Buy
      BY SessionTypes DEF Buy
    <2>5. buy' \in [Sessions -> Buy]
      BY <1>6, <2>4 DEF BuySlotStep2, TypeInv, TypeOK, SetBuy
    <2>6. UNCHANGED <<account, slot, tx, campaign, view, rec, faults, others,
         debits, ledger>>
      BY <1>6 DEF BuySlotStep2, db, sess, hist
    <2> QED BY <2>1, <2>3, <2>5, <2>6 DEF TypeInv, TypeOK, AuditsSlot,
         SlotExists
  <1>7. CASE VerifyAccount(s)
    <2>1. pc' \in [Sessions -> SessionPcs]
      BY <1>7 DEF VerifyAccount, TypeInv, TypeOK, Goto, SessionPcs
    <2>2. NoPage \in Page /\ NoPage.recorded < MaxSlot
      BY DEF NoPage, Page
    <2>3. [page[s] EXCEPT !.recorded = None] \in Page /\ [page[s] EXCEPT
         !.recorded = None].recorded < MaxSlot
      BY SessionTypes DEF Page
    <2>4. page' \in [Sessions -> Page] /\ \A t \in Sessions : page'[t].recorded
         < MaxSlot
      BY <1>7, <2>2, <2>3 DEF VerifyAccount, TypeInv, TypeOK, SetPage
    <2>5. NoBuy \in Buy
      BY DEF NoBuy, Buy
    <2>6. page[s].recorded = view[s].last => (IF view[s].last = None THEN 0 ELSE
         page[s].recorded + 1) \in Slots
      BY SessionTypes DEF Page
    <2>7. page[s].recorded = view[s].last => [buy[s] EXCEPT !.slot = IF
         view[s].last = None THEN 0 ELSE page[s].recorded + 1, !.balance =
         account[UserOf[s]].balance, !.cas = account[UserOf[s]].cas] \in Buy
      BY <2>6, SessionTypes DEF Buy
    <2>8. buy' \in [Sessions -> Buy]
      BY <1>7, <2>5, <2>6, <2>7 DEF VerifyAccount, TypeInv, TypeOK, SetBuy
    <2>9. UNCHANGED <<account, slot, tx, campaign, view, rec, faults, others,
         debits, ledger>>
      BY <1>7 DEF VerifyAccount, db, sess, hist
    <2> QED BY <2>1, <2>4, <2>8, <2>9 DEF TypeInv, TypeOK, AuditsSlot,
         SlotExists
  <1>8. CASE EnsureSlotDoesntExist(s)
    <2>1. pc' \in [Sessions -> SessionPcs]
      BY <1>8 DEF EnsureSlotDoesntExist, MayLock, TypeInv, TypeOK, Goto, SessionPcs
    <2>2. NoBuy \in Buy
      BY DEF NoBuy, Buy
    <2>3. PICK p \in PricesNow(s) :
            \/ SetBuy(s, [buy[s] EXCEPT !.price = p])
            \/ SetBuy(s, NoBuy)
      BY <1>8 DEF EnsureSlotDoesntExist, MayLock
    <2>4. p \in Nat
      BY SessionTypes DEF PricesNow, TypeInv, TypeOK, SlotDoc, Snapshot
    <2>. [buy[s] EXCEPT !.price = p] \in Buy
      BY <2>4, SessionTypes DEF Buy
    <2>5. buy' \in [Sessions -> Buy]
      BY <2>2, <2>3 DEF TypeInv, TypeOK, SetBuy
    <2>6. UNCHANGED <<account, slot, tx, campaign, view, page, rec, faults,
         others, debits, ledger>>
      BY <1>8 DEF EnsureSlotDoesntExist, MayLock, db, sess, hist
    <2> QED BY <2>1, <2>5, <2>6 DEF TypeInv, TypeOK, AuditsSlot, SlotExists
  <1>9. CASE LockAccount(s)
    <2>1. pc' \in [Sessions -> SessionPcs]
      BY <1>9 DEF LockAccount, TypeInv, TypeOK, Goto, SessionPcs
    <2>2. RolledBack(s) \in Page /\ RolledBack(s).recorded < MaxSlot
      BY SessionTypes DEF RolledBack, Page
    <2>3. page' \in [Sessions -> Page] /\ \A t \in Sessions : page'[t].recorded < MaxSlot
      <3>1. page' = page \/ page' = [page EXCEPT ![s] = RolledBack(s)]
        BY <1>9 DEF LockAccount, SetPage
      <3>2. page \in [Sessions -> Page] /\ \A t \in Sessions : page[t].recorded < MaxSlot
        BY DEF TypeInv, TypeOK
      <3> QED BY <2>2, <3>1, <3>2
    <2>4. [balance |-> buy[s].balance, cas |-> account[UserOf[s]].cas + 1,
         filling |-> buy[s].slot, with |-> buy[s].with, other |-> FALSE] \in
         Account
      BY SessionTypes DEF Account, Buy
    <2>5. account' \in [Users -> Account]
      BY <1>9, <2>4, SessionTypes DEF LockAccount, TypeInv, TypeOK, SetAccount
    <2>6. NoBuy \in Buy
      BY DEF NoBuy, Buy
    <2>7. [buy[s] EXCEPT !.cas = account[UserOf[s]].cas + 1] \in Buy
      BY SessionTypes DEF Buy
    <2>8. buy' \in [Sessions -> Buy]
      BY <1>9, <2>6, <2>7 DEF LockAccount, TypeInv, TypeOK, SetBuy
    <2>9. UNCHANGED <<slot, tx, campaign, view, rec, faults, others, debits,
         ledger>>
      BY <1>9 DEF LockAccount, db, sess, hist
    <2> QED BY <2>1, <2>3, <2>5, <2>8, <2>9 DEF TypeInv, TypeOK, AuditsSlot,
         SlotExists
  <1>10. CASE AddSlot(s)
    <2>1. pc' \in [Sessions -> SessionPcs]
      BY <1>10 DEF AddSlot, TypeInv, TypeOK, Goto, SessionPcs
    <2>2. RolledBack(s) \in Page /\ RolledBack(s).recorded < MaxSlot
      BY SessionTypes DEF RolledBack, Page
    <2>3. page' \in [Sessions -> Page] /\ \A t \in Sessions : page'[t].recorded
         < MaxSlot
      <3> DEFINE P == RolledBack(s)
      <3>1. page' = page \/ page' = [page EXCEPT ![s] = P]
        BY <1>10 DEF AddSlot, SetPage
      <3>2. P \in Page /\ P.recorded < MaxSlot
        BY <2>2
      <3>3. page \in [Sessions -> Page] /\ \A t \in Sessions : page[t].recorded < MaxSlot
        BY DEF TypeInv, TypeOK
      <3> HIDE DEF P
      <3> QED BY <3>1, <3>2, <3>3
    <2>4. [with |-> buy[s].with, price |-> buy[s].price] \in SlotDoc
      BY SessionTypes DEF Buy, SlotDoc
    <2>5. slot' \in [Slots -> SlotDoc]
      BY <1>10, <2>4 DEF AddSlot, TypeInv, TypeOK
    <2>6. UNCHANGED <<account, tx, campaign, view, buy, rec, faults, others,
         debits, ledger>>
      BY <1>10 DEF AddSlot, db, sess, hist
    <2> QED BY <2>1, <2>3, <2>5, <2>6, <1>10 DEF TypeInv, TypeOK, AuditsSlot,
         SlotExists, AddSlot
  <1>11. CASE AddTx(s)
    <2>1. pc' \in [Sessions -> SessionPcs]
      BY <1>11 DEF AddTx, TypeInv, TypeOK, Goto, SessionPcs
    <2>2. [buyer |-> UserOf[s], amount |-> buy[s].price] \in TxDoc
      BY SessionTypes DEF Buy, TxDoc
    <2>3. tx' \in [Slots -> TxDoc]
      BY <1>11, <2>2 DEF AddTx, TypeInv, TypeOK, AddTransaction
    <2>4. UNCHANGED <<account, slot, campaign, view, page, buy, rec, faults,
         others, debits, ledger>>
      BY <1>11 DEF AddTx, db, sess, hist
    <2> QED BY <2>1, <2>3, <2>4 DEF TypeInv, TypeOK, AuditsSlot, SlotExists
  <1>12. CASE Debit(s)
    <2>1. pc' \in [Sessions -> SessionPcs]
      BY <1>12 DEF Debit, TypeInv, TypeOK, Goto, SessionPcs
    <2>2. [balance |-> buy[s].balance - buy[s].price, cas |->
         account[UserOf[s]].cas + 1, filling |-> None, with |-> NoFiller, other
         |-> FALSE] \in Account
      BY SessionTypes DEF Account, Buy
    <2>3. account' \in [Users -> Account]
      BY <1>12, <2>2, SessionTypes DEF Debit, TypeInv, TypeOK, DebitAndUnlock,
           SetAccount
    <2>4. debits' = debits \/ debits' = [debits EXCEPT ![buy[s].slot] =
         debits[buy[s].slot] + 1]
      BY <1>12 DEF Debit, DebitAndUnlock
    <2>5. debits \in [Slots -> Nat]
      BY DEF TypeInv, TypeOK
    <2>6. \A i \in Slots : debits[i] + 1 \in Nat
      BY <2>5
    <2>7. debits' \in [Slots -> Nat]
      BY <2>4, <2>5, <2>6
    <2>8. UNCHANGED <<slot, tx, campaign, view, page, buy, rec, faults, others,
         ledger>>
      BY <1>12 DEF Debit, db, sess, hist, DebitAndUnlock
    <2> QED BY <2>1, <2>3, <2>7, <2>8 DEF TypeInv, TypeOK, AuditsSlot,
         SlotExists
  <1>13. CASE DoneUnlocking(s)
    <2>1. pc' \in [Sessions -> SessionPcs]
      BY <1>13 DEF DoneUnlocking, TypeInv, TypeOK, Goto, SessionPcs
    <2>2. [buy[s] EXCEPT !.campaignCas = view[s].cas] \in Buy
      BY SessionTypes DEF Buy
    <2>3. buy' \in [Sessions -> Buy]
      BY <1>13, <2>2 DEF DoneUnlocking, TypeInv, TypeOK, SetBuy
    <2>4. UNCHANGED <<account, slot, tx, campaign, view, page, rec, faults,
         others, debits, ledger>>
      BY <1>13 DEF DoneUnlocking, db, sess, hist
    <2> QED BY <2>1, <2>3, <2>4 DEF TypeInv, TypeOK, AuditsSlot, SlotExists
  <1>14. CASE UpdateCampaign(s)
    <2>1. pc' \in [Sessions -> SessionPcs]
      BY <1>14 DEF UpdateCampaign, TypeInv, TypeOK, Goto, SessionPcs
    <2>2. NoBuy \in Buy
      BY DEF NoBuy, Buy
    <2>3. buy' \in [Sessions -> Buy]
      BY <1>14, <2>2 DEF UpdateCampaign, TypeInv, TypeOK, SetBuy
    <2>4. buy[s].slot \in Slots \cup {None} /\ campaign.cas + 1 \in Nat
      BY SessionTypes DEF Buy, Snapshot
    <2>5. campaign' \in Snapshot
      BY <1>14, <2>4 DEF UpdateCampaign, TypeInv, TypeOK, SetCampaign, Snapshot
    <2>6. UNCHANGED <<account, slot, tx, view, page, rec, faults, others,
         debits, ledger>>
      BY <1>14 DEF UpdateCampaign, db, sess, hist
    <2> QED BY <2>1, <2>3, <2>5, <2>6 DEF TypeInv, TypeOK, AuditsSlot,
         SlotExists
  <1>15. CASE ContinueRecovering(s)
    <2>1. pc' \in [Sessions -> SessionPcs]
      BY <1>15 DEF ContinueRecovering, SlotIsTheirs, TypeInv, TypeOK, Goto, SessionPcs
    <2>2. NoBuy \in Buy
      BY DEF NoBuy, Buy
    <2>3. buy' \in [Sessions -> Buy]
      BY <1>15, <2>2 DEF ContinueRecovering, SlotIsTheirs, TypeInv, TypeOK, SetBuy
    <2>4. UNCHANGED <<account, slot, tx, campaign, view, page, rec, faults,
         others, debits, ledger>>
      BY <1>15 DEF ContinueRecovering, SlotIsTheirs, db, sess, hist
    <2> QED BY <2>1, <2>3, <2>4 DEF TypeInv, TypeOK, AuditsSlot, SlotExists
  <1>16. CASE UnlockWithoutDebitting(s)
    <2>1. pc' \in [Sessions -> SessionPcs]
      BY <1>16 DEF UnlockWithoutDebitting, TypeInv, TypeOK, Goto, SessionPcs
    <2>2. NoBuy \in Buy
      BY DEF NoBuy, Buy
    <2>3. buy' \in [Sessions -> Buy]
      BY <1>16, <2>2 DEF UnlockWithoutDebitting, TypeInv, TypeOK, SetBuy
    <2>4. [balance |-> buy[s].balance, cas |-> account[UserOf[s]].cas + 1,
         filling |-> None, with |-> NoFiller, other |-> FALSE] \in Account
      BY SessionTypes DEF Account, Buy
    <2>5. account' \in [Users -> Account]
      BY <1>16, <2>4, SessionTypes DEF UnlockWithoutDebitting, TypeInv, TypeOK,
           SetAccount
    <2>6. UNCHANGED <<slot, tx, campaign, view, page, rec, faults, others,
         debits, ledger>>
      BY <1>16 DEF UnlockWithoutDebitting, db, sess, hist
    <2> QED BY <2>1, <2>3, <2>5, <2>6 DEF TypeInv, TypeOK, AuditsSlot,
         SlotExists
  <1>17. CASE Crash(s)
    <2>1. pc' \in [Sessions -> SessionPcs]
      BY <1>17 DEF Crash, TypeInv, TypeOK, Goto, SessionPcs
    <2>2. NoView \in Snapshot
      BY DEF NoView, Snapshot
    <2>3. view' \in [Sessions -> Snapshot]
      BY <1>17, <2>2 DEF Crash, TypeInv, TypeOK
    <2>4. NoPage \in Page /\ NoPage.recorded < MaxSlot
      BY DEF NoPage, Page
    <2>5. page' \in [Sessions -> Page] /\ \A t \in Sessions : page'[t].recorded
         < MaxSlot
      BY <1>17, <2>4 DEF Crash, TypeInv, TypeOK, SetPage
    <2>6. NoBuy \in Buy
      BY DEF NoBuy, Buy
    <2>7. buy' \in [Sessions -> Buy]
      BY <1>17, <2>6 DEF Crash, TypeInv, TypeOK, SetBuy
    <2>8. faults' \in 0..MaxFaults
      BY <1>17 DEF Crash, TypeInv, TypeOK
    <2>9. UNCHANGED <<account, slot, tx, campaign, rec, others, debits, ledger>>
      BY <1>17 DEF Crash, db, sess, hist
    <2> QED BY <2>1, <2>3, <2>5, <2>7, <2>8, <2>9 DEF TypeInv, TypeOK,
         AuditsSlot, SlotExists
  <1>18. CASE DbError(s)
    <2>1. pc' \in [Sessions -> SessionPcs]
      BY <1>18 DEF DbError, TypeInv, TypeOK, Goto, SessionPcs
    <2>2. NoPage \in Page /\ NoPage.recorded < MaxSlot
      BY DEF NoPage, Page
    <2>3. [page[s] EXCEPT !.recorded = None] \in Page /\ [page[s] EXCEPT
         !.recorded = None].recorded < MaxSlot
      BY SessionTypes DEF Page
    <2>4. page' \in [Sessions -> Page] /\ \A t \in Sessions : page'[t].recorded
         < MaxSlot
      BY <1>18, <2>2, <2>3 DEF DbError, TypeInv, TypeOK, SetPage
    <2>5. NoBuy \in Buy
      BY DEF NoBuy, Buy
    <2>6. buy' \in [Sessions -> Buy]
      BY <1>18, <2>5 DEF DbError, TypeInv, TypeOK, SetBuy
    <2>7. faults' \in 0..MaxFaults
      BY <1>18 DEF DbError, TypeInv, TypeOK
    <2>8. UNCHANGED <<account, slot, tx, campaign, view, rec, others, debits,
         ledger>>
      BY <1>18 DEF DbError, db, sess, hist
    <2> QED BY <2>1, <2>4, <2>6, <2>7, <2>8 DEF TypeInv, TypeOK, AuditsSlot,
         SlotExists
  <1> QED BY <1>1, <1>2, <1>3, <1>4, <1>5, <1>6, <1>7, <1>8, <1>9, <1>10, <1>11, <1>12, <1>13, <1>14, <1>15, <1>16, <1>17, <1>18 DEF Driver

LEMMA RecovererTypeInv ==
  ASSUME TypeInv, NEW r \in Recoverers, Recoverer(r) \/ RecExit(r)
  PROVE  TypeInv'
  <1>1. CASE AuditCampaign(r)
    <2>1. campaign.last < MaxSlot => campaign.last + 1 \in Slots
      BY RecTypes DEF Snapshot
    <2>2. campaign.last < MaxSlot => [rec[r] EXCEPT !.pc = "getSlot", !.n =
         campaign.last + 1] \in Rec
      BY <2>1, RecTypes DEF Rec
    <2>3. rec' \in [Recoverers -> Rec]
      BY <1>1, <2>1, <2>2 DEF AuditCampaign, TypeInv, TypeOK, SetRec
    <2>4. UNCHANGED <<account, slot, tx, campaign, pc, view, page, buy, faults,
         others, debits, ledger>>
      BY <1>1 DEF AuditCampaign, db, sess, hist
    <2>5. AuditsSlot(r)'
      BY <1>1, <2>1, RecTypes DEF AuditCampaign, TypeInv, AuditsSlot,
           SlotExists, SetRec, At, Asleep, Parked, Rec, db
    <2>6. \A x \in Recoverers \ {r} : AuditsSlot(x)'
      BY <1>1, RecTypes DEF AuditCampaign, TypeInv, AuditsSlot, SlotExists,
           SetRec, db
    <2> QED BY <2>3, <2>4, <2>5, <2>6 DEF TypeInv, TypeOK
  <1>2. CASE CheckNextSlot(r)
    <2>1. Asleep \in Rec
      BY DEF Asleep, Parked, Rec
    <2>2. At(r, "recheckCampaign") \in Rec
      BY RecTypes DEF At, Rec
    <2>3. rec' \in [Recoverers -> Rec]
      BY <1>2, <2>1, <2>2 DEF CheckNextSlot, TypeInv, TypeOK, SetRec
    <2>4. UNCHANGED <<account, slot, tx, campaign, pc, view, page, buy, faults,
         others, debits, ledger>>
      BY <1>2 DEF CheckNextSlot, db, sess, hist
    <2>5. AuditsSlot(r)'
      BY <1>2, RecTypes DEF CheckNextSlot, TypeInv, AuditsSlot, SlotExists,
           SetRec, At, Asleep, Parked, Rec, db
    <2>6. \A x \in Recoverers \ {r} : AuditsSlot(x)'
      BY <1>2, RecTypes DEF CheckNextSlot, TypeInv, AuditsSlot, SlotExists,
           SetRec, db
    <2> QED BY <2>3, <2>4, <2>5, <2>6 DEF TypeInv, TypeOK
  <1>3. CASE RecheckCampaign(r)
    <2> DEFINE Found == [rec[r] EXCEPT !.pc = "getTx", !.campaignCas = campaign.cas]
    <2>1. Asleep \in Rec
      BY DEF Asleep, Parked, Rec
    <2>2. Found \in Rec /\ Found.n = rec[r].n
      BY RecTypes DEF Rec, Snapshot
    <2>3. rec' = [rec EXCEPT ![r] = Asleep] \/ rec' = [rec EXCEPT ![r] = Found]
      BY <1>3 DEF RecheckCampaign, SetRec
    <2> HIDE DEF Found
    <2>4. rec' \in [Recoverers -> Rec]
      BY <2>1, <2>2, <2>3, RecTypes
    <2>5. UNCHANGED <<account, slot, tx, campaign, pc, view, page, buy, faults,
         others, debits, ledger>>
      BY <1>3 DEF RecheckCampaign, db, sess, hist
    <2>6. rec[r].n \in Slots /\ SlotExists(rec[r].n)
      BY <1>3, BuyerIsUser DEF RecheckCampaign
    <2>7. AuditsSlot(r)'
      BY <2>2, <2>3, <2>5, <2>6, RecTypes DEF AuditsSlot, SlotExists, Asleep, Parked
    <2>8. \A x \in Recoverers \ {r} : AuditsSlot(x)'
      BY <2>3, <2>5, RecTypes DEF TypeInv, AuditsSlot, SlotExists
    <2> QED BY <2>4, <2>5, <2>7, <2>8 DEF TypeInv, TypeOK
  <1>4. CASE GetTx(r)
    <2>1. [rec[r] EXCEPT !.pc = "getAccount", !.txExists = TxExists(rec[r].n)]
         \in Rec
      BY RecTypes DEF At, Rec, TxExists
    <2>2. rec' \in [Recoverers -> Rec]
      BY <1>4, <2>1 DEF GetTx, TypeInv, TypeOK, SetRec
    <2>3. UNCHANGED <<account, slot, tx, campaign, pc, view, page, buy, faults,
         others, debits, ledger>>
      BY <1>4 DEF GetTx, db, sess, hist
    <2>4. AuditsSlot(r)'
      BY <1>4, RecTypes DEF GetTx, TypeInv, AuditsSlot, SlotExists, SetRec, At,
           Asleep, Parked, Rec, db
    <2>5. \A x \in Recoverers \ {r} : AuditsSlot(x)'
      BY <1>4, RecTypes DEF GetTx, TypeInv, AuditsSlot, SlotExists, SetRec, db
    <2> QED BY <2>2, <2>3, <2>4, <2>5 DEF TypeInv, TypeOK
  <1>5. CASE GetAccount(r)
    <2>1. Asleep \in Rec
      BY DEF Asleep, Parked, Rec
    <2> DEFINE a == account[BuyerOf(rec[r].n)]
               Found(p) == [rec[r] EXCEPT !.pc = p, !.balance = a.balance, !.cas = a.cas]
    <2>2. a.balance \in Int /\ a.cas \in Nat
      BY <1>5, BuyerIsUser DEF GetAccount, LeftToDo
    <2>3. \/ rec' = [rec EXCEPT ![r] = Asleep]
          \/ rec' = [rec EXCEPT ![r] = Found("debit")]
          \/ rec' = [rec EXCEPT ![r] = Found("addTx")]
          \/ rec' = [rec EXCEPT ![r] = Found("updateCampaign")]
          \/ rec' = [rec EXCEPT ![r] = Found("recheckTx")]
      BY <1>5 DEF GetAccount, LeftToDo, SetRec
    <2>4. \A p \in {"debit", "addTx", "updateCampaign", "recheckTx"} :
             Found(p) \in Rec /\ Found(p).n = rec[r].n
      BY <2>2, RecTypes DEF Rec
    <2> HIDE DEF Found
    <2>5. rec' \in [Recoverers -> Rec]
      BY <2>1, <2>3, <2>4 DEF TypeInv, TypeOK
    <2>6. UNCHANGED <<account, slot, tx, campaign, pc, view, page, buy, faults,
         others, debits, ledger>>
      BY <1>5 DEF GetAccount, LeftToDo, db, sess, hist
    <2>7. rec[r].n \in Slots /\ SlotExists(rec[r].n)
      BY <1>5, BuyerIsUser DEF GetAccount, LeftToDo
    <2>8. AuditsSlot(r)'
      BY <2>3, <2>4, <2>6, <2>7, RecTypes DEF AuditsSlot, SlotExists, Asleep, Parked
    <2>9. \A x \in Recoverers \ {r} : AuditsSlot(x)'
      BY <2>3, <2>6, RecTypes DEF TypeInv, AuditsSlot, SlotExists
    <2> QED BY <2>5, <2>6, <2>8, <2>9 DEF TypeInv, TypeOK
  <1>6. CASE RecheckTx(r)
    <2>1. Asleep \in Rec
      BY DEF Asleep, Parked, Rec
    <2>2. At(r, "totalSystemFailure") \in Rec
      BY RecTypes DEF At, Rec
    <2>3. rec' \in [Recoverers -> Rec]
      BY <1>6, <2>1, <2>2 DEF RecheckTx, TypeInv, TypeOK, SetRec
    <2>4. UNCHANGED <<account, slot, tx, campaign, pc, view, page, buy, faults,
         others, debits, ledger>>
      BY <1>6 DEF RecheckTx, db, sess, hist
    <2>5. AuditsSlot(r)'
      BY <1>6, RecTypes DEF RecheckTx, TypeInv, AuditsSlot, SlotExists, SetRec,
           At, Asleep, Parked, Rec, db
    <2>6. \A x \in Recoverers \ {r} : AuditsSlot(x)'
      BY <1>6, RecTypes DEF RecheckTx, TypeInv, AuditsSlot, SlotExists, SetRec,
           db
    <2> QED BY <2>3, <2>4, <2>5, <2>6 DEF TypeInv, TypeOK
  <1>7. CASE RecAddTx(r)
    <2>1. Asleep \in Rec
      BY DEF Asleep, Parked, Rec
    <2>2. At(r, "debit") \in Rec
      BY RecTypes DEF At, Rec
    <2>3. rec' \in [Recoverers -> Rec]
      BY <1>7, <2>1, <2>2 DEF RecAddTx, TypeInv, TypeOK, SetRec
    <2>4. [buyer |-> BuyerOf(rec[r].n), amount |-> slot[rec[r].n].price] \in
         TxDoc
      BY <1>7, BuyerIsUser DEF RecAddTx, TxDoc
    <2>5. tx' \in [Slots -> TxDoc]
      BY <1>7, <2>4 DEF RecAddTx, TypeInv, TypeOK, AddTransaction
    <2>6. UNCHANGED <<account, slot, campaign, pc, view, page, buy, faults,
         others, debits, ledger>>
      BY <1>7 DEF RecAddTx, db, sess, hist
    <2>7. AuditsSlot(r)'
      BY <1>7, RecTypes DEF RecAddTx, TypeInv, AuditsSlot, SlotExists, SetRec,
           At, Asleep, Parked, Rec, db
    <2>8. \A x \in Recoverers \ {r} : AuditsSlot(x)'
      BY <1>7, RecTypes DEF RecAddTx, TypeInv, AuditsSlot, SlotExists, SetRec,
           db
    <2> QED BY <2>3, <2>5, <2>6, <2>7, <2>8 DEF TypeInv, TypeOK
  <1>8. CASE RecDebit(r)
    <2>1. Asleep \in Rec
      BY DEF Asleep, Parked, Rec
    <2>2. At(r, "updateCampaign") \in Rec
      BY RecTypes DEF At, Rec
    <2>3. rec' \in [Recoverers -> Rec]
      BY <1>8, <2>1, <2>2 DEF RecDebit, TypeInv, TypeOK, SetRec
    <2>4. [balance |-> rec[r].balance - slot[rec[r].n].price, cas |->
         account[BuyerOf(rec[r].n)].cas + 1, filling |-> None, with |->
         NoFiller, other |-> FALSE] \in Account
      BY <1>8, BuyerIsUser, RecTypes DEF RecDebit, Rec, Account
    <2>5. account' \in [Users -> Account]
      BY <1>8, <2>4, SessionTypes DEF RecDebit, TypeInv, TypeOK, DebitAndUnlock,
           SetAccount
    <2>6. debits' = debits \/ debits' = [debits EXCEPT ![rec[r].n] =
         debits[rec[r].n] + 1]
      BY <1>8 DEF RecDebit, DebitAndUnlock
    <2>7. debits \in [Slots -> Nat]
      BY DEF TypeInv, TypeOK
    <2>8. \A i \in Slots : debits[i] + 1 \in Nat
      BY <2>7
    <2>9. debits' \in [Slots -> Nat]
      BY <2>6, <2>7, <2>8
    <2>10. UNCHANGED <<slot, tx, campaign, pc, view, page, buy, faults, others,
         ledger>>
      BY <1>8 DEF RecDebit, db, sess, hist
    <2>11. AuditsSlot(r)'
      BY <1>8, RecTypes DEF RecDebit, TypeInv, AuditsSlot, SlotExists, SetRec,
           At, Asleep, Parked, Rec, db
    <2>12. \A x \in Recoverers \ {r} : AuditsSlot(x)'
      BY <1>8, RecTypes DEF RecDebit, TypeInv, AuditsSlot, SlotExists, SetRec,
           db
    <2> QED BY <2>3, <2>5, <2>9, <2>10, <2>11, <2>12 DEF TypeInv, TypeOK
  <1>9. CASE RecUpdateCampaign(r)
    <2>1. Asleep \in Rec
      BY DEF Asleep, Parked, Rec
    <2>2. rec' \in [Recoverers -> Rec]
      BY <1>9, <2>1 DEF RecUpdateCampaign, TypeInv, TypeOK, SetRec
    <2>3. rec[r].n \in Slots \cup {None} /\ campaign.cas + 1 \in Nat
      BY RecTypes DEF Rec, Snapshot
    <2>4. campaign' \in Snapshot
      BY <1>9, <2>3 DEF RecUpdateCampaign, TypeInv, TypeOK, SetCampaign,
           Snapshot
    <2>5. UNCHANGED <<account, slot, tx, pc, view, page, buy, faults, others,
         debits, ledger>>
      BY <1>9 DEF RecUpdateCampaign, db, sess, hist
    <2>6. AuditsSlot(r)'
      BY <1>9, RecTypes DEF RecUpdateCampaign, TypeInv, AuditsSlot, SlotExists,
           SetRec, At, Asleep, Parked, Rec, db
    <2>7. \A x \in Recoverers \ {r} : AuditsSlot(x)'
      BY <1>9, RecTypes DEF RecUpdateCampaign, TypeInv, AuditsSlot, SlotExists,
           SetRec, db
    <2> QED BY <2>2, <2>4, <2>5, <2>6, <2>7 DEF TypeInv, TypeOK
  <1>10. CASE RecStart(r)
    <2>1. Asleep \in Rec
      BY DEF Asleep, Parked, Rec
    <2>2. rec' \in [Recoverers -> Rec]
      BY <1>10, <2>1 DEF RecStart, TypeInv, TypeOK, SetRec
    <2>3. UNCHANGED <<account, slot, tx, campaign, pc, view, page, buy, faults,
         others, debits, ledger>>
      BY <1>10 DEF RecStart, db, sess, hist
    <2>4. AuditsSlot(r)'
      BY <1>10, RecTypes DEF RecStart, TypeInv, AuditsSlot, SlotExists, SetRec,
           At, Asleep, Parked, Rec, db
    <2>5. \A x \in Recoverers \ {r} : AuditsSlot(x)'
      BY <1>10, RecTypes DEF RecStart, TypeInv, AuditsSlot, SlotExists, SetRec,
           db
    <2> QED BY <2>2, <2>3, <2>4, <2>5 DEF TypeInv, TypeOK
  <1>11. CASE RecExit(r)
    <2>1. Parked("down") \in Rec
      BY DEF Parked, Rec
    <2>2. rec' \in [Recoverers -> Rec]
      BY <1>11, <2>1 DEF RecExit, TypeInv, TypeOK, SetRec
    <2>3. faults' \in 0..MaxFaults
      BY <1>11 DEF RecExit, TypeInv, TypeOK
    <2>4. UNCHANGED <<account, slot, tx, campaign, pc, view, page, buy, others,
         debits, ledger>>
      BY <1>11 DEF RecExit, db, sess, hist
    <2>5. AuditsSlot(r)'
      BY <1>11, RecTypes DEF RecExit, TypeInv, AuditsSlot, SlotExists, SetRec,
           At, Asleep, Parked, Rec, db
    <2>6. \A x \in Recoverers \ {r} : AuditsSlot(x)'
      BY <1>11, RecTypes DEF RecExit, TypeInv, AuditsSlot, SlotExists, SetRec,
           db
    <2> QED BY <2>2, <2>3, <2>4, <2>5, <2>6 DEF TypeInv, TypeOK
  <1> QED BY <1>1, <1>2, <1>3, <1>4, <1>5, <1>6, <1>7, <1>8, <1>9, <1>10, <1>11 DEF Recoverer

LEMMA OthersTypeInv ==
  ASSUME TypeInv, NEW u \in Users, OtherLock(u) \/ OtherUnlock(u) \/ AddFunds(u)
  PROVE  TypeInv'
  <1>1. account[u] \in Account /\ account[u].balance \in Int /\ account[u].cas \in Nat
    <2>1. account[u] \in Account BY DEF TypeInv, TypeOK
    <2> QED BY <2>1 DEF Account
  <1>2. \A b \in Int, k \in BOOLEAN : [balance |-> b, cas |-> account[u].cas + 1, filling |-> None,
                          with |-> NoFiller, other |-> k] \in Account
    BY <1>1 DEF Account
  <1>3. CASE OtherLock(u)
    <2>1. account' \in [Users -> Account]
      BY <1>1, <1>2, <1>3 DEF OtherLock, SetAccount, TypeInv, TypeOK
    <2>2. others' \in 0..MaxOthers
      BY <1>3 DEF OtherLock, TypeInv, TypeOK
    <2>3. UNCHANGED <<slot, tx, campaign, pc, view, page, buy, rec, faults, debits, ledger>>
      BY <1>3 DEF OtherLock, sess, hist
    <2> QED BY <2>1, <2>2, <2>3 DEF TypeInv, TypeOK, AuditsSlot, SlotExists
  <1>4. CASE OtherUnlock(u) \/ AddFunds(u)
    <2>1. PICK d \in OtherAmounts :
             /\ SetAccount(u, account[u].balance + d, None, NoFiller, FALSE)
             /\ ledger' = [ledger EXCEPT ![u] = ledger[u] + d]
      BY <1>4 DEF OtherUnlock, AddFunds
    <2>2. account[u].balance + d \in Int
      BY <1>1
    <2>3. account' \in [Users -> Account]
      BY <1>2, <2>1, <2>2 DEF SetAccount, TypeInv, TypeOK
    <2>4. ledger[u] + d \in Int
      BY DEF TypeInv, TypeOK
    <2>5. ledger' \in [Users -> Int]
      BY <2>1, <2>4 DEF TypeInv, TypeOK
    <2>6. UNCHANGED <<slot, tx, campaign, pc, view, page, buy, rec, faults, debits>>
      BY <1>4 DEF OtherUnlock, AddFunds, sess
    <2>7. others' \in 0..MaxOthers
      <3>1. others \in 0..MaxOthers BY DEF TypeInv, TypeOK
      <3>2. others' = others \/ (others > 0 /\ others' = others - 1)
        BY <1>4 DEF OtherUnlock, AddFunds
      <3> QED BY <3>1, <3>2
    <2> QED BY <2>3, <2>5, <2>6, <2>7 DEF TypeInv, TypeOK, AuditsSlot, SlotExists
  <1> QED BY <1>3, <1>4

LEMMA NextTypeInv == TypeInv /\ [Next]_vars => TypeInv'
  <1>1. CASE UNCHANGED vars
    BY <1>1 DEF TypeInv, TypeOK, AuditsSlot, SlotExists, vars
  <1> QED BY <1>1, DriverTypeInv, RecovererTypeInv, OthersTypeInv DEF Next

\* Every variable keeps its type: no slot index runs past the bound, no lock
\* or transaction names anything but a slot and a user.
THEOREM TypeCorrect == Spec => []TypeOK
  <1>1. Spec => []TypeInv
    BY InitTypeInv, NextTypeInv, PTL DEF Spec
  <1>2. TypeInv => TypeOK
    BY DEF TypeInv
  <1> QED BY <1>1, <1>2, PTL

-----------------------------------------------------------------------------
(* What the steps of others leave as it is.                                 *)

\* Facts about one session that most steps below need.
LEMMA SessionFacts ==
  ASSUME TypeInv, NEW s \in Sessions
  PROVE  /\ UserOf[s] \in Users
         /\ account[UserOf[s]].cas \in Nat
         /\ buy[s].cas \in Nat
         /\ account[UserOf[s]].filling \in Slots \cup {None}
         /\ account[UserOf[s]].other \in BOOLEAN
         /\ buy[s].with \in Fillers \cup {NoFiller}
         /\ pc[s] \in SessionPcs
  BY SessionTypes DEF Account, Buy

\* What a session knows stays true while others store in an orderly way.
LEMMA DriverFrame ==
  ASSUME TypeInv, TypeInv', OrderlyStores, NEW s \in Sessions, DriverInv(s),
         pc'[s] = pc[s], buy'[s] = buy[s]
  PROVE  DriverInv(s)'
  <1> DEFINE u == UserOf[s]
  <1>1. /\ u \in Users /\ account[u].cas \in Nat /\ buy[s].cas \in Nat
        /\ buy[s].cas <= account[u].cas
    BY SessionFacts DEF DriverInv
  <1>2. account'[u].cas \in Nat
    BY <1>1 DEF TypeInv, TypeOK, Account
  <1>3. account'[u] = account[u] \/ account'[u].cas > account[u].cas
    BY <1>1 DEF OrderlyStores
  <1>4. Fresh(s)' => Fresh(s) /\ account'[u] = account[u]
    BY <1>1, <1>2, <1>3 DEF Fresh
  <1>5. \A i \in Slots : SlotExists(i) => SlotExists(i)' /\ slot'[i] = slot[i]
    BY DEF OrderlyStores, SlotExists
  <1>6. buy[s].cas <= account'[u].cas
    BY <1>1, <1>2, <1>3
  <1>7. pc[s] = "lockAccount" /\ Fresh(s)' /\ SlotExists(buy[s].slot)' =>
          BuyerOf(buy[s].slot)' # u
    <2> SUFFICES ASSUME pc[s] = "lockAccount", Fresh(s)', SlotExists(buy[s].slot)'
                 PROVE  BuyerOf(buy[s].slot)' # u
      OBVIOUS
    <2>1. buy[s].slot \in Slots /\ ~profileIsLocked(account[u]) /\ Fresh(s)
      BY <1>4 DEF DriverInv, Resting
    <2>2. CASE SlotExists(buy[s].slot)
      BY <2>1, <2>2, <1>5 DEF DriverInv, BuyerOf
    <2>3. CASE ~SlotExists(buy[s].slot)
      BY <2>1, <2>3 DEF OrderlyStores, profileIsLocked
    <2> QED BY <2>2, <2>3
  <1>8. pc[s] = "addSlot" /\ ~SlotExists(buy[s].slot)' => HoldsLock(s)'
    BY <1>1, <1>5 DEF DriverInv, OrderlyStores, HoldsLock, Resting
  <1>9. pc[s] \in {"addTx", "debit"} =>
          slot'[buy[s].slot].with = buy[s].with /\ slot'[buy[s].slot].price = buy[s].price
    BY <1>5 DEF DriverInv, SlotExists, Resting
  <1>10. pc[s] = "debit" => TxExists(buy[s].slot)'
    BY DEF DriverInv, OrderlyStores, TxExists, Resting
  <1>11. pc[s] \in {"loginUnlock", "beatenUnlock"} =>
           SlotExists(buy[s].slot)' /\ slot'[buy[s].slot].with # buy[s].with
    BY <1>5 DEF DriverInv, Resting
  <1>12. pc[s] \in {"getSlot", "lockAccount"} /\ Fresh(s)' => ~profileIsLocked(account'[u])
    BY <1>4 DEF DriverInv
  <1>13. pc[s] \in {"addSlot", "addTx", "debit"} \cup Recovering /\ Fresh(s)' => HoldsLock(s)'
    BY <1>4 DEF DriverInv, HoldsLock
  <1> QED
    BY <1>6, <1>7, <1>8, <1>9, <1>10, <1>11, <1>12, <1>13 DEF DriverInv, Resting

\* The same for a recoverer.
LEMMA RecFrame ==
  ASSUME TypeInv, TypeInv', OrderlyStores, NEW r \in Recoverers, RecInv(r),
         rec'[r] = rec[r]
  PROVE  RecInv(r)'
  <1>1. rec[r].txExists => TxExists(rec[r].n)'
    BY DEF RecInv, OrderlyStores, TxExists
  <1>2. rec[r].pc \in {"recheckTx", "debit"} => TxExists(rec[r].n)'
    BY DEF RecInv, OrderlyStores, TxExists, TypeInv, AuditsSlot
  <1>3. rec[r].pc \in {"addTx", "debit"} =>
          /\ rec[r].cas <= account'[BuyerOf(rec[r].n)'].cas
          /\ rec[r].cas = account'[BuyerOf(rec[r].n)'].cas =>
               account'[BuyerOf(rec[r].n)'].filling = rec[r].n
    <2> SUFFICES ASSUME rec[r].pc \in {"addTx", "debit"}
                 PROVE  /\ rec[r].cas <= account'[BuyerOf(rec[r].n)'].cas
                        /\ rec[r].cas = account'[BuyerOf(rec[r].n)'].cas =>
                             account'[BuyerOf(rec[r].n)'].filling = rec[r].n
      OBVIOUS
    <2> DEFINE u == BuyerOf(rec[r].n)
    <2>1. rec[r].n \in Slots /\ u \in Users /\ account[u].cas \in Nat
      BY BuyerIsUser
    <2>2. BuyerOf(rec[r].n)' = u
      BY <2>1, BuyerIsUser DEF OrderlyStores, BuyerOf
    <2>3. rec[r].cas \in Nat
      BY RecTypes DEF Rec
    <2>4. account'[u].cas \in Nat
      BY <2>1 DEF TypeInv, TypeOK, Account
    <2>5. account'[u] = account[u] \/ account'[u].cas > account[u].cas
      BY <2>1 DEF OrderlyStores
    <2> HIDE DEF u
    <2> QED BY <2>1, <2>2, <2>3, <2>4, <2>5 DEF RecInv, u
  <1> QED BY <1>1, <1>2, <1>3 DEF RecInv, TypeInv, AuditsSlot

-----------------------------------------------------------------------------
(* Steps of a session that store nothing, or only the campaign.             *)

LEMMA NoStore ==
  ASSUME DocInv, UNCHANGED <<account, slot, tx, debits>>
  PROVE  OrderlyStores /\ DocInv'
  BY DEF DocInv, OrderlyStores, PaperworkOrder, TransactionMatchesSlot, DebitedOnce,
         NeverRelockedToPaidSlot, OneLock, SlotExists, TxExists, BuyerOf

\* At rest a session relies on nothing.
LEMMA AtRest ==
  ASSUME TypeInv, TypeInv', NEW s \in Sessions,
         pc'[s] \in Resting \cup {"getFillers", "debited", "updateCampaign"},
         buy'[s].cas <= account'[UserOf[s]].cas
  PROVE  DriverInv(s)'
  BY DEF DriverInv, Resting, Recovering

LEMMA NoBuyAtRest ==
  ASSUME TypeInv, TypeInv', NEW s \in Sessions,
         pc'[s] \in Resting, buy'[s] = NoBuy
  PROVE  DriverInv(s)'
  <1>1. account'[UserOf[s]].cas \in Nat
    BY DEF TypeInv, TypeOK, Account
  <1>2. buy'[s].cas = 0
    BY DEF NoBuy
  <1> QED BY <1>1, <1>2, AtRest

\* No session touches the local state of another, or of a recoverer.
LEMMA OnlyItsOwn ==
  ASSUME TypeInv, NEW s \in Sessions, Driver(s) \/ Crash(s) \/ DbError(s)
  PROVE  /\ \A t \in Sessions \ {s} : pc'[t] = pc[t] /\ buy'[t] = buy[t]
         /\ rec' = rec
  <1>1. pc \in [Sessions -> SessionPcs] /\ buy \in [Sessions -> Buy]
    BY DEF TypeInv, TypeOK
  <1> USE DEF Goto, SetBuy, sess
  <1>2. CASE CampaignUpdate(s) BY <1>2 DEF CampaignUpdate
  <1>3. CASE Login(s) BY <1>1, <1>3 DEF Login
  <1>4. CASE Logout(s) BY <1>1, <1>4 DEF Logout
  <1>5. CASE BuySlotStep1(s) BY <1>1, <1>5 DEF BuySlotStep1
  <1>6. CASE BuySlotPopulateStep2(s) BY <1>1, <1>6 DEF BuySlotPopulateStep2
  <1>7. CASE BuySlotStep2(s) BY <1>1, <1>7 DEF BuySlotStep2
  <1>8. CASE VerifyAccount(s) BY <1>1, <1>8 DEF VerifyAccount
  <1>9. CASE EnsureSlotDoesntExist(s) BY <1>1, <1>9 DEF EnsureSlotDoesntExist, MayLock
  <1>10. CASE LockAccount(s) BY <1>1, <1>10 DEF LockAccount
  <1>11. CASE AddSlot(s) BY <1>1, <1>11 DEF AddSlot
  <1>12. CASE AddTx(s) BY <1>1, <1>12 DEF AddTx
  <1>13. CASE Debit(s) BY <1>1, <1>13 DEF Debit
  <1>14. CASE DoneUnlocking(s) BY <1>1, <1>14 DEF DoneUnlocking
  <1>15. CASE UpdateCampaign(s) BY <1>1, <1>15 DEF UpdateCampaign
  <1>16. CASE ContinueRecovering(s) BY <1>1, <1>16 DEF ContinueRecovering, SlotIsTheirs
  <1>17. CASE UnlockWithoutDebitting(s) BY <1>1, <1>17 DEF UnlockWithoutDebitting
  <1>18. CASE Crash(s) BY <1>1, <1>18 DEF Crash
  <1>19. CASE DbError(s) BY <1>1, <1>19 DEF DbError
  <1> QED BY <1>2, <1>3, <1>4, <1>5, <1>6, <1>7, <1>8, <1>9, <1>10, <1>11, <1>12,
             <1>13, <1>14, <1>15, <1>16, <1>17, <1>18, <1>19 DEF Driver

Quiet(s) ==
  \/ CampaignUpdate(s) \/ Login(s) \/ Logout(s) \/ BuySlotStep1(s)
  \/ BuySlotPopulateStep2(s) \/ BuySlotStep2(s) \/ VerifyAccount(s)
  \/ EnsureSlotDoesntExist(s) \/ DoneUnlocking(s) \/ UpdateCampaign(s)
  \/ ContinueRecovering(s) \/ Crash(s) \/ DbError(s)

LEMMA QuietStoresNothing ==
  ASSUME NEW s \in Sessions, Quiet(s)
  PROVE  UNCHANGED <<account, slot, tx, debits>>
  BY DEF Quiet, db, hist, CampaignUpdate, Login, Logout, BuySlotStep1,
         BuySlotPopulateStep2, BuySlotStep2, VerifyAccount, EnsureSlotDoesntExist,
         DoneUnlocking, UpdateCampaign, ContinueRecovering, Crash, DbError

LEMMA QuietDriverInv ==
  ASSUME TypeInv, TypeInv', DocInv, NEW s \in Sessions, DriverInv(s), Quiet(s)
  PROVE  DriverInv(s)'
  <1> DEFINE u == UserOf[s]
  <1>a. account' = account /\ slot' = slot /\ tx' = tx
    BY QuietStoresNothing
  <1>b. OrderlyStores
    BY NoStore, QuietStoresNothing
  <1>c. /\ u \in Users /\ account[u].cas \in Nat /\ buy[s].cas \in Nat
        /\ buy[s].cas <= account[u].cas /\ account[u].filling \in Slots \cup {None}
    BY SessionFacts DEF DriverInv
  <1>d. pc \in [Sessions -> SessionPcs] /\ buy \in [Sessions -> Buy] /\ buy[s] \in Buy
    BY DEF TypeInv, TypeOK
  <1>1. CASE CampaignUpdate(s)
    BY <1>1, <1>b, DriverFrame DEF CampaignUpdate
  <1>2. CASE Login(s)
    <2> DEFINE a == account[u]
               B == [NoBuy EXCEPT !.slot = a.filling, !.with = a.with,
                                  !.balance = a.balance, !.cas = a.cas]
    <2>1. \/ pc'[s] = "idle" /\ buy' = buy
          \/ pc'[s] = "loginCheckSlot" /\ buy'[s] = B /\ a.filling # None
      BY <1>2, <1>d DEF Login, Goto, SetBuy
    <2>2. B.slot = a.filling /\ B.with = a.with /\ B.cas = a.cas
      BY DEF NoBuy
    <2> HIDE DEF B
    <2> QED BY <2>1, <2>2, <1>a, <1>c, AtRest
            DEF DriverInv, Resting, Recovering, HoldsLock
  <1>3. CASE Logout(s)
    BY <1>3, <1>a, <1>c, <1>d, AtRest DEF Logout, Goto, Resting
  <1>4. CASE BuySlotStep1(s)
    BY <1>4, <1>a, <1>c, <1>d, AtRest DEF BuySlotStep1, Goto, Resting
  <1>5. CASE BuySlotPopulateStep2(s)
    BY <1>5, <1>a, <1>c, <1>d, AtRest DEF BuySlotPopulateStep2, Goto, Resting
  <1>6. CASE BuySlotStep2(s)
    <2>1. PICK f \in Fillers : OwnerOf[f] = u /\ SetBuy(s, [buy[s] EXCEPT !.with = f])
      BY <1>6 DEF BuySlotStep2
    <2> DEFINE B == [buy[s] EXCEPT !.with = f]
    <2>2. buy'[s] = B /\ pc'[s] = "getAccount"
      BY <1>6, <2>1, <1>d DEF BuySlotStep2, Goto, SetBuy
    <2>3. B.with = f /\ B.cas = buy[s].cas
      BY <1>d DEF Buy
    <2> HIDE DEF B
    <2> QED BY <2>1, <2>2, <2>3, <1>a, <1>c DEF DriverInv, Resting, Recovering
  <1>7. CASE VerifyAccount(s)
    <2> DEFINE i == IF view[s].last = None THEN 0 ELSE page[s].recorded + 1
               B == [buy[s] EXCEPT !.slot = i, !.balance = account[u].balance,
                                   !.cas = account[u].cas]
    <2>1. \/ pc'[s] = "idle" /\ buy'[s] = NoBuy
          \/ /\ pc'[s] = "getSlot" /\ buy'[s] = B
             /\ page[s].recorded = view[s].last /\ ~profileIsLocked(account[u])
      BY <1>7, <1>d DEF VerifyAccount, Goto, SetBuy
    <2>2. page[s].recorded = view[s].last => i \in Slots
      BY SessionTypes DEF Page
    <2> HIDE DEF i
    <2>3. B.with = buy[s].with /\ B.cas = account[u].cas /\ B.slot = i
      BY <1>d DEF Buy
    <2> HIDE DEF B
    <2>4. buy[s].with \in Fillers /\ OwnerOf[buy[s].with] = u
      BY <1>7 DEF VerifyAccount, DriverInv
    <2>5. CASE pc'[s] = "idle"
      BY <2>1, <2>5, NoBuyAtRest DEF Resting
    <2>6. CASE pc'[s] = "getSlot"
      BY <2>1, <2>2, <2>3, <2>4, <2>6, <1>a, <1>c
         DEF DriverInv, Resting, Recovering, profileIsLocked
    <2> QED BY <2>1, <2>5, <2>6
  <1>8. CASE EnsureSlotDoesntExist(s)
    <2>1. PICK p \in PricesNow(s) :
            \/ pc'[s] = "idle" /\ buy'[s] = NoBuy
            \/ /\ pc'[s] = "lockAccount" /\ buy'[s] = [buy[s] EXCEPT !.price = p]
               /\ ~SlotExists(buy[s].slot)
      BY <1>8, <1>d DEF EnsureSlotDoesntExist, MayLock, Goto, SetBuy
    <2> DEFINE B == [buy[s] EXCEPT !.price = p]
    <2>2. B.with = buy[s].with /\ B.cas = buy[s].cas /\ B.slot = buy[s].slot
      BY <1>d DEF Buy
    <2>3. \/ pc'[s] = "idle" /\ buy'[s] = NoBuy
          \/ pc'[s] = "lockAccount" /\ buy'[s] = B /\ ~SlotExists(buy[s].slot)
      BY <2>1
    <2> HIDE DEF B
    <2>4. CASE pc'[s] = "idle"
      BY <2>3, <2>4, NoBuyAtRest DEF Resting
    <2>5. CASE pc'[s] = "lockAccount"
      BY <2>3, <2>2, <2>5, <1>8, <1>a, <1>c
         DEF DriverInv, Resting, Recovering, Fresh, SlotExists, EnsureSlotDoesntExist, MayLock,
             profileIsLocked
    <2> QED BY <2>3, <2>4, <2>5
  <1>9. CASE DoneUnlocking(s)
    <2>1. pc'[s] = "updateCampaign" /\ buy'[s] = [buy[s] EXCEPT !.campaignCas = view[s].cas]
      BY <1>9, <1>d DEF DoneUnlocking, Goto, SetBuy
    <2>2. buy'[s].cas = buy[s].cas
      BY <2>1, <1>d DEF Buy
    <2> QED BY <2>1, <2>2, <1>a, <1>c, AtRest
  <1>10. CASE UpdateCampaign(s)
    BY <1>10, <1>d, NoBuyAtRest DEF UpdateCampaign, Goto, SetBuy, Resting
  <1>11. CASE ContinueRecovering(s)
    <2>1. \/ pc'[s] \in Resting /\ buy'[s] = NoBuy
          \/ /\ pc'[s] \in {"loginUnlock", "beatenUnlock"} /\ buy' = buy
             /\ SlotExists(buy[s].slot) /\ slot[buy[s].slot].with # buy[s].with
      BY <1>11, <1>d DEF ContinueRecovering, SlotIsTheirs, Goto, SetBuy, Resting
    <2>2. CASE pc'[s] \in Resting
      BY <2>1, <2>2, NoBuyAtRest DEF Resting
    <2>3. CASE pc'[s] \in {"loginUnlock", "beatenUnlock"}
      BY <2>1, <2>3, <1>11, <1>a, <1>c
         DEF DriverInv, Resting, Recovering, ContinueRecovering, SlotIsTheirs, Fresh, HoldsLock, SlotExists
    <2> QED BY <2>1, <2>2, <2>3
  <1>12. CASE Crash(s)
    BY <1>12, <1>d, NoBuyAtRest DEF Crash, Goto, SetBuy, Resting
  <1>13. CASE DbError(s)
    BY <1>13, <1>d, NoBuyAtRest DEF DbError, Goto, SetBuy, Resting
  <1> QED BY <1>1, <1>2, <1>3, <1>4, <1>5, <1>6, <1>7, <1>8, <1>9, <1>10, <1>11,
             <1>12, <1>13 DEF Quiet

-----------------------------------------------------------------------------
(* Steps that store an account, a slot or a transaction.                    *)

\* A slot, and what is known of its parts.
LEMMA SlotFacts ==
  ASSUME TypeInv, NEW i \in Slots, SlotExists(i)
  PROVE  /\ slot[i].with \in Fillers /\ slot[i].price \in Nat
         /\ BuyerOf(i) \in Users
  <1>1. slot[i] \in SlotDoc
    BY DEF TypeInv, TypeOK
  <1> QED BY <1>1 DEF SlotDoc, SlotExists, BuyerOf

\* Replacing an account is harmless if it is locked neither to a slot that
\* is still empty nor to a purchase without a transaction, if it is not locked
\* to a slot of its own, and if it pays for at most one unpaid slot.
LEMMA AccountStore ==
  ASSUME TypeInv, DocInv, NEW u \in Users, NEW a,
         account' = [account EXCEPT ![u] = a], a.cas > account[u].cas,
         a.other => a.filling = None,
         slot' = slot, tx' = tx,
         account[u].filling # None => SlotExists(account[u].filling),
         \A j \in Slots : SlotExists(j) /\ ~TxExists(j) => BuyerOf(j) # u,
         \A j \in Slots : a.filling = j /\ SlotExists(j) => BuyerOf(j) # u,
         \/ debits' = debits
         \/ \E i \in Slots : /\ TxExists(i) /\ BuyerOf(i) = u /\ debits[i] = 0
                             /\ debits' = [debits EXCEPT ![i] = debits[i] + 1]
  PROVE  OrderlyStores /\ DocInv'
  <1>1. account \in [Users -> Account] /\ debits \in [Slots -> Nat]
    BY DEF TypeInv, TypeOK
  <1>2. account'[u] = a /\ \A v \in Users \ {u} : account'[v] = account[v]
    BY <1>1
  <1>3. \A i \in Slots : /\ SlotExists(i)' <=> SlotExists(i)
                         /\ TxExists(i)' <=> TxExists(i)
                         /\ BuyerOf(i)' = BuyerOf(i)
    BY DEF SlotExists, TxExists, BuyerOf
  <1>4. \A i \in Slots : SlotExists(i) => BuyerOf(i) \in Users
    BY SlotFacts
  <1>5. \A i \in Slots : \/ debits'[i] = debits[i]
                         \/ TxExists(i) /\ BuyerOf(i) = u /\ debits'[i] = 1
    BY <1>1
  <1>6. OrderlyStores
    BY <1>2, <1>3 DEF OrderlyStores
  <1>7. PaperworkOrder'
    BY <1>2, <1>3, <1>4 DEF DocInv, PaperworkOrder
  <1>8. TransactionMatchesSlot'
    BY <1>3 DEF DocInv, TransactionMatchesSlot
  <1>9. DebitedOnce'
    BY <1>1, <1>3, <1>5 DEF DocInv, DebitedOnce
  <1>10. NeverRelockedToPaidSlot'
    BY <1>2, <1>3, <1>5 DEF DocInv, NeverRelockedToPaidSlot
  <1>11. OneLock'
    BY <1>2 DEF DocInv, OneLock
  <1> QED BY <1>6, <1>7, <1>8, <1>9, <1>10, <1>11 DEF DocInv

\* The transaction of a sold slot may be added, by anybody.
LEMMA TransactionStore ==
  ASSUME TypeInv, DocInv, NEW i \in Slots, SlotExists(i), ~TxExists(i),
         tx' = [tx EXCEPT ![i] = [buyer |-> BuyerOf(i), amount |-> slot[i].price]],
         UNCHANGED <<account, slot, debits>>
  PROVE  OrderlyStores /\ DocInv' /\ TxExists(i)'
  <1>1. tx \in [Slots -> TxDoc]
    BY DEF TypeInv, TypeOK
  <1>2. /\ tx'[i].buyer = BuyerOf(i) /\ tx'[i].amount = slot[i].price
        /\ \A j \in Slots \ {i} : tx'[j] = tx[j]
    BY <1>1
  <1>3. TxExists(i)'
    BY <1>2, SlotFacts DEF TxExists
  <1>4. \A j \in Slots : TxExists(j) => TxExists(j)' /\ tx'[j] = tx[j]
    BY <1>2, <1>3 DEF TxExists
  <1>5. OrderlyStores
    BY <1>4 DEF OrderlyStores, SlotExists
  <1>6. PaperworkOrder'
    BY <1>4 DEF DocInv, PaperworkOrder, SlotExists, BuyerOf
  <1>7. TransactionMatchesSlot'
    BY <1>2 DEF DocInv, TransactionMatchesSlot, SlotExists, BuyerOf, TxExists
  <1>8. DebitedOnce' /\ NeverRelockedToPaidSlot'
    BY <1>4 DEF DocInv, DebitedOnce, NeverRelockedToPaidSlot, SlotExists, BuyerOf
  <1> QED BY <1>3, <1>5, <1>6, <1>7, <1>8 DEF DocInv, OneLock

\* Whoever is locked to a sold slot of his own has not paid for it.
LEMMA LockedIsUnpaid ==
  ASSUME DocInv, NEW u \in Users, NEW i \in Slots,
         SlotExists(i), BuyerOf(i) = u, account[u].filling = i
  PROVE  debits[i] = 0
  BY DEF DocInv, NeverRelockedToPaidSlot

LEMMA LockAccountInv ==
  ASSUME TypeInv, TypeInv', DocInv, NEW s \in Sessions, DriverInv(s), LockAccount(s)
  PROVE  OrderlyStores /\ DocInv' /\ DriverInv(s)'
  <1> DEFINE u == UserOf[s]
             a == [balance |-> buy[s].balance, cas |-> account[u].cas + 1,
                   filling |-> buy[s].slot, with |-> buy[s].with, other |-> FALSE]
             B == [buy[s] EXCEPT !.cas = account[u].cas + 1]
  <1>1. /\ u \in Users /\ account[u].cas \in Nat /\ buy[s].slot \in Slots
        /\ buy[s].with \in Fillers /\ OwnerOf[buy[s].with] = u
        /\ buy[s] \in Buy /\ account \in [Users -> Account]
    BY SessionFacts DEF LockAccount, DriverInv, Resting, TypeInv, TypeOK
  <1>2. pc \in [Sessions -> SessionPcs] /\ buy \in [Sessions -> Buy]
    BY DEF TypeInv, TypeOK
  <1>3. CASE ~CasMatches(u, buy[s].cas)
    <2>1. UNCHANGED <<account, slot, tx, debits>> /\ pc'[s] = "idle" /\ buy'[s] = NoBuy
      BY <1>2, <1>3 DEF LockAccount, Goto, SetBuy, hist
    <2> QED BY <2>1, NoStore, NoBuyAtRest DEF Resting
  <1>4. CASE CasMatches(u, buy[s].cas)
    <2>1. /\ account' = [account EXCEPT ![u] = a] /\ UNCHANGED <<slot, tx, debits>>
          /\ pc'[s] = "addSlot" /\ buy'[s] = B
      BY <1>2, <1>4 DEF LockAccount, SetAccount, Goto, SetBuy, hist
    <2>2. ~profileIsLocked(account[u])
      BY <1>4 DEF DriverInv, Fresh, CasMatches, LockAccount
    <2>3. \A j \in Slots : SlotExists(j) /\ ~TxExists(j) => BuyerOf(j) # u
      BY <2>2 DEF DocInv, PaperworkOrder, profileIsLocked
    <2>4. SlotExists(buy[s].slot) => BuyerOf(buy[s].slot) # u
      BY <1>4 DEF DriverInv, Fresh, CasMatches, LockAccount
    <2>5. B.slot = buy[s].slot /\ B.with = buy[s].with /\ B.cas = account[u].cas + 1
      BY <1>1 DEF Buy
    <2> HIDE DEF B
    <2>6. a.cas > account[u].cas /\ a.cas = account[u].cas + 1 /\ a.filling = buy[s].slot
          /\ a.with = buy[s].with /\ (a.other => a.filling = None)
      BY <1>1
    <2>7. account'[u] = a
      BY <1>1, <2>1
    <2> HIDE DEF a
    <2>8. OrderlyStores /\ DocInv'
      <3>1. account[u].filling # None => SlotExists(account[u].filling)
        BY <2>2 DEF profileIsLocked
      <3>2. \A j \in Slots : a.filling = j /\ SlotExists(j) => BuyerOf(j) # u
        BY <2>4, <2>6
      <3>4. a.other => a.filling = None
        BY <2>6
      <3>3. u \in Users /\ account' = [account EXCEPT ![u] = a] /\ a.cas > account[u].cas
        BY <1>1, <2>1, <2>6
      <3> HIDE DEF u
      <3> QED BY <2>1, <2>3, <3>1, <3>2, <3>3, <3>4, AccountStore
    <2>9. DriverInv(s)'
      BY <1>1, <2>1, <2>5, <2>6, <2>7 DEF DriverInv, Resting, Recovering, HoldsLock
    <2> QED BY <2>8, <2>9
  <1> QED BY <1>3, <1>4

LEMMA AddSlotInv ==
  ASSUME TypeInv, TypeInv', DocInv, NEW s \in Sessions, DriverInv(s), AddSlot(s)
  PROVE  OrderlyStores /\ DocInv' /\ DriverInv(s)'
  <1> DEFINE u == UserOf[s]
             i == buy[s].slot
  <1>1. /\ u \in Users /\ account[u].cas \in Nat /\ buy[s].cas \in Nat
        /\ i \in Slots /\ buy[s].with \in Fillers /\ OwnerOf[buy[s].with] = u
        /\ pc[s] = "addSlot" /\ UNCHANGED <<account, tx, debits>> /\ buy' = buy
    BY SessionFacts DEF AddSlot, DriverInv, Resting, hist
  <1>2. pc \in [Sessions -> SessionPcs] /\ slot \in [Slots -> SlotDoc]
    BY DEF TypeInv, TypeOK
  <1>3. CASE SlotExists(i)
    <2>1. pc'[s] = "beatenCheckSlot" /\ slot' = slot
      BY <1>2, <1>3 DEF AddSlot, Goto
    <2>2. OrderlyStores /\ DocInv'
      BY <1>1, <2>1, NoStore
    <2>3. DriverInv(s)'
      BY <1>1, <2>1 DEF DriverInv, Resting, Recovering, Fresh, HoldsLock
    <2> QED BY <2>2, <2>3
  <1>4. CASE ~SlotExists(i)
    <2>1. /\ slot' = [slot EXCEPT ![i] = [with |-> buy[s].with, price |-> buy[s].price]]
          /\ pc'[s] = "addTx"
      BY <1>2, <1>4 DEF AddSlot, Goto
    <2>2. /\ slot'[i].with = buy[s].with /\ slot'[i].price = buy[s].price
          /\ \A j \in Slots \ {i} : slot'[j] = slot[j]
      BY <1>1, <1>2, <2>1
    <2>3. account[u].filling = i /\ account[u].with = buy[s].with
      BY <1>1, <1>4 DEF DriverInv, HoldsLock
    <2>4. SlotExists(i)' /\ BuyerOf(i)' = u
      BY <1>1, <2>2 DEF SlotExists, BuyerOf
    <2>5. \A j \in Slots \ {i} : /\ SlotExists(j)' <=> SlotExists(j)
                                 /\ BuyerOf(j)' = BuyerOf(j)
      BY <2>2 DEF SlotExists, BuyerOf
    <2>6. ~TxExists(i) /\ debits[i] = 0
      <3>1. ~TxExists(i)
        BY <1>1, <1>4 DEF DocInv, TransactionMatchesSlot
      <3>2. debits[i] \in Nat
        BY <1>1 DEF TypeInv, TypeOK
      <3> QED BY <1>1, <3>1, <3>2 DEF DocInv, DebitedOnce
    <2>7. \A j \in Slots : TxExists(j)' <=> TxExists(j)
      BY <1>1 DEF TxExists
    <2>8. OrderlyStores
      BY <1>1, <1>4, <2>2, <2>3, <2>4, <2>5 DEF OrderlyStores
    <2>9. PaperworkOrder'
      BY <1>1, <2>2, <2>3, <2>4, <2>5, <2>7 DEF DocInv, PaperworkOrder
    <2>10. TransactionMatchesSlot'
      BY <1>1, <2>2, <2>5, <2>6, <2>7 DEF DocInv, TransactionMatchesSlot
    <2>11. DebitedOnce'
      BY <1>1, <2>7 DEF DocInv, DebitedOnce
    <2>12. NeverRelockedToPaidSlot'
      BY <1>1, <2>2, <2>3, <2>4, <2>5, <2>6 DEF DocInv, NeverRelockedToPaidSlot
    <2>13. DriverInv(s)'
      BY <1>1, <2>1, <2>2 DEF DriverInv, Resting, Recovering, Fresh, HoldsLock
    <2> QED BY <1>1, <2>8, <2>9, <2>10, <2>11, <2>12, <2>13 DEF DocInv, OneLock
  <1> QED BY <1>3, <1>4

LEMMA AddTxInv ==
  ASSUME TypeInv, TypeInv', DocInv, NEW s \in Sessions, DriverInv(s), AddTx(s)
  PROVE  OrderlyStores /\ DocInv' /\ DriverInv(s)'
  <1> DEFINE i == buy[s].slot
  <1>1. /\ UserOf[s] \in Users /\ account[UserOf[s]].cas \in Nat /\ buy[s].cas \in Nat
        /\ i \in Slots /\ buy[s].with \in Fillers /\ OwnerOf[buy[s].with] = UserOf[s]
        /\ slot[i].with = buy[s].with /\ slot[i].price = buy[s].price
        /\ pc[s] = "addTx" /\ UNCHANGED <<account, slot, debits>> /\ buy' = buy
    BY SessionFacts DEF AddTx, DriverInv, Resting, hist
  <1>2. SlotExists(i) /\ BuyerOf(i) = UserOf[s]
    BY <1>1 DEF SlotExists, BuyerOf
  <1>3. pc'[s] = "debit"
    BY DEF AddTx, Goto, TypeInv, TypeOK
  <1>4. OrderlyStores /\ DocInv' /\ TxExists(i)'
    <2>1. CASE TxExists(i)
      BY <1>1, <2>1, NoStore DEF AddTx, TxExists
    <2>2. CASE ~TxExists(i)
      BY <1>1, <1>2, <2>2, TransactionStore DEF AddTx, AddTransaction
    <2> QED BY <2>1, <2>2
  <1>5. DriverInv(s)'
    BY <1>1, <1>3, <1>4 DEF DriverInv, Resting, Recovering, Fresh, HoldsLock
  <1> QED BY <1>4, <1>5

-----------------------------------------------------------------------------
(* Steps that unlock an account.                                            *)

\* Debitting the slot an account is locked to, by its driver or a recoverer.
LEMMA DebitStore ==
  ASSUME TypeInv, DocInv, NEW u \in Users, NEW i \in Slots, NEW balance,
         SlotExists(i), BuyerOf(i) = u, TxExists(i), account[u].filling = i,
         DebitAndUnlock(u, i, balance, slot[i].price), slot' = slot, tx' = tx
  PROVE  OrderlyStores /\ DocInv'
  <1> DEFINE a == [balance |-> balance - slot[i].price, cas |-> account[u].cas + 1,
                   filling |-> None, with |-> NoFiller, other |-> FALSE]
  <1>1. /\ account' = [account EXCEPT ![u] = a]
        /\ debits' = [debits EXCEPT ![i] = debits[i] + 1]
    BY DEF DebitAndUnlock, SetAccount
  <1>2. account[u].cas \in Nat
    BY DEF TypeInv, TypeOK, Account
  <1>3. a.cas > account[u].cas /\ a.filling = None /\ (a.other => a.filling = None)
    BY <1>2
  <1> HIDE DEF a
  <1>4. debits[i] = 0
    BY LockedIsUnpaid
  <1>5. account[u].filling # None => SlotExists(account[u].filling)
    OBVIOUS
  <1>6. \A j \in Slots : SlotExists(j) /\ ~TxExists(j) => BuyerOf(j) # u
    BY DEF DocInv, PaperworkOrder
  <1>7. \A j \in Slots : a.filling = j /\ SlotExists(j) => BuyerOf(j) # u
    BY <1>3
  <1>8. \E j \in Slots : /\ TxExists(j) /\ BuyerOf(j) = u /\ debits[j] = 0
                         /\ debits' = [debits EXCEPT ![j] = debits[j] + 1]
    BY <1>1, <1>4
  <1> QED BY <1>1, <1>3, <1>5, <1>6, <1>7, <1>8, AccountStore

LEMMA DebitInv ==
  ASSUME TypeInv, TypeInv', DocInv, NEW s \in Sessions, DriverInv(s), Debit(s)
  PROVE  OrderlyStores /\ DocInv' /\ DriverInv(s)'
  <1> DEFINE u == UserOf[s]
             i == buy[s].slot
  <1>1. /\ u \in Users /\ account[u].cas \in Nat /\ buy[s].cas \in Nat
        /\ i \in Slots /\ buy[s].with \in Fillers /\ OwnerOf[buy[s].with] = u
        /\ slot[i].with = buy[s].with /\ slot[i].price = buy[s].price
        /\ TxExists(i) /\ UNCHANGED <<slot, tx>> /\ buy' = buy
        /\ pc[s] = "debit" /\ buy[s].cas <= account[u].cas
    BY SessionFacts DEF Debit, DriverInv, Resting
  <1>2. SlotExists(i) /\ BuyerOf(i) = u
    BY <1>1 DEF SlotExists, BuyerOf
  <1>3. OrderlyStores /\ DocInv'
    <2>1. CASE CasMatches(u, buy[s].cas)
      <3>1. account[u].filling = i
        BY <1>1, <2>1 DEF DriverInv, Fresh, CasMatches, HoldsLock
      <3>2. DebitAndUnlock(u, i, buy[s].balance, slot[i].price)
        BY <1>1, <2>1 DEF Debit
      <3> QED BY <1>1, <1>2, <3>1, <3>2, DebitStore
    <2>2. CASE ~CasMatches(u, buy[s].cas)
      BY <1>1, <2>2, NoStore DEF Debit
    <2> QED BY <2>1, <2>2
  <1>4. pc'[s] = "debited"
    BY DEF Debit, Goto, TypeInv, TypeOK
  <1>5. buy'[s].cas <= account'[u].cas
    <2>1. account'[u].cas \in Nat
      BY <1>1 DEF TypeInv, TypeOK, Account
    <2>2. account'[u] = account[u] \/ account'[u].cas > account[u].cas
      BY <1>1, <1>3 DEF OrderlyStores
    <2> QED BY <1>1, <2>1, <2>2
  <1> QED BY <1>3, <1>4, <1>5, AtRest

LEMMA UnlockWithoutDebittingInv ==
  ASSUME TypeInv, TypeInv', DocInv, NEW s \in Sessions, DriverInv(s),
         UnlockWithoutDebitting(s)
  PROVE  OrderlyStores /\ DocInv' /\ DriverInv(s)'
  <1> DEFINE u == UserOf[s]
             a == [balance |-> buy[s].balance, cas |-> account[u].cas + 1,
                   filling |-> None, with |-> NoFiller, other |-> FALSE]
  <1>1. /\ u \in Users /\ account[u].cas \in Nat /\ buy[s].slot \in Slots
        /\ SlotExists(buy[s].slot) /\ slot[buy[s].slot].with # buy[s].with
        /\ UNCHANGED <<slot, tx, debits>>
    BY SessionFacts DEF UnlockWithoutDebitting, DriverInv, Resting, hist
  <1>2. pc'[s] \in Resting /\ buy'[s] = NoBuy
    BY DEF UnlockWithoutDebitting, Goto, SetBuy, Resting, TypeInv, TypeOK
  <1>3. DriverInv(s)'
    BY <1>2, NoBuyAtRest
  <1>4. CASE CasMatches(u, buy[s].cas)
    <2>1. account' = [account EXCEPT ![u] = a]
      BY <1>4 DEF UnlockWithoutDebitting, SetAccount
    <2>2. account[u].filling = buy[s].slot /\ account[u].with = buy[s].with
      BY <1>4 DEF UnlockWithoutDebitting, DriverInv, Fresh, CasMatches, HoldsLock, Recovering
    <2>3. a.cas > account[u].cas /\ a.filling = None /\ (a.other => a.filling = None)
      BY <1>1
    <2> HIDE DEF a
    <2>4. account[u].filling # None => SlotExists(account[u].filling)
      BY <1>1, <2>2
    <2>5. \A j \in Slots : SlotExists(j) /\ ~TxExists(j) => BuyerOf(j) # u
      BY <1>1, <2>2 DEF DocInv, PaperworkOrder
    <2>6. \A j \in Slots : a.filling = j /\ SlotExists(j) => BuyerOf(j) # u
      BY <2>3
    <2>7. u \in Users
      BY <1>1
    <2> HIDE DEF u
    <2>8. OrderlyStores /\ DocInv'
      BY <1>1, <2>1, <2>3, <2>4, <2>5, <2>6, <2>7, AccountStore
    <2> QED BY <1>3, <2>8
  <1>5. CASE ~CasMatches(u, buy[s].cas)
    BY <1>1, <1>3, <1>5, NoStore DEF UnlockWithoutDebitting
  <1> QED BY <1>4, <1>5

\* Withdrawals and credits lock an unlocked account, and unlock their own.
LEMMA OthersInv ==
  ASSUME TypeInv, TypeInv', DocInv, NEW u \in Users, OtherLock(u) \/ OtherUnlock(u) \/ AddFunds(u)
  PROVE  OrderlyStores /\ DocInv'
  <1>1. account[u].cas \in Nat /\ account[u].filling = None
    BY DEF OtherLock, OtherUnlock, AddFunds, profileIsLocked, TypeInv, TypeOK, Account, DocInv, OneLock
  <1>2. \E b, k : SetAccount(u, b, None, NoFiller, k)
    BY DEF OtherLock, OtherUnlock, AddFunds
  <1>3. UNCHANGED <<slot, tx, debits>>
    BY DEF OtherLock, OtherUnlock, AddFunds, hist
  <1>4. PICK b, k : SetAccount(u, b, None, NoFiller, k)
    BY <1>2
  <1> DEFINE a == [balance |-> b, cas |-> account[u].cas + 1, filling |-> None,
                   with |-> NoFiller, other |-> k]
  <1>5. account' = [account EXCEPT ![u] = a]
    BY <1>4 DEF SetAccount
  <1>6. a.cas > account[u].cas /\ a.filling = None /\ (a.other => a.filling = None)
    BY <1>1
  <1> HIDE DEF a
  <1>7. \A j \in Slots : SlotExists(j) /\ ~TxExists(j) => BuyerOf(j) # u
    BY <1>1 DEF DocInv, PaperworkOrder
  <1>8. \A j \in Slots : a.filling = j /\ SlotExists(j) => BuyerOf(j) # u
    BY <1>6
  <1> QED BY <1>1, <1>3, <1>5, <1>6, <1>7, <1>8, AccountStore

-----------------------------------------------------------------------------
(* Steps of a recoverer.                                                    *)

LEMMA RecAtRest ==
  ASSUME TypeInv, TypeInv', NEW r \in Recoverers,
         rec'[r].pc \in {"sleep", "down"}, ~rec'[r].txExists
  PROVE  RecInv(r)'
  BY DEF RecInv

LEMMA RecOnlyItsOwn ==
  ASSUME TypeInv, NEW r \in Recoverers, Recoverer(r) \/ RecExit(r)
  PROVE  /\ \A q \in Recoverers \ {r} : rec'[q] = rec[q]
         /\ UNCHANGED sess
  <1>1. rec \in [Recoverers -> Rec]
    BY DEF TypeInv, TypeOK
  <1> USE <1>1 DEF SetRec
  <1>2. CASE AuditCampaign(r) BY <1>2 DEF AuditCampaign
  <1>3. CASE CheckNextSlot(r) BY <1>3 DEF CheckNextSlot
  <1>4. CASE RecheckCampaign(r) BY <1>4 DEF RecheckCampaign
  <1>5. CASE GetTx(r) BY <1>5 DEF GetTx
  <1>6. CASE GetAccount(r) BY <1>6 DEF GetAccount, LeftToDo
  <1>7. CASE RecheckTx(r) BY <1>7 DEF RecheckTx
  <1>8. CASE RecAddTx(r) BY <1>8 DEF RecAddTx
  <1>9. CASE RecDebit(r) BY <1>9 DEF RecDebit
  <1>10. CASE RecUpdateCampaign(r) BY <1>10 DEF RecUpdateCampaign
  <1>11. CASE RecStart(r) BY <1>11 DEF RecStart
  <1>12. CASE RecExit(r) BY <1>12 DEF RecExit
  <1> QED BY <1>2, <1>3, <1>4, <1>5, <1>6, <1>7, <1>8, <1>9, <1>10, <1>11, <1>12
          DEF Recoverer

LEMMA RecovererInv ==
  ASSUME TypeInv, TypeInv', DocInv, NEW r \in Recoverers, RecInv(r),
         Recoverer(r) \/ RecExit(r)
  PROVE  OrderlyStores /\ DocInv' /\ RecInv(r)'
  <1> DEFINE n == rec[r].n
             u == BuyerOf(n)
  <1>1. rec[r] \in Rec /\ rec \in [Recoverers -> Rec]
    BY RecTypes
  <1>2. ASSUME UNCHANGED <<account, slot, tx, debits>>
        PROVE  OrderlyStores /\ DocInv'
    BY <1>2, NoStore
  <1>3. \A p \in {"recheckCampaign", "updateCampaign", "debit", "totalSystemFailure"} :
          /\ At(r, p).pc = p /\ At(r, p).n = n
          /\ At(r, p).txExists = rec[r].txExists /\ At(r, p).cas = rec[r].cas
    BY <1>1 DEF At, Rec
  <1>4. Asleep.pc = "sleep" /\ ~Asleep.txExists /\ Parked("down").pc = "down"
        /\ ~Parked("down").txExists
    BY DEF Asleep, Parked
  <1>5. ASSUME rec' = [rec EXCEPT ![r] = Asleep]
        PROVE  RecInv(r)'
    BY <1>1, <1>4, <1>5, RecAtRest
  <1>6. CASE AuditCampaign(r)
    <2> DEFINE R == [rec[r] EXCEPT !.pc = "getSlot", !.n = campaign.last + 1]
    <2>1. UNCHANGED <<account, slot, tx, debits>> /\ rec'[r] = R
      BY <1>1, <1>6 DEF AuditCampaign, SetRec, db, hist
    <2>2. R.pc = "getSlot" /\ R.txExists = rec[r].txExists
      BY <1>1 DEF Rec
    <2>3. ~rec[r].txExists
      BY <1>6 DEF AuditCampaign, RecInv
    <2> HIDE DEF R
    <2> QED BY <2>1, <2>2, <2>3, <1>2 DEF RecInv
  <1>7. CASE CheckNextSlot(r)
    <2>1. UNCHANGED <<account, slot, tx, debits>>
      BY <1>7 DEF CheckNextSlot, db, hist
    <2>2. \/ rec' = [rec EXCEPT ![r] = Asleep]
          \/ rec' = [rec EXCEPT ![r] = At(r, "recheckCampaign")]
      BY <1>7 DEF CheckNextSlot, SetRec
    <2>3. ASSUME rec'[r] = At(r, "recheckCampaign")
          PROVE  RecInv(r)'
      BY <2>1, <2>3, <1>3 DEF RecInv, TxExists
    <2> QED BY <2>1, <2>2, <2>3, <1>1, <1>2, <1>5
  <1>8. CASE RecheckCampaign(r)
    <2> DEFINE R == [rec[r] EXCEPT !.pc = "getTx", !.campaignCas = campaign.cas]
    <2>1. UNCHANGED <<account, slot, tx, debits>>
      BY <1>8 DEF RecheckCampaign, db, hist
    <2>2. rec' = [rec EXCEPT ![r] = Asleep] \/ rec' = [rec EXCEPT ![r] = R]
      BY <1>8 DEF RecheckCampaign, SetRec
    <2>3. R.pc = "getTx" /\ R.n = n /\ R.txExists = rec[r].txExists
      BY <1>1 DEF Rec
    <2> HIDE DEF R
    <2>4. ASSUME rec'[r] = R
          PROVE  RecInv(r)'
      BY <2>1, <2>3, <2>4 DEF RecInv, TxExists
    <2> QED BY <2>1, <2>2, <2>4, <1>1, <1>2, <1>5
  <1>9. CASE GetTx(r)
    <2> DEFINE R == [rec[r] EXCEPT !.pc = "getAccount", !.txExists = TxExists(n)]
    <2>1. UNCHANGED <<account, slot, tx, debits>> /\ rec'[r] = R
      BY <1>1, <1>9 DEF GetTx, SetRec, db, hist
    <2>2. R.pc = "getAccount" /\ R.n = n /\ R.txExists = TxExists(n)
      BY <1>1 DEF Rec
    <2>3. n \in Slots
      BY <1>9, BuyerIsUser DEF GetTx
    <2> HIDE DEF R
    <2> QED BY <2>1, <2>2, <2>3, <1>2 DEF RecInv, TxExists
  <1>10. CASE GetAccount(r)
    <2>0. PICK i \in Slots : i = n
      BY <1>10, BuyerIsUser DEF GetAccount, LeftToDo
    <2> DEFINE a == account[BuyerOf(i)]
               Found(p) == [rec[r] EXCEPT !.pc = p, !.balance = a.balance, !.cas = a.cas]
    <2>1. UNCHANGED <<account, slot, tx, debits>> /\ (\A j \in Slots : BuyerOf(j)' = BuyerOf(j))
      BY <1>10 DEF GetAccount, LeftToDo, db, hist, BuyerOf
    <2>2. SlotExists(i) /\ BuyerOf(i) \in Users /\ a.cas \in Nat
      BY <2>0, <1>10, BuyerIsUser DEF GetAccount, LeftToDo
    <2>3. \/ rec' = [rec EXCEPT ![r] = Asleep]
          \/ rec' = [rec EXCEPT ![r] = Found("debit")] /\ a.filling = i /\ rec[r].txExists
          \/ rec' = [rec EXCEPT ![r] = Found("addTx")] /\ a.filling = i
          \/ rec' = [rec EXCEPT ![r] = Found("updateCampaign")]
          \/ rec' = [rec EXCEPT ![r] = Found("recheckTx")] /\ a.filling # i
      BY <2>0, <1>10 DEF GetAccount, LeftToDo, SetRec
    <2>4. \A p \in {"debit", "addTx", "updateCampaign", "recheckTx"} :
            /\ Found(p).pc = p /\ Found(p).n = i /\ Found(p).txExists = rec[r].txExists
            /\ Found(p).cas = a.cas
      BY <2>0, <1>1 DEF Rec
    <2>5. a.filling # i => TxExists(i)
      BY <2>2 DEF DocInv, PaperworkOrder
    <2>6. rec[r].txExists => TxExists(i)
      BY <2>0 DEF RecInv
    <2> HIDE DEF Found
    <2>7. ASSUME \/ rec'[r] = Found("debit") /\ a.filling = i /\ rec[r].txExists
                 \/ rec'[r] = Found("addTx") /\ a.filling = i
                 \/ rec'[r] = Found("updateCampaign")
                 \/ rec'[r] = Found("recheckTx") /\ a.filling # i
          PROVE  RecInv(r)'
      BY <2>1, <2>2, <2>4, <2>5, <2>6, <2>7 DEF RecInv, TxExists
    <2> QED BY <2>1, <2>3, <2>7, <1>1, <1>2, <1>5
  <1>11. CASE RecheckTx(r)
    <2>1. UNCHANGED <<account, slot, tx, debits>>
      BY <1>11 DEF RecheckTx, db, hist
    <2>2. rec' = [rec EXCEPT ![r] = Asleep]
      BY <1>11 DEF RecheckTx, RecInv, SetRec
    <2> QED BY <2>1, <2>2, <1>2, <1>5
  <1>12. CASE RecAddTx(r)
    <2>1. PICK i \in Slots : i = n
      BY <1>12, BuyerIsUser DEF RecAddTx
    <2>2. /\ SlotExists(i) /\ UNCHANGED <<account, slot, debits>>
          /\ BuyerOf(i)' = BuyerOf(i)
      BY <1>12, <2>1, BuyerIsUser DEF RecAddTx, hist, BuyerOf
    <2>3. CASE TxExists(i)
      BY <1>12, <2>1, <2>2, <2>3, <1>2, <1>5 DEF RecAddTx, SetRec
    <2>4. CASE ~TxExists(i)
      <3>1. AddTransaction(i, BuyerOf(i), slot[i].price)
        BY <1>12, <2>1, <2>4 DEF RecAddTx
      <3>2. OrderlyStores /\ DocInv' /\ TxExists(i)'
        BY <2>2, <2>4, <3>1, TransactionStore DEF AddTransaction
      <3>3. rec'[r] = At(r, "debit")
        BY <1>1, <1>12, <2>1, <2>4 DEF RecAddTx, SetRec
      <3>4. rec'[r].pc = "debit" /\ rec'[r].n = i /\ rec'[r].cas = rec[r].cas
        BY <1>3, <2>1, <3>3
      <3>5. /\ rec[r].cas <= account[BuyerOf(i)].cas
            /\ rec[r].cas = account[BuyerOf(i)].cas => account[BuyerOf(i)].filling = i
        BY <1>12, <2>1 DEF RecInv, RecAddTx
      <3>6. RecInv(r)'
        BY <2>2, <3>2, <3>4, <3>5 DEF RecInv
      <3> QED BY <3>2, <3>6
    <2> QED BY <2>3, <2>4
  <1>13. CASE RecDebit(r)
    <2>1. n \in Slots /\ SlotExists(n) /\ u \in Users /\ UNCHANGED <<slot, tx>>
      BY <1>13, BuyerIsUser DEF RecDebit
    <2>2. TxExists(n)
      BY <1>13 DEF RecDebit, RecInv
    <2>3. CASE CasMatches(u, rec[r].cas)
      <3>1. account[u].filling = n
        BY <1>13, <2>3 DEF RecDebit, RecInv, CasMatches
      <3>2. DebitAndUnlock(u, n, rec[r].balance, slot[n].price)
        BY <1>13, <2>3 DEF RecDebit
      <3>3. OrderlyStores /\ DocInv'
        BY <2>1, <2>2, <3>1, <3>2, DebitStore
      <3>4. rec'[r] = At(r, "updateCampaign")
        BY <1>1, <1>13, <2>3 DEF RecDebit, SetRec
      <3>5. RecInv(r)'
        BY <1>3, <2>1, <2>2, <3>4 DEF RecInv, TxExists
      <3> QED BY <3>3, <3>5
    <2>4. CASE ~CasMatches(u, rec[r].cas)
      BY <1>13, <2>4, <1>2, <1>5 DEF RecDebit, SetRec
    <2> QED BY <2>3, <2>4
  <1>14. CASE RecUpdateCampaign(r)
    BY <1>14, <1>2, <1>5 DEF RecUpdateCampaign, SetRec, hist
  <1>15. CASE RecStart(r)
    BY <1>15, <1>2, <1>5 DEF RecStart, SetRec, db, hist
  <1>16. CASE RecExit(r)
    <2>1. UNCHANGED <<account, slot, tx, debits>> /\ rec'[r] = Parked("down")
      BY <1>1, <1>16 DEF RecExit, SetRec, db, hist
    <2> QED BY <2>1, <1>2, <1>4, RecAtRest
  <1> QED BY <1>6, <1>7, <1>8, <1>9, <1>10, <1>11, <1>12, <1>13, <1>14, <1>15, <1>16
          DEF Recoverer

-----------------------------------------------------------------------------
(* The inductive invariant and what follows from it.                        *)

LEMMA InitIInv == Init => IInv
  <1> SUFFICES ASSUME Init PROVE IInv
    OBVIOUS
  <1>1. TypeInv
    BY InitTypeInv
  <1>2. \A i \in Slots : ~SlotExists(i) /\ ~TxExists(i) /\ debits[i] = 0
    BY DEF Init, SlotExists, TxExists
  <1>3. \A u \in Users : ~account[u].other /\ account[u].filling = None
    BY DEF Init
  <1>4. DocInv
    BY <1>2, <1>3 DEF DocInv, PaperworkOrder, TransactionMatchesSlot, DebitedOnce,
       NeverRelockedToPaidSlot, OneLock
  <1>5. \A s \in Sessions : DriverInv(s)
    BY DEF Init, DriverInv, NoBuy, Resting, Recovering
  <1>6. \A r \in Recoverers : RecInv(r)
    BY DEF Init, RecInv, Asleep, Parked
  <1> QED BY <1>1, <1>4, <1>5, <1>6 DEF IInv

LEMMA NextIInv == IInv /\ [Next]_vars => IInv' /\ (OrderlyStores \/ UNCHANGED vars)
  <1> SUFFICES ASSUME IInv, [Next]_vars
               PROVE  IInv' /\ (OrderlyStores \/ UNCHANGED vars)
    OBVIOUS
  <1>1. TypeInv /\ TypeInv' /\ DocInv
    BY NextTypeInv DEF IInv
  <1>2. /\ \A s \in Sessions : DriverInv(s)
        /\ \A r \in Recoverers : RecInv(r)
    BY DEF IInv
  <1>3. CASE UNCHANGED vars
    <2>1. UNCHANGED <<account, slot, tx, debits, pc, buy, rec>>
      BY <1>3 DEF vars
    <2>2. OrderlyStores /\ DocInv'
      BY <2>1, <1>1, NoStore
    <2> QED BY <1>1, <1>2, <2>1, <2>2, DriverFrame, RecFrame DEF IInv
  <1>4. ASSUME NEW s \in Sessions, Driver(s) \/ Crash(s) \/ DbError(s)
        PROVE  IInv' /\ OrderlyStores
    <2>1. DriverInv(s)
      BY <1>2
    <2>2. OrderlyStores /\ DocInv' /\ DriverInv(s)'
      <3>1. CASE Quiet(s)
        BY <1>1, <2>1, <3>1, QuietStoresNothing, NoStore, QuietDriverInv
      <3>2. CASE LockAccount(s) BY <1>1, <2>1, <3>2, LockAccountInv
      <3>3. CASE AddSlot(s) BY <1>1, <2>1, <3>3, AddSlotInv
      <3>4. CASE AddTx(s) BY <1>1, <2>1, <3>4, AddTxInv
      <3>5. CASE Debit(s) BY <1>1, <2>1, <3>5, DebitInv
      <3>6. CASE UnlockWithoutDebitting(s) BY <1>1, <2>1, <3>6, UnlockWithoutDebittingInv
      <3> QED BY <1>4, <3>1, <3>2, <3>3, <3>4, <3>5, <3>6 DEF Driver, Quiet
    <2>3. /\ \A t \in Sessions \ {s} : pc'[t] = pc[t] /\ buy'[t] = buy[t]
          /\ rec' = rec
      BY <1>1, <1>4, OnlyItsOwn
    <2>4. \A t \in Sessions \ {s} : DriverInv(t)'
      BY <1>1, <1>2, <2>2, <2>3, DriverFrame
    <2>5. \A r \in Recoverers : RecInv(r)'
      BY <1>1, <1>2, <2>2, <2>3, RecFrame
    <2> QED BY <1>1, <2>2, <2>4, <2>5 DEF IInv
  <1>5. ASSUME NEW r \in Recoverers, Recoverer(r) \/ RecExit(r)
        PROVE  IInv' /\ OrderlyStores
    <2>1. OrderlyStores /\ DocInv' /\ RecInv(r)'
      BY <1>1, <1>2, <1>5, RecovererInv
    <2>2. (\A q \in Recoverers \ {r} : rec'[q] = rec[q]) /\ pc' = pc /\ buy' = buy
      BY <1>1, <1>5, RecOnlyItsOwn DEF sess
    <2>3. \A s \in Sessions : DriverInv(s)'
      BY <1>1, <1>2, <2>1, <2>2, DriverFrame
    <2>4. \A q \in Recoverers \ {r} : RecInv(q)'
      BY <1>1, <1>2, <2>1, <2>2, RecFrame
    <2> QED BY <1>1, <2>1, <2>3, <2>4 DEF IInv
  <1>6. ASSUME NEW u \in Users, OtherLock(u) \/ OtherUnlock(u) \/ AddFunds(u)
        PROVE  IInv' /\ OrderlyStores
    <2>1. OrderlyStores /\ DocInv'
      BY <1>1, <1>6, OthersInv
    <2>2. rec' = rec /\ pc' = pc /\ buy' = buy
      BY <1>6 DEF OtherLock, OtherUnlock, AddFunds, sess
    <2> QED BY <1>1, <1>2, <2>1, <2>2, DriverFrame, RecFrame DEF IInv
  <1> QED BY <1>3, <1>4, <1>5, <1>6 DEF Next

\* Every state the documents, sessions and recoverers reach satisfies IInv.
THEOREM Invariant == Spec => []IInv
  BY InitIInv, NextIInv, PTL DEF Spec

\* Whatever fails, a sold slot without a transaction keeps its buyer locked
\* to it, so that some recoverer can still charge for it.
THEOREM PaperworkIsOrdered == Spec => []PaperworkOrder
  <1>1. IInv => PaperworkOrder
    BY DEF IInv, DocInv
  <1> QED BY <1>1, Invariant, PTL

\* No recoverer ever finds an unlocked buyer without a transaction.
THEOREM RecoverersNeverGiveUp == Spec => []NoTotalSystemFailure
  <1>1. IInv => NoTotalSystemFailure
    BY DEF IInv, RecInv, NoTotalSystemFailure
  <1> QED BY <1>1, Invariant, PTL

\* Drivers and recoverers charge the same buyer the same price.
THEOREM TransactionsMatch == Spec => []TransactionMatchesSlot
  <1>1. IInv => TransactionMatchesSlot
    BY DEF IInv, DocInv
  <1> QED BY <1>1, Invariant, PTL

\* However many drivers and recoverers race, a slot is debited once at most.
THEOREM NeverDebitedTwice == Spec => []DebitedOnce
  <1>1. IInv => DebitedOnce
    BY DEF IInv, DocInv
  <1> QED BY <1>1, Invariant, PTL

\* No tab locks its account to a slot the user has already paid for.
THEOREM NeverRelocked == Spec => []NeverRelockedToPaidSlot
  <1>1. IInv => NeverRelockedToPaidSlot
    BY DEF IInv, DocInv
  <1> QED BY <1>1, Invariant, PTL

\* No step of anybody takes back what others may have acted on.
THEOREM OrderlyStoresAlways == Spec => StoresStayOrderly
  <1>1. IInv /\ [Next]_vars => [OrderlyStores]_vars
    BY NextIInv
  <1> QED BY <1>1, Invariant, PTL DEF Spec, StoresStayOrderly

=============================================================================
