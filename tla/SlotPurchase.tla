---------------------------- MODULE SlotPurchase ----------------------------
(***************************************************************************)
(* The purchase of the ad slots of one campaign of Anonymous Bitcoin       *)
(* Computing 2.  Documents live in Couchbase: user accounts, slots,        *)
(* transactions and the campaign.  A Wt session ("the driver") buys a slot *)
(* in five stores, each of which may be its last:                          *)
(*                                                                         *)
(*   lock the account (CAS) -> add the slot (ADD) -> add the transaction   *)
(*   (ADD) -> debit and unlock the account (CAS) -> publish the slot on    *)
(*   the campaign (CAS)                                                    *)
(*                                                                         *)
(* while other sessions, of the same user too, do the same, and the        *)
(* recoverers (Abc2PessimisticStateMonitorAndRecoverer) finish what a      *)
(* driver left behind.  A step of a session is one database request        *)
(* together with the handler of its answer; "debited" is the one place     *)
(* where the answer is a step of its own, because its handler reads the    *)
(* campaign snapshot that a subscription update may just have replaced.    *)
(***************************************************************************)
EXTENDS Integers, FiniteSets, FiniteSetsExt

CONSTANTS
  Users,         \* account holders
  Sessions,      \* Wt sessions; a user may have several (tabs, machines)
  Recoverers,    \* instances of the monitor and recoverer
  Fillers,       \* slot filler documents (advertisements)
  NoFiller,      \* stands for an absent filler field or slot document
  NoUser,        \* stands for an absent transaction document
  UserOf,        \* UserOf[s]: who logs in on session s
  OwnerOf,       \* OwnerOf[f]: the user name inside filler document f
  MaxSlot,       \* bound: slots 0..MaxSlot
  MinPrice,      \* the campaign's minimum price, in units
  StartBalance,  \* StartBalance[u]: what u registered and deposited
  MaxFaults,     \* bound: database errors, crashes and exits
  MaxOthers,     \* bound: account changes by withdrawals, credits, deposits
  OtherAmounts   \* what a withdrawal or credit adds to a balance

None  == -1                     \* "n" or missing slot index in the JSON
Slots == 0..MaxSlot

ASSUME ConstantsAssumption ==
  /\ NoFiller \notin Fillers /\ NoUser \notin Users
  /\ UserOf \in [Sessions -> Users]
  /\ OwnerOf \in [Fillers -> Users]
  /\ MaxSlot \in Nat /\ MinPrice \in Nat
  /\ MaxFaults \in Nat /\ MaxOthers \in Nat
  /\ StartBalance \in [Users -> Nat]
  /\ OtherAmounts \subseteq Int

VARIABLES
  account,    \* user account documents with their CAS
  slot,       \* slot documents
  tx,         \* transaction documents
  campaign,   \* the campaign's last sold slot index, with its CAS
  pc,         \* per session: the request outstanding, or "idle"/"loggedOut"
  view,       \* per session: the campaign snapshot the page was filled from
  page,       \* per session: the state of the two buy buttons
  buy,        \* per session: the purchase or login recovery under way
  rec,        \* per recoverer: program counter and locals
  faults,     \* how many faults may still happen
  others,     \* how many foreign changes of accounts may still begin
  debits,     \* history: how often slot i was debited from its buyer
  ledger      \* history: deposits less withdrawals of each user

db    == <<account, slot, tx, campaign>>
sess  == <<pc, view, page, buy>>
hist  == <<debits, ledger>>
vars  == <<account, slot, tx, campaign, pc, view, page, buy, rec, faults,
           others, debits, ledger>>

Account  == [balance: Int, cas: Nat, filling: Slots \cup {None},
             with: Fillers \cup {NoFiller}, other: BOOLEAN]
SlotDoc  == [with: Fillers \cup {NoFiller}, price: Nat]
TxDoc    == [buyer: Users \cup {NoUser}, amount: Nat]
Snapshot == [last: Slots \cup {None}, cas: Nat]
\* step2 "clicked" is m_BuyInProgress with the step 2 button still there;
\* the flag means nothing once the button is gone, step 1 resets it.
Page     == [recorded: Slots \cup {None}, step2: {"none", "shown", "clicked"}]
Buy      == [slot: Slots \cup {None}, with: Fillers \cup {NoFiller},
             price: Nat, balance: Int, cas: Nat, campaignCas: Nat]
Rec      == [pc: {"sleep", "getSlot", "recheckCampaign", "getTx",
                  "getAccount", "recheckTx", "addTx", "debit",
                  "updateCampaign", "down", "totalSystemFailure"},
             n: Slots \cup {None}, campaignCas: Nat, txExists: BOOLEAN,
             balance: Int, cas: Nat]

SessionPcs == {"loggedOut", "loginCheckSlot", "loginUnlock", "idle",
               "getFillers", "getAccount", "getSlot", "lockAccount",
               "addSlot", "addTx", "debit", "debited", "updateCampaign",
               "beatenCheckSlot", "beatenUnlock"}
Resting == {"loggedOut", "idle"}

NoBuy  == [slot |-> None, with |-> NoFiller, price |-> 0, balance |-> 0,
           cas |-> 0, campaignCas |-> 0]
NoPage == [recorded |-> None, step2 |-> "none"]
NoView == [last |-> None, cas |-> 0]
Parked(p) == [pc |-> p, n |-> None, campaignCas |-> 0, txExists |-> FALSE,
              balance |-> 0, cas |-> 0]
Asleep == Parked("sleep")

\* Documents are never deleted; an absent one has no content.
SlotExists(i) == slot[i].with # NoFiller
TxExists(i)   == tx[i].buyer # NoUser
BuyerOf(i)    == OwnerOf[slot[i].with]

\* Abc2CouchbaseAndJsonKeyDefines::profileIsLocked: a lock of any kind.
profileIsLocked(a) == a.filling # None \/ a.other

Init ==
  /\ account = [u \in Users |->
       [balance |-> StartBalance[u], cas |-> 1, filling |-> None,
        with |-> NoFiller, other |-> FALSE]]
  /\ slot = [i \in Slots |-> [with |-> NoFiller, price |-> 0]]
  /\ tx = [i \in Slots |-> [buyer |-> NoUser, amount |-> 0]]
  /\ campaign = [last |-> None, cas |-> 1]
  /\ pc = [s \in Sessions |-> "loggedOut"]
  /\ view = [s \in Sessions |-> NoView]
  /\ page = [s \in Sessions |-> NoPage]
  /\ buy = [s \in Sessions |-> NoBuy]
  /\ rec = [r \in Recoverers |-> Asleep]
  /\ faults = MaxFaults
  /\ others = MaxOthers
  /\ debits = [i \in Slots |-> 0]
  /\ ledger = StartBalance

-----------------------------------------------------------------------------
(* Stores.  LCB_ADD fails when the document exists, LCB_SET with a CAS when *)
(* the document changed since that CAS was read; both fail with EEXISTS.    *)

\* (Operators marked "broken" are never used by the specification: each is
\* the next definition with a plausible mistake, and some property fails
\* when it takes that definition's place.)

\* Broken: the account is stored by LCB_SET without a CAS.
StoreRegardless(u, c) == TRUE

CasMatches(u, c) == account[u].cas = c

\* Broken: the two fields of the lock are swapped.
SwapLockFields(u, balance, filling, with, other) ==
  account' = [account EXCEPT ![u] =
    [balance |-> balance, cas |-> @.cas + 1, filling |-> with,
     with |-> filling, other |-> other]]

SetAccount(u, balance, filling, with, other) ==
  account' = [account EXCEPT ![u] =
    [balance |-> balance, cas |-> @.cas + 1, filling |-> filling,
     with |-> with, other |-> other]]

\* The account unlocked and charged for slot i, for driver and recoverer.
DebitAndUnlock(u, i, balance, price) ==
  /\ SetAccount(u, balance - price, None, NoFiller, FALSE)
  /\ debits' = [debits EXCEPT ![i] = @ + 1]

\* Broken: the minimum price is charged instead of the price of the slot.
AddTransactionAtMinPrice(i, u, price) ==
  tx' = [tx EXCEPT ![i] = [buyer |-> u, amount |-> MinPrice]]

\* createTransactionDoc; the state "uncreditted" is left out.
AddTransaction(i, u, price) ==
  tx' = [tx EXCEPT ![i] = [buyer |-> u, amount |-> price]]

\* Broken: the slot to sell next is written as the last slot sold.
SetCampaignToNext(i) == campaign' = [last |-> i + 1, cas |-> campaign.cas + 1]

\* The whole campaign document is written back with a new last slot.
SetCampaign(i) == campaign' = [last |-> i, cas |-> campaign.cas + 1]

-----------------------------------------------------------------------------
(* Sessions: page, login, logout, crash.                                    *)

Goto(s, p)     == pc' = [pc EXCEPT ![s] = p]
SetPage(s, x)  == page' = [page EXCEPT ![s] = x]
SetBuy(s, x)   == buy' = [buy EXCEPT ![s] = x]
RolledBack(s)  == [page[s] EXCEPT !.step2 = "none"]

\* A populate or update of the subscribed campaign document arrives: the
\* page takes over its CAS and last slot, whatever the session is doing,
\* and an open step 2 is rolled back.  (A page read before login is as good
\* as one read just after it.)
CampaignUpdate(s) ==
  /\ pc[s] # "loggedOut"
  /\ view[s] # campaign
  /\ view' = [view EXCEPT ![s] = campaign]
  /\ SetPage(s, IF pc[s] = "idle" THEN NoPage ELSE RolledBack(s))
  /\ UNCHANGED <<db, pc, buy, rec, faults, others, hist>>

\* Login gets the account; one that is locked to a slot must be recovered
\* first.  Other locks do not keep anybody from logging in.
Login(s) ==
  LET a == account[UserOf[s]] IN
  /\ pc[s] = "loggedOut"
  /\ IF a.filling = None
       THEN Goto(s, "idle") /\ UNCHANGED buy
       ELSE /\ Goto(s, "loginCheckSlot")
            /\ SetBuy(s, [NoBuy EXCEPT !.slot = a.filling, !.with = a.with,
                                       !.balance = a.balance, !.cas = a.cas])
  /\ UNCHANGED <<db, view, page, rec, faults, others, hist>>

Logout(s) ==
  /\ pc[s] = "idle"
  /\ Goto(s, "loggedOut")
  /\ SetPage(s, NoPage)
  /\ UNCHANGED <<db, view, buy, rec, faults, others, hist>>

\* The Wt node dies; the user comes back with a fresh session.
Crash(s) ==
  /\ faults > 0 /\ faults' = faults - 1
  /\ pc[s] # "loggedOut"
  /\ Goto(s, "loggedOut")
  /\ view' = [view EXCEPT ![s] = NoView]
  /\ SetPage(s, NoPage)
  /\ SetBuy(s, NoBuy)
  /\ UNCHANGED <<db, rec, others, hist>>

\* The outstanding request ends in a database error and the handler stops.
\* That the store was applied all the same is the error of the next request.
\* The slot check and the two recovery requests leave the page as it is.
DbError(s) ==
  /\ faults > 0 /\ faults' = faults - 1
  /\ pc[s] \notin Resting \cup {"debited"}
  /\ Goto(s, IF pc[s] \in {"loginCheckSlot", "loginUnlock"}
               THEN "loggedOut" ELSE "idle")
  /\ SetPage(s, IF pc[s] \in {"getFillers", "getSlot", "loginCheckSlot",
                              "loginUnlock", "beatenCheckSlot", "beatenUnlock"}
                  THEN [page[s] EXCEPT !.recorded = None] ELSE NoPage)
  /\ SetBuy(s, NoBuy)
  /\ UNCHANGED <<db, view, rec, others, hist>>

-----------------------------------------------------------------------------
(* Sessions: buying.                                                        *)

\* The price falls from twice the last price to the minimum; a campaign
\* without a purchase sells at the minimum.
PricesNow(s) ==
  IF view[s].last = None
    THEN {MinPrice}
    ELSE MinPrice .. (2 * slot[view[s].last].price)

\* Bound: the page offers no slot beyond MaxSlot.
BuySlotStep1(s) ==
  /\ pc[s] = "idle" /\ page[s].step2 = "none"
  /\ view[s].cas # 0 /\ view[s].last < MaxSlot
  /\ SetPage(s, [page[s] EXCEPT !.recorded = view[s].last])
  /\ Goto(s, "getFillers")
  /\ UNCHANGED <<db, view, buy, rec, faults, others, hist>>

BuySlotPopulateStep2(s) ==
  /\ pc[s] = "getFillers"
  /\ Goto(s, "idle")
  /\ SetPage(s, IF page[s].recorded = view[s].last
                  THEN [page[s] EXCEPT !.step2 = "shown"] ELSE NoPage)
  /\ UNCHANGED <<db, view, buy, rec, faults, others, hist>>

BuySlotStep2(s) ==
  /\ pc[s] = "idle" /\ page[s].step2 = "shown"
  /\ \E f \in Fillers :
       /\ OwnerOf[f] = UserOf[s]
       /\ SetBuy(s, [buy[s] EXCEPT !.with = f])
  /\ SetPage(s, [page[s] EXCEPT !.step2 = "clicked"])
  /\ Goto(s, "getAccount")
  /\ UNCHANGED <<db, view, rec, faults, others, hist>>

\* verifyUserHasSufficientFundsAndThatTheirAccountIsntAlreadyLocked...
VerifyAccount(s) ==
  LET a == account[UserOf[s]] IN
  /\ pc[s] = "getAccount"
  /\ IF page[s].recorded = view[s].last /\ ~profileIsLocked(a)
       THEN /\ SetBuy(s, [buy[s] EXCEPT
                 !.slot = IF view[s].last = None THEN 0
                          ELSE page[s].recorded + 1,
                 !.balance = a.balance, !.cas = a.cas])
            /\ Goto(s, "getSlot")
       ELSE Goto(s, "idle") /\ SetBuy(s, NoBuy)
  /\ SetPage(s, IF page[s].recorded = view[s].last
                  THEN [page[s] EXCEPT !.recorded = None] ELSE NoPage)
  /\ UNCHANGED <<db, view, rec, faults, others, hist>>

\* Broken: it is left to the later ADD to find that the slot exists.
FundsSuffice(s, p) == buy[s].balance >= p

\* Broken: the balance is compared with no price.
SlotIsFree(s, p) == ~SlotExists(buy[s].slot)

MayLock(s, p) == ~SlotExists(buy[s].slot) /\ buy[s].balance >= p

EnsureSlotDoesntExist(s) ==
  /\ pc[s] = "getSlot"
  /\ \E p \in PricesNow(s) :
       IF MayLock(s, p)
         THEN /\ SetBuy(s, [buy[s] EXCEPT !.price = p])
              /\ Goto(s, "lockAccount")
         ELSE Goto(s, "idle") /\ SetBuy(s, NoBuy)
  /\ UNCHANGED <<db, view, page, rec, faults, others, hist>>

LockAccount(s) ==
  LET u == UserOf[s] IN
  /\ pc[s] = "lockAccount"
  /\ IF CasMatches(u, buy[s].cas)
       THEN /\ SetAccount(u, buy[s].balance, buy[s].slot, buy[s].with, FALSE)
            /\ SetBuy(s, [buy[s] EXCEPT !.cas = account[u].cas + 1])
            /\ Goto(s, "addSlot")
            /\ UNCHANGED page
       ELSE /\ Goto(s, "idle") /\ SetBuy(s, NoBuy) /\ SetPage(s, RolledBack(s))
            /\ UNCHANGED account
  /\ UNCHANGED <<slot, tx, campaign, view, rec, faults, others, hist>>

AddSlot(s) ==
  LET i == buy[s].slot IN
  /\ pc[s] = "addSlot"
  /\ IF ~SlotExists(i)
       THEN /\ slot' = [slot EXCEPT ![i] =
                 [with |-> buy[s].with, price |-> buy[s].price]]
            /\ Goto(s, "addTx")
            /\ UNCHANGED page
       ELSE /\ Goto(s, "beatenCheckSlot") /\ SetPage(s, RolledBack(s))
            /\ UNCHANGED slot
  /\ UNCHANGED <<account, tx, campaign, view, buy, rec, faults, others, hist>>

\* An existing transaction is accepted: a recoverer was faster.
AddTx(s) ==
  LET i == buy[s].slot IN
  /\ pc[s] = "addTx"
  /\ IF ~TxExists(i)
       THEN AddTransaction(i, UserOf[s], buy[s].price) ELSE UNCHANGED tx
  /\ Goto(s, "debit")
  /\ UNCHANGED <<account, slot, campaign, view, page, buy, rec, faults,
                 others, hist>>

\* The debit starts from the account as it was before the lock, and a CAS
\* that no longer matches is accepted: a recoverer was faster.
Debit(s) ==
  LET u == UserOf[s] IN
  /\ pc[s] = "debit"
  /\ IF CasMatches(u, buy[s].cas)
       THEN DebitAndUnlock(u, buy[s].slot, buy[s].balance, buy[s].price)
       ELSE UNCHANGED <<account, debits>>
  /\ Goto(s, "debited")
  /\ UNCHANGED <<slot, tx, campaign, view, page, buy, rec, faults, others,
                 ledger>>

\* The answer to the debit arrives; the campaign's CAS is taken now, from
\* whatever campaign document the page was last updated with.
DoneUnlocking(s) ==
  /\ pc[s] = "debited"
  /\ SetBuy(s, [buy[s] EXCEPT !.campaignCas = view[s].cas])
  /\ Goto(s, "updateCampaign")
  /\ UNCHANGED <<db, view, page, rec, faults, others, hist>>

UpdateCampaign(s) ==
  /\ pc[s] = "updateCampaign"
  /\ IF campaign.cas = buy[s].campaignCas
       THEN SetCampaign(buy[s].slot) ELSE UNCHANGED campaign
  /\ Goto(s, "idle")
  /\ SetBuy(s, NoBuy)
  /\ UNCHANGED <<account, slot, tx, view, page, rec, faults, others, hist>>

\* Broken: a slot that nobody has filled yet is as good as one lost.
SlotIsNotOurs(s) == slot[buy[s].slot].with # buy[s].with

\* Broken: a slot that exists is taken for lost, whoever filled it.
SlotIsFilled(s) == SlotExists(buy[s].slot)

\* The slot is filled, with another ad: somebody else bought it.
SlotIsTheirs(s) ==
  SlotExists(buy[s].slot) /\ slot[buy[s].slot].with # buy[s].with

\* Beaten to the slot, or logging in with an account locked to a slot: only
\* when the slot is lost may the lock go without a debit.
ContinueRecovering(s) ==
  /\ pc[s] \in {"loginCheckSlot", "beatenCheckSlot"}
  /\ IF SlotIsTheirs(s)
       THEN /\ Goto(s, IF pc[s] = "loginCheckSlot" THEN "loginUnlock"
                       ELSE "beatenUnlock")
            /\ UNCHANGED buy
       ELSE /\ Goto(s, IF pc[s] = "loginCheckSlot" THEN "loggedOut"
                       ELSE "idle")
            /\ SetBuy(s, NoBuy)
  /\ UNCHANGED <<db, view, page, rec, faults, others, hist>>

UnlockWithoutDebitting(s) ==
  LET u == UserOf[s] IN
  /\ pc[s] \in {"loginUnlock", "beatenUnlock"}
  /\ IF CasMatches(u, buy[s].cas)
       THEN SetAccount(u, buy[s].balance, None, NoFiller, FALSE)
       ELSE UNCHANGED account
  /\ Goto(s, IF pc[s] = "loginUnlock" /\ ~CasMatches(u, buy[s].cas)
               THEN "loggedOut" ELSE "idle")
  /\ SetBuy(s, NoBuy)
  /\ UNCHANGED <<slot, tx, campaign, view, page, rec, faults, others, hist>>

-----------------------------------------------------------------------------
(* Recoverers: one audit per "sleep", each step one request.  The slot      *)
(* document is kept from "getSlot" on; it never changes, so it is read in   *)
(* place.  The buyer is the transaction's, or else the slot filler's.       *)

SetRec(r, x) == rec' = [rec EXCEPT ![r] = x]
At(r, p)     == [rec[r] EXCEPT !.pc = p]

AuditCampaign(r) ==
  /\ rec[r].pc = "sleep"
  /\ campaign.last < MaxSlot
  /\ SetRec(r, [rec[r] EXCEPT !.pc = "getSlot", !.n = campaign.last + 1])
  /\ UNCHANGED <<db, sess, faults, others, hist>>

CheckNextSlot(r) ==
  /\ rec[r].pc = "getSlot"
  /\ IF SlotExists(rec[r].n) THEN SetRec(r, At(r, "recheckCampaign"))
                             ELSE SetRec(r, Asleep)
  /\ UNCHANGED <<db, sess, faults, others, hist>>

\* After 100 ms more the driver may have published the slot itself.
RecheckCampaign(r) ==
  /\ rec[r].pc = "recheckCampaign"
  /\ IF campaign.last >= rec[r].n
       THEN SetRec(r, Asleep)
       ELSE SetRec(r, [rec[r] EXCEPT !.pc = "getTx", !.campaignCas = campaign.cas])
  /\ UNCHANGED <<db, sess, faults, others, hist>>

GetTx(r) ==
  /\ rec[r].pc = "getTx"
  /\ SetRec(r, [rec[r] EXCEPT !.pc = "getAccount", !.txExists = TxExists(rec[r].n)])
  /\ UNCHANGED <<db, sess, faults, others, hist>>

\* Broken: every locked account is left alone.
SkipTheLocked(a, n, txExists) ==
  CASE profileIsLocked(a) -> "sleep"
    [] OTHER -> IF txExists THEN "updateCampaign" ELSE "recheckTx"

\* Broken: it is left to the driver to publish what it was debited for.
LeaveTheUnlocked(a, n, txExists) ==
  CASE a.filling = n -> IF txExists THEN "debit" ELSE "addTx"
    [] OTHER -> "sleep"

\* What account a says is left to do for slot n.  One locked to something
\* else is left alone, and so is the campaign: "continue".
LeftToDo(a, n, txExists) ==
  CASE a.filling = n -> IF txExists THEN "debit" ELSE "addTx"
    [] a.filling # n /\ profileIsLocked(a) -> "sleep"
    [] OTHER -> IF txExists THEN "updateCampaign" ELSE "recheckTx"

GetAccount(r) ==
  LET a == account[BuyerOf(rec[r].n)]
      next == LeftToDo(a, rec[r].n, rec[r].txExists)
  IN
  /\ rec[r].pc = "getAccount"
  /\ IF next = "sleep"
       THEN SetRec(r, Asleep)
       ELSE SetRec(r, [rec[r] EXCEPT !.pc = next, !.balance = a.balance, !.cas = a.cas])
  /\ UNCHANGED <<db, sess, faults, others, hist>>

\* Broken: the transaction is not looked for a second time.
NoSecondLook(r) ==
  /\ rec[r].pc = "recheckTx"
  /\ SetRec(r, At(r, "totalSystemFailure"))
  /\ UNCHANGED <<db, sess, faults, others, hist>>

\* An unlocked buyer without a transaction: somebody must have just added
\* it, or it is the "TOTAL SYSTEM FAILURE" of the code.
RecheckTx(r) ==
  /\ rec[r].pc = "recheckTx"
  /\ IF TxExists(rec[r].n) THEN SetRec(r, Asleep) ELSE SetRec(r, At(r, "totalSystemFailure"))
  /\ UNCHANGED <<db, sess, faults, others, hist>>

RecAddTx(r) ==
  LET n == rec[r].n IN
  /\ rec[r].pc = "addTx"
  /\ IF TxExists(n)
       THEN SetRec(r, Asleep) /\ UNCHANGED tx
       ELSE AddTransaction(n, BuyerOf(n), slot[n].price) /\ SetRec(r, At(r, "debit"))
  /\ UNCHANGED <<account, slot, campaign, sess, faults, others, hist>>

RecDebit(r) ==
  LET n == rec[r].n IN
  /\ rec[r].pc = "debit"
  /\ IF CasMatches(BuyerOf(n), rec[r].cas)
       THEN /\ DebitAndUnlock(BuyerOf(n), n, rec[r].balance, slot[n].price)
            /\ SetRec(r, At(r, "updateCampaign"))
       ELSE SetRec(r, Asleep) /\ UNCHANGED <<account, debits>>
  /\ UNCHANGED <<slot, tx, campaign, sess, faults, others, ledger>>

RecUpdateCampaign(r) ==
  /\ rec[r].pc = "updateCampaign"
  /\ IF campaign.cas = rec[r].campaignCas
       THEN SetCampaign(rec[r].n) ELSE UNCHANGED campaign
  /\ SetRec(r, Asleep)
  /\ UNCHANGED <<account, slot, tx, sess, faults, others, hist>>

\* A crash, or the exit on any database error that is not expected.
RecExit(r) ==
  /\ faults > 0 /\ faults' = faults - 1
  /\ rec[r].pc \notin {"down", "totalSystemFailure"}
  /\ SetRec(r, Parked("down"))
  /\ UNCHANGED <<db, sess, others, hist>>

RecStart(r) ==
  /\ rec[r].pc = "down"
  /\ SetRec(r, Asleep)
  /\ UNCHANGED <<db, sess, faults, others, hist>>

-----------------------------------------------------------------------------
(* The other writers of accounts.  Abc2WithdrawRequestProcessor and         *)
(* Abc2TransactionCreditor lock an unlocked account by CAS and write back,  *)
(* under the CAS of that lock, a balance they may have changed.  The add    *)
(* funds tab stores an unlocked account under the CAS it was read with: its *)
(* bitcoin key changes, or a payment is credited.                           *)

OtherLock(u) ==
  LET a == account[u] IN
  /\ others > 0 /\ others' = others - 1
  /\ ~profileIsLocked(a)
  /\ SetAccount(u, a.balance, None, NoFiller, TRUE)
  /\ UNCHANGED <<slot, tx, campaign, sess, rec, faults, hist>>

OtherUnlock(u) ==
  LET a == account[u] IN
  /\ a.other
  /\ \E d \in OtherAmounts :
       /\ a.balance + d >= 0
       /\ SetAccount(u, a.balance + d, None, NoFiller, FALSE)
       /\ ledger' = [ledger EXCEPT ![u] = @ + d]
  /\ UNCHANGED <<slot, tx, campaign, sess, rec, faults, others, debits>>

AddFunds(u) ==
  LET a == account[u] IN
  /\ others > 0 /\ others' = others - 1
  /\ ~profileIsLocked(a)
  /\ \E d \in {d \in OtherAmounts : d >= 0} :
       /\ SetAccount(u, a.balance + d, None, NoFiller, FALSE)
       /\ ledger' = [ledger EXCEPT ![u] = @ + d]
  /\ UNCHANGED <<slot, tx, campaign, sess, rec, faults, debits>>

-----------------------------------------------------------------------------
Driver(s) ==
  \/ CampaignUpdate(s) \/ Login(s) \/ Logout(s)
  \/ BuySlotStep1(s) \/ BuySlotPopulateStep2(s) \/ BuySlotStep2(s)
  \/ VerifyAccount(s) \/ EnsureSlotDoesntExist(s) \/ LockAccount(s)
  \/ AddSlot(s) \/ AddTx(s) \/ Debit(s) \/ DoneUnlocking(s)
  \/ UpdateCampaign(s) \/ ContinueRecovering(s) \/ UnlockWithoutDebitting(s)

Recoverer(r) ==
  \/ AuditCampaign(r) \/ CheckNextSlot(r) \/ RecheckCampaign(r) \/ GetTx(r)
  \/ GetAccount(r) \/ RecheckTx(r) \/ RecAddTx(r) \/ RecDebit(r)
  \/ RecUpdateCampaign(r) \/ RecStart(r)

Next ==
  \/ \E s \in Sessions : Driver(s) \/ Crash(s) \/ DbError(s)
  \/ \E r \in Recoverers : Recoverer(r) \/ RecExit(r)
  \/ \E u \in Users : OtherLock(u) \/ OtherUnlock(u) \/ AddFunds(u)

Spec == Init /\ [][Next]_vars

-----------------------------------------------------------------------------
TypeOK ==
  /\ account \in [Users -> Account]
  /\ slot \in [Slots -> SlotDoc]
  /\ tx \in [Slots -> TxDoc]
  /\ campaign \in Snapshot
  /\ pc \in [Sessions -> SessionPcs]
  /\ view \in [Sessions -> Snapshot]
  /\ page \in [Sessions -> Page]
  /\ buy \in [Sessions -> Buy]
  /\ rec \in [Recoverers -> Rec]
  /\ faults \in 0..MaxFaults
  /\ others \in 0..MaxOthers
  /\ debits \in [Slots -> Nat]
  /\ ledger \in [Users -> Int]

\* A filled slot without its transaction keeps its buyer's account locked to
\* exactly that purchase: whatever fails, somebody can still charge for it.
\* About the order lock, slot, transaction, unlock in driver and recoverer.
PaperworkOrder ==
  \A i \in Slots : SlotExists(i) /\ ~TxExists(i) =>
    /\ account[BuyerOf(i)].filling = i
    /\ account[BuyerOf(i)].with = slot[i].with

\* The recoverer never finds what it calls a total system failure: an
\* account unlocked although no transaction was ever added for its slot.
NoTotalSystemFailure ==
  \A r \in Recoverers : rec[r].pc # "totalSystemFailure"

\* Whoever adds the transaction, it charges the buyer of the slot the price
\* the slot was sold at.  Drivers take both from the session, recoverers
\* from the slot and filler documents.
TransactionMatchesSlot ==
  \A i \in Slots : TxExists(i) =>
    /\ SlotExists(i)
    /\ tx[i].buyer = BuyerOf(i) /\ tx[i].amount = slot[i].price

\* No interleaving of the driver and any number of recoverers, crashes
\* included, debits a slot twice or debits one that has no transaction.
DebitedOnce ==
  \A i \in Slots : debits[i] <= 1 /\ (debits[i] = 1 => TxExists(i))

\* An account is never locked again to a slot its owner has already bought
\* and paid for ("if it does and we bought it state would be fucked"): the
\* reason to look for the slot between reading the CAS and locking with it.
NeverRelockedToPaidSlot ==
  \A u \in Users, i \in Slots :
    account[u].filling = i /\ SlotExists(i) /\ BuyerOf(i) = u =>
      debits[i] = 0 /\ account[u].with = slot[i].with

\* What user u has been debited for the slots he bought.
Bought(u) == {i \in Slots : SlotExists(i) /\ BuyerOf(i) = u}
Spent(u)  == MapThenSumSet(LAMBDA i : debits[i] * slot[i].price, Bought(u))

\* A balance is the deposits less the withdrawals less the price of every
\* slot debited: no debit or foreign change is lost to a stale write.
BalancesReconcile == \A u \in Users : account[u].balance = ledger[u] - Spent(u)

\* While a sold slot is not debited its price stays available on the
\* buyer's account, so the debit never overdraws it.
PriceReserved ==
  /\ \A u \in Users : account[u].balance >= 0
  /\ \A i \in Slots : SlotExists(i) /\ debits[i] = 0 =>
       account[BuyerOf(i)].balance >= slot[i].price

\* Slots are sold without gaps, and neither the campaign document nor any
\* page ever names a last slot that was not sold.
NoGaps ==
  /\ \A i \in Slots : i > 0 /\ SlotExists(i) => SlotExists(i - 1)
  /\ \A v \in {campaign} \cup {view[s] : s \in Sessions} :
       v.last # None => SlotExists(v.last)

\* A store never undoes what others may rely on.  Slots and transactions are
\* never overwritten, every change of an account shows in its CAS, a slot is
\* added only under a lock of its buyer, and a lock towards a slot nobody has
\* filled is never released: its driver may still be about to add the slot.
OrderlyStores ==
  /\ \A u \in Users : account'[u] = account[u] \/ account'[u].cas > account[u].cas
  /\ \A i \in Slots :
       /\ SlotExists(i) => slot'[i] = slot[i]
       /\ TxExists(i) => tx'[i] = tx[i]
       /\ ~SlotExists(i) /\ SlotExists(i)' => account[BuyerOf(i)'].filling = i
  /\ \A u \in Users : account[u].filling # None /\ ~SlotExists(account[u].filling) =>
       /\ account'[u].filling = account[u].filling
       /\ account'[u].with = account[u].with

StoresStayOrderly == [][OrderlyStores]_vars

-----------------------------------------------------------------------------
\* A slot counts as settled when its transaction exists and its buyer's
\* account is no longer locked to it, which is what the recoverer goes by.
soldTo    == [i \in Slots |-> IF SlotExists(i) THEN BuyerOf(i) ELSE NoUser]
soldFor   == [i \in Slots |-> slot[i].price]
isSettled == [i \in Slots |-> TxExists(i) /\ account[BuyerOf(i)].filling # i]
balanceOf == [u \in Users |-> account[u].balance]

Sale == INSTANCE SlotSale WITH
  owner <- soldTo, price <- soldFor, settled <- isSettled, balance <- balanceOf

\* All that sessions, recoverers, crashes and foreign locks do to the
\* documents is an orderly sale: one buyer and one price per slot, sold in
\* order and within the balance, settled once, nothing else owed meanwhile.
ImplementsSale == Sale!Spec

-----------------------------------------------------------------------------
\* A recoverer that is not stopped for good keeps taking its steps: its loop
\* has no exit but an error, after which it is started again.  The other
\* lockers give their locks back.  Nothing is assumed of sessions.
RecovererFairness == \A r \in Recoverers : WF_vars(Recoverer(r))
OtherLockFairness == \A u \in Users : WF_vars(OtherUnlock(u))

FairSpec == Spec /\ RecovererFairness /\ OtherLockFairness

\* A foreign lock may stay for good, as a withdrawal's does when its
\* processor dies between the lock and the payment.
StuckLockSpec == Spec /\ RecovererFairness

\* A slot that is sold is eventually debited, even if its driver dies right
\* after adding it: the recoverers finish the paperwork.
SoldIsDebited == \A i \in Slots : SlotExists(i) ~> debits[i] = 1

\* ... and is eventually published as sold, so that the next can be bought.
SoldIsPublished == \A i \in Slots : SlotExists(i) ~> campaign.last >= i

\* The campaign document is never brought back in time, as the CAS of its
\* update is there to ensure.
NeverBackInTime == [][campaign'.last >= campaign.last]_vars

=============================================================================
