# A TLA+ model of Anonymous Bitcoin Computing 2

The repository is a monorepo of one author's C++ programs. Its largest piece of
logic of its own, and the only one in which several programs work on the same
data at the same time, is **Anonymous Bitcoin Computing 2** (ABC2): a web
application on which users sell and buy advertising slots, a Couchbase cluster
that holds all documents, and a handful of stand-alone programs that work on the
same documents. Couchbase has no transactions across documents: everything that
must happen together is a sequence of single-document stores, protected by CAS
and ADD, and made good by somebody else if its author dies half way. That is the
subject of these modules.

Paths below are relative to `src/Solutions/`; `GUI` stands for
`Anonymous Bitcoin Computing 2/src/frontend/anonymousbitcoincomputingwtgui.cpp`.

## 1. Inventory

| Component | State | Operations | Talks to |
|---|---|---|---|
| **Wt front end** (`GUI`), one object per browser tab | the logged-in user, the last campaign document and its CAS, the state of the two buy buttons, the purchase under way | register, login and recovery of a locked account, logout, show a campaign, buy step 1, buy step 2 and its chain of eight requests | the backend, by message queues; other tabs only through documents |
| **Couchbase backend** (`…/backend/`), threads of the web application | pending requests with their back-off timers, one cache item per subscribed document | get, store (SET, CAS-SET, ADD), get and subscribe, unsubscribe | Couchbase (asynchronous), sessions (posts) |
| **Monitor and recoverer** (`Abc2PessimisticStateMonitorAndRecoverer`), several instances | none between two audits | look whether the slot after the last published one exists; finish its paperwork | Couchbase (synchronous) |
| **Withdraw request processor** (`Abc2WithdrawRequestProcessor`) with an operator | the users it found locked, rolling balances, the request being paid | walk the requests, lock the profile, send the payment to bitcoind, deduct or revert | Couchbase, bitcoind, operator |
| **Transaction creditor** (`…/tools/Abc2TransactionCreditor`) | the sellers it found locked | credit a transaction to the seller of the slot | Couchbase |
| **Account tabs** (`…/frontend/accounttabs/`) | per tab | add funds (claim a bitcoin key from a page, credit a payment), schedule a withdrawal, upload an ad, create a campaign | backend |
| **Today's ad slot** (`gettodaysadslotserver…`, `Abc2getTodaysAdSlot`) | cache of the slot on display | crawl the sold slots to the one on display | Couchbase, HTTP clients |
| **Initialiser, key page adder** | none | first documents, and later new pages of the huge bitcoin key list, by hand | Couchbase |

The remaining programs of the repository (the first version of ABC2, a video
site, backup and file tools, code generators, desktop prototypes, wrappers of
sockets) share no state with ABC2; `PROJECT.json` lists them as not modelled.

### Documents

| Document | Contents that matter | Written by |
|---|---|---|
| user account | balance; lock: the slot it is trying to fill and the ad it would fill it with, or a withdrawal, or a transaction being credited, or none | front end, recoverer, withdraw processor, creditor, add funds tab |
| slot *n* of a campaign | the ad it is filled with, its price; never changed once added | front end |
| transaction of slot *n* | buyer, amount; its state goes from uncredited to credited | front end, recoverer, creditor (state only) |
| campaign | the last slot sold, with its price and times | front end, recoverer |
| current page of a key set | its newest page, or that the page after it is being filled, and from which page of the huge list | add funds tab |
| page of a key set | keys, each perhaps claimed under the uuid of a request | add funds tab |
| page of the huge list, and its current page | ranges of keys, each perhaps claimed for a page of a key set | page adder, add funds tab |

### How a slot is bought

1. lock the account towards slot *n* (CAS), 2. add slot *n* (ADD), 3. add the
transaction (ADD), 4. debit and unlock the account (CAS), 5. write *n* into the
campaign (CAS). Steps 3 to 5 *accept failure*: a failed ADD or CAS means that a
recoverer has been faster. A purchase beaten at step 2 reads the slot again and
gives the lock back only if the slot holds somebody else's ad.

### What is hard

* Any of the five stores may be the last one of its session, or may have been
  applied although the session saw an error. Nothing but the documents tells
  those who come later how far it got.
* A slow driver, another tab of its user logging in, and any number of recoverers
  may all be finishing the same purchase, each with its own copy of the account.
* Every debit writes the *whole* account back as it was read earlier.
* Updates of the subscribed campaign document reach a session in the middle of a
  purchase and replace what the purchase will later store.
* The account is also locked and changed by programs that know nothing of slots.
* Keys are claimed, and pages filled, by tabs that may die at any request; others
  must find what was claimed and not claim again.
* The backend's polls, its queues and the sessions' posts overtake one another: a page
  may leave, log in or return while a request of its past is still on its way.

### What would make it wrong

A slot charged twice, or not at all; charged to the wrong user or at the wrong
price; a lost deposit; an overdrawn account; a slot lost or sold twice; an
unlocked account whose slot was never paid (what the recoverer calls "TOTAL SYSTEM
FAILURE"); a lock given back while its slot is still on its way; a sold slot that
stays unpublished and so blocks the sale of the next; a bitcoin key given to two
users, or credited twice; a page that is never told of a change, or is shown an older
campaign after a newer one; a node that cannot be stopped. `PROJECT.json` lists under
"hazards" where in the code each of these could come from.

## 2. Modules

| Module | What it is |
|---|---|
| `SlotPurchase` | the core: documents, sessions, recoverers, the other writers of accounts; properties |
| `SlotSale` | the abstract specification: slots are sold in order to buyers that can pay and owe nothing else, each settled once |
| `SlotPurchaseProofs` | the inductive invariant of its documents and locks, and theorems |
| `SlotSaleProofs` | the inductive invariant of its money, and theorems: prices, gaps, balances, the refinement |
| `WithdrawProcessor` | paying withdrawal requests: profiles, requests, overlapping runs of the processor, bitcoind, the operator |
| `WithdrawProcessorProofs` | its inductive invariant and theorems |
| `WithdrawLedgerProofs` | its balances and what becomes of a payment: two more inductive invariants and their theorems |
| `SumTheorems` | sums over finite sets of integers, for the balances of both |
| `BitcoinKeys` | the add funds tab: keys claimed from pages, pages filled from the huge list, payments credited |
| `BitcoinKeysProofs` | its inductive invariants and theorems: pages and ranges, keys and credits, requests |
| `GetAndSubscribe` | the backend: cache items, polls, timers, requests and their counts, and the sessions as it sees them |
| `GetAndSubscribeProofs` | its inductive invariants and theorems: requests and their counts, subscriptions |
| `GetAndSubscribeVersions` | versions on their way to the pages: the inductive invariant and theorems |
| `MCSlotPurchase`, `MCWithdrawProcessor`, `MCBitcoinKeys`, `MCGetAndSubscribe` | instances for TLC |

### SlotPurchase and the code

`account`, `slot`, `tx`, `campaign` are the documents. A CAS is a counter that
changes with each store. Slot keys are numbers, absent fields are `None`,
`NoFiller`, `NoUser`. `account[u].other` is any lock that is not towards a slot.
The history variables `debits` and `ledger` serve the properties only.

A **session** has `pc`, the request it waits for; `view`, what it took from the
campaign document; `page`, the recorded index (*"SlotIndexImmediatelyAfterBuyStep1wasPressed"*)
and the step 2 button with `m_BuyInProgress`; `buy`, the members of the purchase.
While a request is outstanding rendering is deferred, so the user cannot click:
clicks need `pc = "idle"`. One action is one request *and* the handler of its
answer. Joining the two is sound because a handler touches only its session's
members, with one exception: a subscription update (`CampaignUpdate`) may come
between an answer to the debit and the store of the campaign, which takes its CAS
from the last update. So `DoneUnlocking` is a step of its own. A request that
was applied but whose answer is lost is a store followed by `Crash`, or by
`DbError` of the next request.

| Action | Code in `GUI` |
|---|---|
| `Login`, `ContinueRecovering`, `UnlockWithoutDebitting` | login and, for an account locked to a slot, its recovery (2542-2625, 1394-1482, 1742-1795); the last two also serve a purchase beaten to its slot |
| `CampaignUpdate` | `finishShowingAdvertisingBuyAdSpace…` (686-871), with the roll-back of step 2 |
| `BuySlotStep1`, `BuySlotPopulateStep2`, `BuySlotStep2` | the two buttons (897-1111, 1214-1292) |
| `VerifyAccount`, `EnsureSlotDoesntExist`, `LockAccount`, `AddSlot`, `AddTx`, `Debit`, `DoneUnlocking`, `UpdateCampaign` | the chain of requests, 1112-1213 and 1302-1741 |
| `Crash`, `DbError` | the process dies; the `dbError` branch of any handler |

A **recoverer** goes through the requests of an audit: `AuditCampaign`,
`CheckNextSlot`, `RecheckCampaign`, `GetTx`, `GetAccount`, then, depending on the
account (`LeftToDo`), `RecAddTx`, `RecDebit`, `RecUpdateCampaign` or `RecheckTx`.
Every early `continue` goes back to sleep, every `return 1` is `RecExit`, and
`RecStart` starts it again. At line 138 a database error is printed and not
returned on: the code goes on with the campaign document in place of the slot,
which has neither ad nor price, so it stores nothing and ends in an exception.
That is `RecExit` as well.

The **other writers** of accounts are `OtherLock` and `OtherUnlock` (withdraw
processor and creditor lock an unlocked account by CAS, and later write a changed
balance back under the CAS of that lock) and `AddFunds` (a store of an unlocked
account under the CAS it was read with).

Abstractions. The price lies anywhere between the minimum and twice the last
price, where the falling price of the code lies; expiry times and the dates of a
slot are left out. A filler names its owner (`OwnerOf`). The state field of a
transaction, which the creditor rewrites, is left out: "never overwritten" speaks
of buyer and amount. There is one campaign; a session does not change campaigns.
Versions for browsers without JavaScript fetch the campaign once more instead of
subscribing, which the model has as an update that comes at that moment.

### WithdrawProcessor and the code

Paths in this part are those of `Abc2WithdrawRequestProcessor/src/abc2withdrawrequestprocessor.cpp`.
`profile` and `request` are the documents with their CAS; a profile's lock is
towards a request, or `"other"` (a purchase, the creditor), or `"none"`. `paid[r]`
counts what bitcoind has really sent for `r`, whatever it answered. `proc[i]` holds the
members of a run of the program. Each request to Couchbase or bitcoind is an action:

| Action | Code |
|---|---|
| `processWithdrawalRequests`, `processNextWithdrawalRequest`, `proceedOntoExecutionIteration`, `Quit` | the view, the two iterations over it and the operator's agreement in between (454-512, 123-145) |
| `GetRequest`, `GetProfile` (`FoundProcessing`, `FoundProcessedBut`, `FoundUnprocessed`) | what is read and what follows from it (146-308) |
| `SetInsufficientFunds`, `LockProfile`, `SetProcessing`, `SendToAddress` | 271-358 |
| `Reply`, `ReplyLost`, `SetProcessedBut`, `DeductAndUnlock`, `SetDone` | 561-616, 414-453 |
| `AskOperator`, `Revert`, `SetBitcoindReturnedError`, `UnlockWithoutDebitting` | the four choices after a failed payment (513-560, 371-413) |
| `Crash` | a crash, or any database error: the run ends |
| `Schedule`, `OtherLock`, `OtherUnlock`, `AddFunds` | the withdraw tab; everything else that changes a profile |

The view is stale (`stale=ok`): it is any set of requests ever made. Its order is left
open. Keys name their user (`UserOf`); the amounts are in satoshis, the fee is
exact where the code rounds a double up. `m_CurrentUserProfileInLockedWithdrawingStateCas`
is not initialised and not set on one path (231-242): `lockCas` starts as 0, with
which a store is unconditional, or as `Garbage`, which no document has. A run that
finds a request in state *processing* leaves it alone, as the code does; it is the
operator who must look into it.

Most properties carry `~resumed`: they speak of executions in which no run has yet met
a request found paid and not done. From that point on the inverted test of line 223
(section 5) breaks them. `PaidOncePerOrder`, `DeductedOnlyIfPaid` and `DoneIsFinal`
hold regardless.

### BitcoinKeys and the code

Paths in this part are those of `…/frontend/accounttabs/addfundsaccounttabbody.cpp`.
`account`, `cur` (the current page of each key set), `page`, `huge` and `hugeCur` are the
documents. Accounts and current pages have a CAS that counts their stores. Pages are only
ever added to, so that their contents serve as their CAS. A page of a set is the range it was
filled with and the uuids that have claimed its keys, in order: keys are claimed from
the first on. `tab[s]` holds the members of a tab.

| Action | Code |
|---|---|
| `determineBitcoinState`, `checkNotAttemptingThenTransition` | opening the tab, the button, the recovery of an interrupted request (62-218) |
| `analyzeCurrentPage`, `lockAccount` | the page the set is on; *GettingKey* with set, page and uuid (219-332) |
| `getPage`, `getNextPage` (`LookedAt`), `claimKey` | 333-453, 812-840 |
| `unlockAccount` | *HaveKey* (454-498) |
| `hugeCurrentPageGetComplete`, `lockSet` | where in the huge list to look; the set locked for filling (986-1036, 734-760) |
| `getHugePage`, `changeHugeCur`, `claimRange` | 841-967, 1122-1138, 1070-1093 |
| `relockSet` | out of keys: the set stays locked, from the page that is missing (857-872, 1139-1155) |
| `addPage`, `unlockSet` | 968-985, 1037-1121 |
| `doneSendingBitcoins`, `creditConfirmedBitcoinAmount` | 534-802 |
| `Close`, `Crash` | the tab is left; the process dies, or any request ends in `dbError` |
| `OtherLock`, `OtherUnlock` | purchases, withdrawals and the creditor |
| `addHugeBitcoinKeyListPage` | the page adder |

As in `SlotPurchase` an action is a request with the handler of its answer, since rendering is
deferred in between. A tab that shows a message or the button that asks for a key is
`"closed"`: the click on the button gets the account anew. Abstractions: what is received on a key
is one unit, confirmed at any time by bitcoind (external); the uuid of a request, a hash of user
name, second and session, is unique; the uuid of a fill is set and page, as in the
code (1022). `jumped` remembers the requests of the case below.

A recovery that finds its set locked goes on with the page being filled and forgets the one
the account names (258). If the interrupted request had claimed a key on that, it
now claims a second one. The first is lost: nobody was shown it, so no payment is. No comment speaks of
it, `OneKeyPerRequest` leaves such requests out, and all the other properties hold for them.

### GetAndSubscribe and the code

Paths in this part are in `…/src/backend/`; `B` is `anonymousbitcoincomputingcouchbasedb.cpp`. The module has
one node: its sessions (`gui`, `inbox`), the queues between (`wire`), the cache items (`item`),
the request each item polls with (`poll`), the stores and single gets under way (`direct`), and
the two counts of pending requests with the state of the shutdown (`pending`, `server`).

| Action | Code |
|---|---|
| `ShowCampaign`, `ShowCampaignOnce`, `unsubscribeIfSubscribedToAnything`, `Login`, `finalize`, `StoreDocument` | what sessions send (`GUI`: 573-671, 1796-1815, 2640-2660, 2583-2590, 173-182, 1696-1706) |
| `UPDATE` (`Remembered`), `storeFinished` | what they are posted (`GUI`: 2096-2124, 686-743, 2211-2290) |
| `TakeSubscribe`, `TakeSingle`, `TakeUnsubscribe`, `TakeChangeSessionId`, `TakeStore`, `Discard` | the event slots of the queues (`B` 1148-1342) |
| `PollFound` (`Unsubscribed`, `Rebound`, `Told`, `Aged`), `PollNotFound`, `PollError` | the get callback for the request of an item (`B` 651-882) |
| `DirectAnswered`, `DirectError` | the callbacks for the others (`B` 514-628, 677-690, 884-898) |
| `backoffPoll`, `retryPoll`, `backoffDirect`, `retryDirect` | temporary failures and the exponential back-off |
| `PollingTimeout` | the 100 ms timer: poll again, or delete the item (`B` 1013-1037) |
| `BeginStopping`, `finalCleanupAndJoin` | the shutdown (`B` 1091-1112) |
| `AnswerPoll`, `AnswerDirect`, `OtherStore` | Couchbase and its other clients (external) |

A document is the number of its version. The queues are unordered as a session
spreads its messages over several (`abc2common.h` 50-65). That a session handles its posts in
order is assumed of Wt. Which subscriber's request an item polls with is left open. `crossed` remembers the sessions whose
messages did not take effect in the order they were sent, for whom nothing can
be promised, and `missed` the keys for which a poll found no document: their items are left
without a timer (`B` 704), a hazard the code knows of. An error blanks the labels of a page, which keeps the
document it had and its CAS (`Remembered`). Left out is a request that libcouchbase
refuses to schedule (`lcb_get` or `lcb_store` fails at once, `B` 1132-1145, 1174-1187): it is answered with an error and, if it
was a poll, leaves its item without a timer as well.

Operators marked "Broken" in the modules are mistakes of the kind such code
invites: a missing CAS, a missing second look, an inverted test. Nothing uses them;
with any of them in the place of the definition after it, some property fails.

## 3. Runs

`tlc -workers 2 -config MCSlotPurchase_<run>.cfg MCSlotPurchase`, and
`MCWithdrawProcessor` for `payouts`, `overlap`, `done` and `resume`, `MCBitcoinKeys` for
`keys`, `MCGetAndSubscribe` for `browsing` and `resubscribe`.

| Run | Instance | Question |
|---|---|---|
| `rivals` | 2 users with a session each, 1 recoverer, slots 0-1, 1 fault; symmetry | Is every combination of documents one that everybody else can carry on from? Does all that is done to the documents implement `SlotSale`? |
| `tabs` | 1 user, 2 sessions, 2 ads, 1 recoverer, slots 0-1, 1 fault, 1 foreign change; symmetry | Is money ever lost, charged twice or promised twice? |
| `recovery` | 1 session, 2 recoverers, slots 0-1, 2 faults | Do recoverers get in each other's way? Is every sale finished, whatever becomes of its driver? Does the inductive invariant hold? |
| `payouts` | 1 user, 2 requests of which one can be afforded, one run at a time, 2 faults, 1 revert per request, 2 foreign changes | Is a payment ever made twice, unheld, uncharged, or charged unpaid, however runs die? |
| `overlap` | 1 request, 2 runs at once, 1 fault, 1 revert, 1 foreign change | Do two runs started over the same request pay it twice, or lose a change of the balance? Does the inductive invariant hold? |
| `done` | 1 user, 2 requests, no fault, 1 revert per request, 1 foreign change | Is every request done in the end, and every profile unlocked? |
| `resume` | 1 request, 1 fault | A violation: a paid request is called done and not charged (section 5) |
| `backintime` | as `rivals`, no faults | A violation: the campaign is brought back in time (section 5) |
| `stucklock` | slot 0, 1 fault, 1 foreign lock that may stay | A violation: a sold slot stays unpublished (section 5) |
| `keys` | 2 users, 2 tabs, 1 key set, 1 key per page and 1 range per page of the huge list, which has at most 2; 3 events in all, of: requests for a key, deaths of a tab, foreign locks; symmetry | Is a key or a range handed out twice, or credited twice? Do recoveries waste keys? |
| `browsing` | 2 sessions with JavaScript and 1 without, 1 campaign of at most 2 versions, 3 events in all (messages of sessions and at most 1 error) | Is every page told of every change, in order, by one poll at a time? Can the node be stopped? |
| `resubscribe` | 1 session, no error | A violation: a page that returns is unsubscribed by its own past (section 5) |

**Properties** of `SlotPurchase`: `PaperworkOrder`, `NoTotalSystemFailure`, `TransactionMatchesSlot`,
`DebitedOnce`, `NeverRelockedToPaidSlot`, `BalancesReconcile`, `PriceReserved`,
`NoGaps` (invariants), `StoresStayOrderly` (what a step may never do),
`ImplementsSale` (refinement), `SoldIsDebited`, `SoldIsPublished` (liveness).
Of `WithdrawProcessor`: `PaidOncePerOrder` (once, and once more for each revert),
`PaymentIsHeld`, `DeductedOnlyIfPaid`, `ProcessingIsLocked`, `PaidIsAccountedFor`,
`BalancesReconcile`, `DoneIsFinal` (what a step may never do), `EveryRequestIsDone`,
`EveryLockIsReleased` (liveness).
Of `BitcoinKeys`: `PagesAreThere` (what the code calls a total system failure),
`OneRangePerPage`, `KeysAreExclusive`, `OneKeyPerRequest`, `CreditedOnce`.
Of `GetAndSubscribe`: `OnePollPerItem`, `SubscriptionsMatchPages`, `SinglesAreFresh`, `PagesGoForward`,
`FinishedMeansIdle` (what a step may never do), `ViewersKeepUp`, `PagesAreRendered`,
`ShutdownCompletes` (liveness).

**Why the bounds are enough.** Every conflict in the code is about one account or
about one slot. Two sessions are enough for each of them: the same slot
(`rivals`) or the same account (`tabs`). Two slots are the least with which one
can be published behind another, an account can be locked to another slot
than the one under audit, and a price can be doubled (the first sells
at the minimum 1, the second at 1 or 2; a user has 2, so that two purchases of one
user conflict exactly when the second is the dearer one). Recoverers keep
nothing between audits, so a third does what the second may do one audit later.
A fault may be a crash, a lost answer or an exit; with two of them a driver and a
recoverer both fail at the same sale. `SaleInv` is checked with one session (`recovery`), so that what
two tabs do to each other's money is left to `PriceReserved` in `tabs`, and to the theorem. `SlotPurchaseProofs` removes the bounds
for the properties it proves.

In `WithdrawProcessor` a run touches one request and one profile at a time; what it
carries from one to the next is the set of users found locked, the rolling balance and
`lockCas`, so two requests of one user are enough, with a balance that pays one of them,
pays both after a deposit, and after a purchase covers the amount and not its fee. Two faults let a
run die while another is repaired, one after the payment whose answer was lost. `WithdrawProcessorProofs` removes
the bounds, that of one run at a time included, for what it proves.
In `overlap`, `BooksInv` (of `WithdrawLedgerProofs`) stands for the properties of
`payouts`: it contains `PaidOncePerOrder`, `DeductedOnlyIfPaid` and `ProcessingIsLocked`, and implies `PaymentIsHeld`.
`DoneIsFinal` is model-checked with one run at a time, and proved for any number.
With two runs at once `PaidIsAccountedFor` is not claimed: a run that has read a request
before, and its profile after, another run finished it locks the profile to a request
that is done, and stops (311-345).

In `BitcoinKeys` every document is fought over by two parties at a time: two
tabs, of one user or of two. Three requests are the least with which a new one can come
upon a set that is locked because keys ran out: the first takes the only key of page 1, the second has page 2
filled, the third comes in between. Two requests and a trouble have a fill, or a claim, taken up after
its tab died. One set shows every conflict about its own documents. About the huge list sets are
rivals too, which differ from the rivals of one set by their uuid only; two sets that both fill a page need more requests
than TLC has time for. `BitcoinKeysProofs` removes the bounds for the properties it proves, rival sets
included.

In `GetAndSubscribe` items do not touch one another, so one key is enough, except for the count of
pending requests (below). Three events let a page subscribe, leave and return; subscribe, log in and be told; two
pages and a purchase meet at one poll; an error strike at any request of these.

In the runs of `SlotPurchase` and `WithdrawProcessor` a state from which nothing can happen is an
error; there is none, as users can log in and out and runs be started. In
`BitcoinKeys` all tabs may be closed when the events are used up, and in `GetAndSubscribe` the node
may have been stopped: deadlock is not checked there.

**Fairness.** Liveness assumes that a recoverer that can take a step does: its
loop has no exit but an error, and it is started again after one. (The code leaves
the restart to the operator; the model leaves open when it comes.) A round of the
loop audits with probability 1/10, hence sooner or later. Foreign locks are given
back in the end; `stucklock` shows what happens without that. Nothing is
assumed of sessions: they may stop at any request. In the run `done` a withdraw
processor that is started goes on; the operator answers it and starts it again
and again, lists each request again and again and lets such runs proceed (the program is
made to be run periodically); other locks are given back. It has no crashes: after
one between lock and payment the code waits for a human, and so would the property.
In `browsing` what the machine does goes on: posted messages are handled, queues are
emptied, requests of each item and each session answered or timed. Nobody need
click, store, or stop the node. Errors are bounded, so a poll succeeds in the end. `ShutdownCompletes`
would be too strong with many campaigns: their polls overlap, and the code waits for an instant at which
none is pending (it goes on polling while it stops). Requests in back-off
when the node stops are not waited for: a store among them is lost, as a TODO in the code fears
(`iautoretryingwithexponentialbackoffcouchbaserequest.cpp` 3). `FinishedMeansIdle` speaks of those on their way, and would not catch it.

## 4. Proofs

`tlapm SlotPurchaseProofs.tla`. For every set of users, sessions, recoverers and
ads and every number of slots, faults and foreign changes, under nothing but
`ConstantsAssumption` (the types of the constants, and that `NoUser` and
`NoFiller` are not users or ads):

| Theorem | Property |
|---|---|
| `TypeCorrect` | `TypeOK` |
| `Invariant` | `IInv` |
| `PaperworkIsOrdered` | `PaperworkOrder` |
| `RecoverersNeverGiveUp` | `NoTotalSystemFailure` |
| `TransactionsMatch` | `TransactionMatchesSlot` |
| `NeverDebitedTwice` | `DebitedOnce` |
| `NeverRelocked` | `NeverRelockedToPaidSlot` |
| `OrderlyStoresAlways` | `StoresStayOrderly` |

`tlapm SlotSaleProofs.tla`, on top of these and under the same assumption:

| Theorem | Property |
|---|---|
| `SaleInvariant` | `SaleInv` |
| `PriceStaysReserved` | `PriceReserved` |
| `SoldWithoutGaps` | `NoGaps` |
| `PurchasesAreSales` | `ImplementsSale` |
| `BalancesAlwaysReconcile` | `BalancesReconcile` |

None of these is inductive. What a debit does depends on a copy of the account
read many steps ago, so the invariant has to say what such a copy is worth.
`IInv` has four parts:

* `TypeInv`: `TypeOK`, that a recorded index leaves room for the next slot, and
  that a recoverer past its first look audits a slot that exists. (`TypeOK` alone
  is not preserved by the increment of the index or by the recoverer's
  transaction.)
* `DocInv`: the safety properties of the documents, and that no account carries
  two kinds of lock.
* `DriverInv(s)`: for each request a session may be waiting for, what it knows *if
  its CAS is still the account's* (`Fresh(s)`): that the account is unlocked, or is
  locked to its own purchase. One clause holds without a fresh CAS: while the slot
  is not there the lock stays, because only a filled slot lets anybody release it.
  This is why releasing a lock without a debit is safe only after seeing
  the slot filled by somebody else.
* `RecInv(r)`: what a recoverer knows about the transaction, and, while its CAS is
  fresh, about the lock.

The proof first shows `TypeInv`, action by action. The preservation of the rest is
organised by what a step does to the documents: steps that store nothing
(`QuietDriverInv`), steps that change one account (`AccountStore`), that add a
transaction (`TransactionStore`) or debit (`DebitStore`), and for each of these one
lemma that says that the clauses of all *other* sessions and recoverers survive it.

The theorems of `SlotSaleProofs` take a second step back: `DocStep` says that all that any step does to the
documents is to relock an account, change a balance, charge a slot, sell a slot or record a transaction, each
with what makes it legal (`Relocked` to `Recorded`). `NextDocStep` shows it of every action, and the rest speaks of
these five. `SaleInv` adds to `IInv` what is known of money: the holder of a fresh CAS has the account's balance, and from the lock
on that balance covers the price (`KnowsMoney`); the slot to be bought follows a sold one (`KnowsLast`).
`PriceReserved` needs `LockedUntilDebited`, for `PaperworkOrder` is silent between the transaction and
the debit. The abstract sale asks for *all* earlier slots to be sold, where `NoGaps` speaks of the one before:
hence `SoldInOrder`. `PurchasesAreSales` covers both halves of the refinement: the initial state is one of
`SlotSale`, and each `DocStep` is one of its actions or a stutter; that settled in the sense of the recoverer (a
transaction and no lock) is the same as debited is `SettledIsDebited`.

`BalancesReconcile` adds up what a user has spent, by a fold over a set. `SumTheorems` shows what a sum does when a
member is added or a term changes, for every finite set: not by induction, which the provers
cannot instantiate, but by the smallest subset for which the claim would fail (`SmallestSubset`).

`tlapm WithdrawProcessorProofs.tla`. For every set of users, requests and runs under way
at once, all amounts, and any number of faults, reverts and foreign changes, under
`WithdrawAssumption` (the types of the constants, and that no request is called "none" or "other", the
names of the locks that are not a request's):

| Theorem | Property |
|---|---|
| `TypeCorrect` | `TypeOK` |
| `Invariant` | `IInv` |
| `NeverPaidTwice` | `PaidOncePerOrder` |
| `OnlyPaidIsDeducted` | `DeductedOnlyIfPaid` |
| `PaymentsAreHeld` | `PaymentIsHeld` |
| `ProcessingStaysLocked` | `ProcessingIsLocked` |
| `ProcessedIsDeductedUnlessResumed` | `~resumed => ProcessedIsDeducted` |
| `DoneStaysDone` | `DoneIsFinal` |

That no request is paid twice rests on the CAS of the request alone: a run at the
payment has stored "processing" over an "unprocessed" it had read, and whoever
else read that "unprocessed" is now stale (`Knows`, `OnePayer`). That a payment is covered
rests on the CAS of the profile: `lockCas` is that of the profile as long as the run holds
it, and nobody else stores a locked profile (`KnowsProfile`, `OneHolder`). The jump of line 235
breaks the second argument and not the first, which is why those theorems, like the runs, say "until a
run has met a request that is paid and not done" (`~resumed`).
`ProcessedIsDeductedUnlessResumed` makes the finding of the run `resume` exact: the promise is
kept by every run that does its own work, and fails only where a run takes over another's.
The three layers of `IInv`, `TypeInv`, `RequestInv` and `LockInv`, are proved one upon the other:
first what each step does to its run (`GotoEffect` to `StoreRequestEffect`), then, for each layer, what a store
leaves of the knowledge of all other runs (`KnowsFrame`, `ProfileFrame`), then one case for each kind of step.

`tlapm WithdrawLedgerProofs.tla`, on top of these and under the same assumption:

| Theorem | Property |
|---|---|
| `BooksInvariant` | `BooksInv` |
| `BalancesAlwaysReconcile` | `BalancesReconcile` |
| `PaidStaysAccountedFor` | `OneRun => PaidIsAccountedFor` |

`BooksInv` says that who has the CAS of a profile it may write has its balance too (`KnowsBalance`), so that
what is written differs from what was there by the amount just deducted; `BookStep` says what a step can do to
profiles, deductions and the ledger, and `SumTheorems` does the rest. `PaidStaysAccountedFor` is about one run of the program at
a time (`OneRun`), as its property is: the run that has paid a request is then the one that holds its profile, until it
stores *processed* or dies and leaves *processing* behind (`AccountedInv`). With two runs the statement is false: a run that
read a request before another finished it can lock the profile to a request that is done.

`tlapm BitcoinKeysProofs.tla`. For every set of users, tabs and key sets, any number of keys on a page, of ranges on a page of the
huge list and of such pages, and any number of requests, deaths and foreign locks, under `BitcoinKeysAssumption` (the types
of the constants, and that `NoUser` is not a user) and `NoPageAssumption` (`NoPage` is not a page):

| Theorem | Property |
|---|---|
| `PagesInvariant` | `PagesInv` |
| `TypeCorrect` | `TypeOK` |
| `PagesAlwaysThere` | `PagesAreThere` |
| `OneRangeForOnePage` | `OneRangePerPage` |
| `KeysInvariant` | `KeysInv` |
| `KeysAreTheirs` | `KeysAreExclusive` |
| `EachCreditedOnce` | `CreditedOnce` |
| `RequestInvariant` | `ReqInv` |
| `OneKeyForRequest` | `OneKeyPerRequest` |

`PagesInv` is `TypeInv` and `FillInv`. A fill must claim *one* range though tabs begin it from different pages of the huge
list and may all die. The reason is that the list is used up from its start: a range is claimed on a page only if all pages before are
full (`HugeInv`). A tab in a fill has seen every page below its own full, and no range of its fill there (`FullBelow`, `NoneBelow` in
`Knows`). Both stay so: nothing is claimed on a full page, so whoever claimed the range did it at that
tab's page or beyond, and the tab will come by. The same holds of the place a locked set remembers (`FillStarts`). The CAS of the
set tells who may unlock it (`t.cas = c.cas` in `Knows`). Each lemma of a step (`CheckedFill` to
`AdderFill`) says that documents only grow (`PagesGrow`, `RangesGrow`, `CurGrows`); `KnowsGrows`, `SetGrows` and
`AccountsKnowOn` then carry over what everybody else knows. That the pages of a set fit in `Pages` is a pigeonhole over the
ranges (`PageBound`); `TypeCorrect` needs it, hence the whole of `FillInv`.

`KeysInv` adds `OwnInv`. Two pages have different ranges, so no key is on two pages, and a place on a page is claimed once:
a claim has one owner (`KeysApart`, `OneOwner`). The CAS of the account does the rest: a tab that is getting a key and whose account has
not changed since (`UpToDate`) has a request nothing was credited for, and one about to credit has the
key the account still has (`Owns`). When another tab of the user has credited that key first, the CAS differs, and the
second credit fails. `OwnersGrow` says what a step leaves of this to all others: claims are only added, an
account that is stored has a new CAS, and nothing is credited but to an account that is stored.

`ReqInv` adds `RequestInv`, on how many keys a request gets. A request is `Near` a page if a tab looks there for it, the account says that it is
there, or a key on it is claimed for it. `Together`: these pages are of one set, no page between two of them has room, and none before one of
them has a key for the request; so there is one claim at most. Full pages stay full, hence a tab that goes on may do so
only past pages where nobody can claim any more, and a tab that claims does it on the furthest of them (`TogetherNext`, `TogetherClaims`).
The first tab gets its page when nothing has been done for its request (`Young`, `TogetherFirst`). It is not true of a request moved to a page
that was being added, which leaves pages with room behind: those are in `jumped`. TLC has checked the three
invariants on the instance of the run `keys`, the last one also with two sets and two keys on a page.

`tlapm GetAndSubscribeProofs.tla`. For every set of sessions, with and without JavaScript, of campaigns, and any number of
versions, messages and errors, under `GetAndSubscribeAssumption` (the types of the constants, and that `NoKey` is not a campaign):

| Theorem | Property |
|---|---|
| `CountsInvariant` | `CountInv` |
| `TypeCorrect` | `TypeOK` |
| `OnePollForEachItem` | `OnePollPerItem` |
| `FinishedIsIdle` | `FinishedMeansIdle` |
| `SubscriptionsAreRight` | `SubscriptionsMatchPages` |

The counts of pending requests are two numbers; what they count is spread over polls, stores and single gets, each of which may
fail, back off and be sent again. `CountInv` says that they are the sizes of two sets, those on their way to the
database (`Polling`, `Asking`). That needs every request to be there once: a message is known by its session and number (`Id`), none is both in
a queue and under way, and none is twice (`MessagesOK`). `FinishedIsIdle` then is about what zero means: two empty sets. That the type
of a version is kept needs `RoomOK`: every store that is still to be made finds one left.

`BeliefInv` is why the backend ends up with the right subscribers although a subscription is taken at once, and what ends
or renames one waits for a poll. Of what a session says of one campaign, subscriptions and their ends take turns in the queues; the first word not
yet taken is the opposite of what the backend believes, the last is what the page shows, and with none left the two are the same
(`TalkIsNext`). The backend's belief is the entry of the session *and* what is put aside in the item about it, of which
there is one word at most (`OneEntry`). It says nothing of a session once its words were taken out of order (`crossed`): the
run `resubscribe` shows what becomes of those. The proof follows the words: `WordSaid` when one is added at the end, `FirstWordTaken`
when the first is taken, `AfterPoll` when a poll carries out what was put aside. TLC has checked both invariants on small instances, among them
one of two campaigns and one of a session that sends five messages.

`tlapm GetAndSubscribeVersions.tla`, under the same assumption:

| Theorem | Property |
|---|---|
| `FreshInvariant` | `FreshInv` |
| `PurchasesAreSeen` | `SinglesAreFresh` |
| `ShownGoesForward` | `PagesGoForward` |

`FreshInv` adds three invariants to `CountInv` and `BeliefInv`. `VersionsOK`: no copy, on a page, on its way or in the cache, is newer
than its document, and what a poll brings is as new as the cache item. So the item only grows. `NewsInv` is about pages
with JavaScript, which may have several answers and updates on their way: they are told in order, and have seen no more than the item, nor than a poll
that is about to be told to all. This holds because such a page never has a hard get of its own (`direct` has only its stores).
`OnceInv` is about pages without. They may have a hard get, which overtakes the item; but what such a page waits for is in one place
only, in a queue, under way by itself, kept in a cache item, or posted, and it knows nothing from after it asked (`Waits`). What it
is answered with is as new as the document was when it asked: a hard get because it is made after that, the item because the
answer of the poll on its way is let pass (`Held`; mode `single` becomes `next`), and the poll after that is made later. All
of it is relative to the present session id (`IsNow`): what was asked before a login may be
anywhere, and its answer is lost. Both theorems then are about the head of a queue. TLC has checked the three invariants on small instances, of
sessions of both kinds; on one of a page without JavaScript that looks four times, and one of a page that goes between two campaigns,
an error or a campaign that is not there comes while the page has a document, which in `browsing` takes more events than it has.

**Only model-checked**: the liveness properties of `SlotPurchase`, `WithdrawProcessor` and `GetAndSubscribe`. Liveness
under fairness is beyond the prover. Every invariant, action property and refinement that a passing run checks is also proved.

## 5. Where code and design disagree

* **The campaign can be brought back in time** (`backintime`). The CAS under which
  a driver publishes its slot is meant to make the store fail once a later
  slot is published. But it is taken from the last subscription update (`GUI`:742-743),
  which may have come during the purchase and announce that later slot.
  The recoverers repair it afterwards: the slot after the one published exists.
* **A sold slot can stay unpublished** (`stucklock`). The design says the recoverer
  publishes a slot whose transaction exists if the buyer's account is unlocked *or
  locked to something else*. The code skips the second case (recoverer:310-315), so
  a debited slot whose driver died waits for a foreign lock, which a dead
  withdraw processor leaves for good; no further slot can be bought meanwhile.

* **A paid request is called done without being charged** (`resume`). The comment at
  the top of the withdraw processor (33-36) says that a request found paid and not done
  continues with the deduction if the profile is still locked to it, and is merely
  called done if not. Line 223 tests for the opposite. A run that
  dies between payout and deduction thus leaves the user with both the bitcoins and
  the balance, and a locked profile.

* **A page that returns is unsubscribed by its own past** (`resubscribe`). An unsubscription is put
  aside until the next poll is back (`B` 1257-1263, 733-766); a subscription is taken at once
  (`B` 1275-1293). A page left and opened again within 100 ms or so is removed from the subscribers
  by the unsubscription it sent when it left, and is shown no further change. The front end thinks of the danger for two
  campaigns and dismisses it, as their keys differ (`GUI`:651); returning to the *same* campaign is the case it missed.

## 6. Plan

Done: `SlotPurchase`, `SlotSale`, their runs, the inductive invariant;
`WithdrawProcessor`, its runs, its inductive invariant; `BitcoinKeys`, `GetAndSubscribe` and their runs;
the theorems about money in both of the first two, the refinement of `SlotSale` among them; the theorems of `BitcoinKeys`
and `GetAndSubscribe`.

Next, in this order:

1. An abstract specification of a request (paid at most once per
   order, deducted only if paid), and of an account's lock that both
   `SlotPurchase` and `WithdrawProcessor` implement.
2. `TransactionCreditor`: credit at most once; what a crash between its stores loses.
3. `BuyPage`: several campaigns on one session (the last index kept from the
   campaign viewed before, `GUI`:779; updates posted for the campaign left behind, `GUI`:2102).
4. Small ones: the caches of the next free index, the crawl to today's ad slot,
   the falling price as an operator checked against its definition, the back-off.

Proofs to add: those of what comes with 1 and 2.

## 7. Not modelled

Rendering, formatting, the text of documents beyond the fields above, passwords and
sessions of the web toolkit, replication and durability polling (compiled out). In
`SlotPurchase`, `WithdrawProcessor` and `BitcoinKeys` retries appear by their outcomes only: success, expected
failure, error. Of the backend, view queries with their cached pages and the queue of the HTTP API. Of ABC2, the pages
that only display, uploads of ads and new campaigns (loops of ADD over growing indices), the crawl to today's ad
slot, which reads only, the state of a transaction that the creditor changes, and the falling price, which is floating point.

The rest of the repository is some 1,700 files of programs that have nothing to do with ABC2 or with
each other: prototypes, code generators, desktop tools and a copy of a video site. They run in one
process for one user, keep no state that outlives a run but files, and have no protocol between
them to state properties of; what could be modelled of them would be their control flow alone. This is
why the modules cover a small share of the repository's lines, and a large share of the lines of
ABC2 that change what is stored.
