------------------------- MODULE WithdrawProcessor -------------------------
(***************************************************************************)
(* Abc2WithdrawRequestProcessor: the program, started by hand, that pays   *)
(* the withdrawal requests of ABC2 by sending bitcoins.  A run visits the  *)
(* requests of a view twice, first to calculate what they would pay, then, *)
(* when the operator agrees, to pay them, each in six steps:               *)
(*                                                                         *)
(*   lock the profile -> request "processing" -> bitcoind pays -> request  *)
(*   "processedBut..." -> deduct and unlock -> request "processed_Done"    *)
(*                                                                         *)
(* A run may die at any of them; the next one finds the request as it was  *)
(* left.  Each step of the model is one request of the program, to         *)
(* Couchbase or to bitcoind, or one answer of the operator.                *)
(***************************************************************************)
EXTENDS Integers, FiniteSets, FiniteSetsExt

CONSTANTS
  Users,
  Processors,    \* runs that may be under way at the same time
  Requests,      \* withdrawal request documents that may be scheduled
  UserOf,        \* UserOf[r]: the user name in the key of request r
  Amount,        \* Amount[r]: what is to be paid out
  NoRequest,
  StartBalance,
  OtherAmounts,  \* what purchases, sales and deposits add to a balance
  MaxFaults,     \* bound: crashes, database errors, lost answers of bitcoind
  MaxReverts,    \* bound: how often the operator reverts each request
  MaxOthers      \* bound: account changes by the rest of the system

ASSUME WithdrawAssumption ==
  /\ IsFiniteSet(Requests) /\ {NoRequest, "none", "other"} \cap Requests = {}
  /\ UserOf \in [Requests -> Users]
  /\ Amount \in [Requests -> Nat]
  /\ StartBalance \in [Users -> Nat]
  /\ OtherAmounts \subseteq Int
  /\ MaxFaults \in Nat /\ MaxReverts \in Nat /\ MaxOthers \in Nat

VARIABLES
  profile,    \* user account documents with their CAS
  request,    \* request documents with their CAS
  proc,       \* the processors: program counter and members
  paid,       \* what bitcoind has done: payments made for request r
  faults, others,    \* how many of these may still happen
  deducts,    \* history: how often request r was deducted
  reverted,   \* history: how often request r was reverted
  ledger,     \* history: deposits, sales and purchases of each user
  resumed     \* history: a run has met a request that was paid and not done

docs  == <<profile, request>>
bound == <<faults, others>>
hist  == <<deducts, reverted, ledger, resumed>>
vars  == <<profile, request, proc, paid, faults, others, deducts, reverted,
           ledger, resumed>>

\* A lock is towards a request, or any other kind, or there is none.
Locks == Requests \cup {"none", "other"}

Open == {"unprocessed", "processing", "processedButProfileNeedsDeductingAndUnlocking"}
Done == {"insufficientFunds_Done", "bitcoindCommandReturnedError_Done", "processed_Done"}

\* CAS 0 makes an LCB_SET unconditional; no document has the CAS Garbage.
Garbage == -1
None == -1

Profile == [balance: Int, cas: Nat, lock: Locks]
Request == [state: {"absent"} \cup Open \cup Done, cas: Nat]
Processor ==
  [pc: {"stopped", "totalSystemFailure", "next", "waitForInput", "getRequest", "getProfile",
        "setInsufficientFunds", "lockProfile", "setProcessing", "sendToAddress", "reply",
        "askOperator", "revert", "setBitcoindReturnedError", "unlock", "setProcessedBut",
        "deduct", "setDone"},
   mode: {"calculate", "execute"},
   rows: SUBSET Requests,       \* the result of the view query
   left: SUBSET Requests,       \* rows this iteration has yet to visit
   cur: Requests \cup {NoRequest},
   state: Open, cas: Nat,       \* the current request, as read or stored last
   balance: Int, lock: Locks, profileCas: Nat,   \* the profile, as read
   lockCas: Nat \cup {Garbage}, \* m_CurrentUserProfileInLockedWithdrawingStateCas
   found: SUBSET Users,         \* m_UsersWithProfilesFoundLocked
   rolling: [Users -> Int \cup {None}],
   proceed: BOOLEAN]            \* what the operator chose: continue, or stop

\* 1.5 percent, rounded up to a satoshi (in exact arithmetic).
withdrawalFee(a) == (15 * a + 999) \div 1000
Total(r) == Amount[r] + withdrawalFee(Amount[r])

Stopped(pc, g) ==
  [pc |-> pc, mode |-> "calculate", rows |-> {}, left |-> {}, cur |-> NoRequest,
   state |-> "unprocessed", cas |-> 0, balance |-> 0, lock |-> "none", profileCas |-> 0,
   lockCas |-> g, found |-> {}, rolling |-> [u \in Users |-> None], proceed |-> FALSE]

Init ==
  /\ profile = [u \in Users |-> [balance |-> StartBalance[u], cas |-> 1, lock |-> "none"]]
  /\ request = [r \in Requests |-> [state |-> "absent", cas |-> 0]]
  /\ proc = [i \in Processors |-> Stopped("stopped", Garbage)]
  /\ paid = [r \in Requests |-> 0]
  /\ faults = MaxFaults /\ others = MaxOthers
  /\ deducts = [r \in Requests |-> 0]
  /\ reverted = [r \in Requests |-> 0]
  /\ ledger = StartBalance
  /\ resumed = FALSE

user(i) == UserOf[proc[i].cur]

-----------------------------------------------------------------------------
(* Stores under a CAS.                                                      *)

SetRequest(r, state) ==
  request' = [request EXCEPT ![r] = [state |-> state, cas |-> @.cas + 1]]

SetProfile(v, balance, lock) ==
  profile' = [profile EXCEPT ![v] = [balance |-> balance, cas |-> @.cas + 1, lock |-> lock]]

\* Broken: the withdrawal lock is not erased before the profile is stored.
StillLocked(i) == proc[i].cur
\* Broken: the lock is emptied, not erased.
LockedToNothing(i) == NoRequest
\* The whole profile is written as it was read, less the withdrawal lock.
Unlocked(i) == IF proc[i].lock = "other" THEN "other" ELSE "none"

Goto(i, pc) == proc' = [proc EXCEPT ![i].pc = pc]
Stop(i, pc) == proc' = [proc EXCEPT ![i] = Stopped(pc, Garbage)]
SkipUser(i) == proc' = [proc EXCEPT ![i].pc = "next", ![i].found = @ \cup {user(i)}]

\* Broken: the request is stored without its CAS.
StoreRegardless(i, state, pc) ==
  /\ SetRequest(proc[i].cur, state)
  /\ proc' = [proc EXCEPT ![i].pc = pc, ![i].cas = request[proc[i].cur].cas + 1]
\* A store of the current request under its CAS: RequiringSuccess, so that a
\* failure ends the run.
StoreRequest(i, state, pc) ==
  IF request[proc[i].cur].cas = proc[i].cas
    THEN /\ SetRequest(proc[i].cur, state)
         /\ proc' = [proc EXCEPT ![i].pc = pc, ![i].cas = @ + 1]
    ELSE Stop(i, "stopped") /\ UNCHANGED request

-----------------------------------------------------------------------------
(* The runs.                                                                *)

\* A run begins.  The view may be stale: it may miss requests and list some
\* that are done.  Nothing initialises lockCas.
processWithdrawalRequests(i, rows) ==
  /\ proc[i].pc \in {"stopped", "totalSystemFailure"}
  /\ rows \subseteq {r \in Requests : request[r].state # "absent"}
  /\ \E g \in {0, Garbage} :
       proc' = [proc EXCEPT ![i] = [Stopped("next", g) EXCEPT !.rows = rows, !.left = rows]]
  /\ UNCHANGED <<docs, paid, bound, hist>>

\* The next request of the iteration, or the end of it.  (In the order of
\* the view in the code; here in any.)
processNextWithdrawalRequest(i) ==
  /\ proc[i].pc = "next"
  /\ IF proc[i].left # {}
       THEN \E r \in proc[i].left :
              proc' = [proc EXCEPT ![i].pc = "getRequest", ![i].cur = r, ![i].left = @ \ {r}]
       ELSE IF proc[i].mode = "calculate" THEN Goto(i, "waitForInput")
                                    ELSE Stop(i, "stopped")
  /\ UNCHANGED <<docs, paid, bound, hist>>

proceedOntoExecutionIteration(i) ==
  /\ proc[i].pc = "waitForInput"
  /\ proc' = [proc EXCEPT ![i].pc = "next", ![i].mode = "execute", ![i].left = proc[i].rows]
  /\ UNCHANGED <<docs, paid, bound, hist>>

Quit(i) ==
  /\ proc[i].pc = "waitForInput"
  /\ Stop(i, "stopped")
  /\ UNCHANGED <<docs, paid, bound, hist>>

\* A crash, or a database error: the run ends.
Crash(i) ==
  /\ faults > 0 /\ faults' = faults - 1
  /\ proc[i].pc \notin {"stopped", "totalSystemFailure"}
  /\ Stop(i, "stopped")
  /\ UNCHANGED <<docs, paid, others, hist>>

-----------------------------------------------------------------------------
(* One request.                                                             *)

\* Broken: what the view lists is taken to be not done.
TrustTheView(i) ==
  /\ proc[i].pc = "getRequest"
  /\ LET q == request[proc[i].cur] IN
       proc' = [proc EXCEPT ![i].pc = "getProfile", ![i].cas = q.cas,
                  ![i].state = IF q.state \in Done THEN "unprocessed" ELSE q.state]
  /\ UNCHANGED <<docs, paid, bound, hist>>
GetRequest(i) ==
  LET q == request[proc[i].cur] IN
  /\ proc[i].pc = "getRequest"
  /\ IF q.state \in Done \/ user(i) \in proc[i].found
       THEN Goto(i, "next")
       ELSE proc' = [proc EXCEPT ![i].pc = "getProfile", ![i].state = q.state, ![i].cas = q.cas]
  /\ UNCHANGED <<docs, paid, bound, hist>>

\* Broken: a request found in state "processing" is paid like a new one.
ProcessAgain(i, a) ==
  /\ proc[i].state = "processing"
  /\ proc' = [proc EXCEPT ![i].balance = a.balance, ![i].profileCas = a.cas,
                ![i].pc = IF proc[i].mode = "calculate" THEN "next" ELSE "lockProfile"]
\* A request found in state "processing" has its profile locked, and the
\* user is skipped like any whose profile is.
FoundProcessing(i, a) ==
  /\ proc[i].state = "processing"
  /\ IF a.lock # proc[i].cur THEN Stop(i, "totalSystemFailure") ELSE SkipUser(i)

\* calculate mode: what the user would have left, None if never visited.
Rolling(i, a) ==
  LET before == proc[i].rolling[user(i)] IN
  (IF before = None THEN a.balance ELSE before) - Total(proc[i].cur)

\* A request found paid and not done.  The code deducts when the profile is
\* not locked to it, and calls it done when it is.  In the first case
\* lockCas is not the CAS of the profile just read, but whatever it held.
FoundProcessedBut(i, a) ==
  /\ proc[i].state = "processedButProfileNeedsDeductingAndUnlocking"
  /\ IF a.lock = proc[i].cur
       THEN Goto(i, "setDone")
       ELSE IF proc[i].mode = "calculate" /\ Rolling(i, a) < 0
         THEN Stop(i, "totalSystemFailure")
         ELSE proc' = [proc EXCEPT
                ![i].pc = "deduct", ![i].balance = a.balance, ![i].lock = a.lock,
                ![i].rolling = IF proc[i].mode = "calculate"
                                 THEN [@ EXCEPT ![user(i)] = Rolling(i, a)] ELSE @,
                ![i].lockCas = IF @ = 0 THEN 0 ELSE Garbage]

\* Broken: the fee is forgotten.
EnoughWithoutFee(i, a) == a.balance >= Amount[proc[i].cur]
SufficientFunds(i, a) == a.balance >= Total(proc[i].cur)

FoundUnprocessed(i, a) ==
  /\ proc[i].state = "unprocessed"
  /\ CASE a.lock # "none" -> SkipUser(i)
       [] a.lock = "none" /\ proc[i].mode = "calculate" ->
            proc' = [proc EXCEPT ![i].pc = "next",
                       ![i].rolling[user(i)] = IF Rolling(i, a) < 0 THEN @ ELSE Rolling(i, a)]
       [] OTHER ->
            proc' = [proc EXCEPT
                ![i].balance = a.balance, ![i].lock = a.lock, ![i].profileCas = a.cas,
                ![i].pc = IF SufficientFunds(i, a) THEN "lockProfile"
                                                   ELSE "setInsufficientFunds"]

GetProfile(i) ==
  LET a == profile[user(i)] IN
  /\ proc[i].pc = "getProfile"
  /\ FoundProcessing(i, a) \/ FoundProcessedBut(i, a) \/ FoundUnprocessed(i, a)
  /\ resumed' = (resumed \/ proc[i].state = "processedButProfileNeedsDeductingAndUnlocking")
  /\ UNCHANGED <<docs, paid, bound, deducts, reverted, ledger>>

SetInsufficientFunds(i) ==
  /\ proc[i].pc = "setInsufficientFunds"
  /\ StoreRequest(i, "insufficientFunds_Done", "next")
  /\ UNCHANGED <<profile, paid, bound, hist>>

\* Broken: the profile is locked without the CAS it was read with.
LockRegardless(i) ==
  /\ proc[i].pc = "lockProfile"
  /\ SetProfile(user(i), proc[i].balance, proc[i].cur)
  /\ proc' = [proc EXCEPT ![i].pc = "setProcessing", ![i].lockCas = profile[user(i)].cas + 1]
  /\ UNCHANGED <<request, paid, bound, hist>>
LockProfile(i) ==
  /\ proc[i].pc = "lockProfile"
  /\ IF profile[user(i)].cas = proc[i].profileCas
       THEN /\ SetProfile(user(i), proc[i].balance, proc[i].cur)
            /\ proc' = [proc EXCEPT ![i].pc = "setProcessing", ![i].lockCas = proc[i].profileCas + 1]
       ELSE SkipUser(i) /\ UNCHANGED profile
  /\ UNCHANGED <<request, paid, bound, hist>>

SetProcessing(i) ==
  /\ proc[i].pc = "setProcessing"
  /\ StoreRequest(i, "processing", "sendToAddress")
  /\ UNCHANGED <<profile, paid, bound, hist>>

\* Broken: a refusal passes for a payment.
SendUnchecked(i) ==
  /\ proc[i].pc = "sendToAddress"
  /\ paid' = [paid EXCEPT ![proc[i].cur] = @ + 1] \/ UNCHANGED paid
  /\ Goto(i, "reply")
  /\ UNCHANGED <<docs, bound, hist>>
\* The command is on its way to bitcoind, which pays, or refuses to.
SendToAddress(i) ==
  /\ proc[i].pc = "sendToAddress"
  /\ \/ /\ paid' = [paid EXCEPT ![proc[i].cur] = @ + 1]
        /\ Goto(i, "reply")
     \/ /\ Goto(i, "askOperator")
        /\ UNCHANGED paid
  /\ UNCHANGED <<docs, bound, hist>>

Reply(i) ==
  /\ proc[i].pc = "reply"
  /\ Goto(i, "setProcessedBut")
  /\ UNCHANGED <<docs, paid, bound, hist>>

\* It has paid, but the answer is lost: to the program it has failed.
ReplyLost(i) ==
  /\ faults > 0 /\ faults' = faults - 1
  /\ proc[i].pc = "reply"
  /\ Goto(i, "askOperator")
  /\ UNCHANGED <<docs, paid, others, hist>>

\* Broken: the profile is unlocked, the request left as it is.
OnlyUnlock(i) ==
  /\ proc[i].pc = "askOperator"
  /\ \E c \in BOOLEAN : proc' = [proc EXCEPT ![i].pc = "unlock", ![i].proceed = c]
  /\ UNCHANGED <<docs, paid, bound, hist>>
\* userWantsUsToHandleTheBitcoindCommunicationsErrorThisWay: four choices.
AskOperator(i) ==
  /\ proc[i].pc = "askOperator"
  /\ \E c \in BOOLEAN :
       \/ /\ reverted[proc[i].cur] < MaxReverts
          /\ proc' = [proc EXCEPT ![i].pc = "revert", ![i].proceed = c]
       \/ proc' = [proc EXCEPT ![i].pc = "setBitcoindReturnedError", ![i].proceed = c]
  /\ UNCHANGED <<docs, paid, bound, hist>>

Revert(i) ==
  /\ proc[i].pc = "revert"
  /\ StoreRequest(i, "unprocessed", "unlock")
  /\ reverted' = IF request' = request THEN reverted
                 ELSE [reverted EXCEPT ![proc[i].cur] = @ + 1]
  /\ UNCHANGED <<profile, paid, bound, deducts, ledger, resumed>>

SetBitcoindReturnedError(i) ==
  /\ proc[i].pc = "setBitcoindReturnedError"
  /\ StoreRequest(i, "bitcoindCommandReturnedError_Done", "unlock")
  /\ UNCHANGED <<profile, paid, bound, hist>>

UnlockWithoutDebitting(i) ==
  /\ proc[i].pc = "unlock"
  /\ IF profile[user(i)].cas = proc[i].lockCas
       THEN /\ SetProfile(user(i), proc[i].balance, Unlocked(i))
            /\ IF proc[i].proceed THEN Goto(i, "next") ELSE Stop(i, "stopped")
       ELSE Stop(i, "stopped") /\ UNCHANGED profile
  /\ UNCHANGED <<request, paid, bound, hist>>

SetProcessedBut(i) ==
  /\ proc[i].pc = "setProcessedBut"
  /\ StoreRequest(i, "processedButProfileNeedsDeductingAndUnlocking", "deduct")
  /\ UNCHANGED <<profile, paid, bound, hist>>

DeductAndUnlock(i) ==
  /\ proc[i].pc = "deduct"
  /\ IF proc[i].lockCas \in {0, profile[user(i)].cas}
       THEN /\ SetProfile(user(i), proc[i].balance - Total(proc[i].cur), Unlocked(i))
            /\ deducts' = [deducts EXCEPT ![proc[i].cur] = @ + 1]
            /\ Goto(i, "setDone")
       ELSE Stop(i, "stopped") /\ UNCHANGED <<profile, deducts>>
  /\ UNCHANGED <<request, paid, bound, reverted, ledger, resumed>>

SetDone(i) ==
  /\ proc[i].pc = "setDone"
  /\ StoreRequest(i, "processed_Done", "next")
  /\ UNCHANGED <<profile, paid, bound, hist>>

-----------------------------------------------------------------------------
(* The rest of the system.                                                  *)

\* The withdraw tab adds a request.  It has compared the amount with the
\* balance at some earlier time, for the user's convenience only.
Schedule(r) ==
  /\ request[r].state = "absent"
  /\ SetRequest(r, "unprocessed")
  /\ UNCHANGED <<profile, proc, paid, bound, hist>>

\* A purchase, or the creditor, locks an unlocked profile ...
OtherLock(v) ==
  /\ others > 0 /\ others' = others - 1
  /\ profile[v].lock = "none"
  /\ SetProfile(v, profile[v].balance, "other")
  /\ UNCHANGED <<request, proc, paid, faults, hist>>

Change(v, d) ==
  /\ profile[v].balance + d >= 0
  /\ SetProfile(v, profile[v].balance + d, "none")
  /\ ledger' = [ledger EXCEPT ![v] = @ + d]

\* ... and gives the lock back with a debit or a credit.
OtherUnlock(v) ==
  /\ profile[v].lock = "other"
  /\ \E d \in OtherAmounts : Change(v, d)
  /\ UNCHANGED <<request, proc, paid, bound, deducts, reverted, resumed>>

AddFunds(v) ==
  /\ others > 0 /\ others' = others - 1
  /\ profile[v].lock = "none"
  /\ \E d \in {d \in OtherAmounts : d >= 0} : Change(v, d)
  /\ UNCHANGED <<request, proc, paid, faults, deducts, reverted, resumed>>

-----------------------------------------------------------------------------
\* The steps a run takes by itself, and the operator's answers to it.
Step(i) ==
  \/ processNextWithdrawalRequest(i) \/ GetRequest(i) \/ GetProfile(i)
  \/ SetInsufficientFunds(i) \/ LockProfile(i) \/ SetProcessing(i)
  \/ SendToAddress(i) \/ Reply(i) \/ AskOperator(i) \/ Revert(i)
  \/ SetBitcoindReturnedError(i) \/ UnlockWithoutDebitting(i)
  \/ SetProcessedBut(i) \/ DeductAndUnlock(i) \/ SetDone(i)

Next ==
  \/ \E i \in Processors :
       \/ Step(i) \/ proceedOntoExecutionIteration(i) \/ Quit(i) \/ Crash(i) \/ ReplyLost(i)
       \/ \E rows \in SUBSET Requests : processWithdrawalRequests(i, rows)
  \/ \E r \in Requests : Schedule(r)
  \/ \E v \in Users : OtherLock(v) \/ OtherUnlock(v) \/ AddFunds(v)

Spec == Init /\ [][Next]_vars
-----------------------------------------------------------------------------
TypeOK ==
  /\ profile \in [Users -> Profile]
  /\ request \in [Requests -> Request]
  /\ proc \in [Processors -> Processor]
  /\ paid \in [Requests -> Nat]
  /\ faults \in 0..MaxFaults
  /\ others \in 0..MaxOthers
  /\ deducts \in [Requests -> Nat]
  /\ reverted \in [Requests -> Nat]
  /\ ledger \in [Users -> Int]
  /\ resumed \in BOOLEAN

\* However runs die and requests are met again, bitcoins are sent once for a
\* request, and once more for each time the operator put it back.
PaidOncePerOrder ==
  \A r \in Requests : paid[r] <= 1 + reverted[r]

\* The payment command goes out, and the answer is waited for, only with the
\* request marked and its total held on a profile locked to it.
PaymentIsHeld ==
  ~resumed => \A i \in Processors :
    proc[i].pc \in {"sendToAddress", "reply", "setProcessedBut"} =>
      /\ request[proc[i].cur].state = "processing"
      /\ profile[user(i)].lock = proc[i].cur
      /\ profile[user(i)].balance >= Total(proc[i].cur)

\* Nobody is charged for a request that bitcoind never paid.
DeductedOnlyIfPaid ==
  \A r \in Requests : deducts[r] > 0 => paid[r] > 0

\* A request found in state "processing" has its profile locked to it; the
\* processor calls anything else a total system failure.
ProcessingIsLocked ==
  ~resumed => \A r \in Requests :
    request[r].state = "processing" => profile[UserOf[r]].lock = r

\* A request paid and not done is either locked and still to be deducted, or
\* deducted and no longer locked, which is what a next run has to go by; and
\* one that is done has been deducted once.
PaidIsAccountedFor ==
  ~resumed => \A r \in Requests :
    LET locked == profile[UserOf[r]].lock = r IN
    /\ request[r].state = "processedButProfileNeedsDeductingAndUnlocking" =>
         deducts[r] = IF locked THEN 0 ELSE 1
    /\ request[r].state = "processed_Done" => deducts[r] = 1 /\ ~locked

\* What has been deducted from v for his requests.
Deducted(v) ==
  MapThenSumSet(LAMBDA r : deducts[r] * Total(r), {r \in Requests : UserOf[r] = v})

\* A balance is what the rest of the system left on it less the requests
\* deducted: no change is lost between reading a profile and storing it.
BalancesReconcile ==
  ~resumed => \A v \in Users : profile[v].balance = ledger[v] - Deducted(v)

\* A request that is done stays as it is, whatever stale view lists it and
\* however many runs have it under way.
DoneIsFinal ==
  [][\A r \in Requests : request[r].state \in Done => request'[r] = request[r]]_vars

\* What the comments promise of the next run: a request marked as processed
\* and done has been deducted from its user, once.
ProcessedIsDeducted ==
  \A r \in Requests : request[r].state = "processed_Done" => deducts[r] = 1

-----------------------------------------------------------------------------
\* A run goes on, the operator answers and runs the program again and again;
\* a request stays out of the view, or its execution is refused by the
\* operator, only so often.  Others give their locks back.
Fairness ==
  /\ \A i \in Processors :
       /\ WF_vars(Step(i))
       /\ WF_vars(Quit(i) \/ proceedOntoExecutionIteration(i))
       /\ \A r \in Requests :
            /\ SF_vars(\E rows \in SUBSET Requests :
                         r \in rows /\ processWithdrawalRequests(i, rows))
            /\ SF_vars(r \in proc[i].rows /\ proceedOntoExecutionIteration(i))
  /\ \A v \in Users : WF_vars(OtherUnlock(v))

FairSpec == Spec /\ Fairness

\* Without crashes, every request scheduled is done in the end, and every
\* profile gets unlocked again.
EveryRequestIsDone ==
  \A r \in Requests : request[r].state = "unprocessed" ~> request[r].state \in Done

EveryLockIsReleased ==
  \A r \in Requests : profile[UserOf[r]].lock = r ~> profile[UserOf[r]].lock # r
=============================================================================
