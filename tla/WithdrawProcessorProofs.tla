---------------------- MODULE WithdrawProcessorProofs ----------------------
(***************************************************************************)
(* Theorems about WithdrawProcessor, for any number of users, requests and *)
(* runs under way at the same time.  The invariant comes in three layers,  *)
(* each inductive on top of those before it: the types; what a run may     *)
(* conclude from the CAS of its request, and what was paid; and what the   *)
(* lock of a profile protects.  The last holds until a run has met a       *)
(* request that was paid and not done.                                     *)
(***************************************************************************)
EXTENDS WithdrawProcessor, TLAPS

Paid == "processedButProfileNeedsDeductingAndUnlocking"

\* Run i is between two requests, or at none.
Idle == {"stopped", "totalSystemFailure", "next", "waitForInput"}

\* From here on the request is this run's, and marked "processing".
Paying == {"sendToAddress", "reply", "askOperator", "revert",
           "setBitcoindReturnedError", "setProcessedBut"}

\* From here on the profile is.
Holding == Paying \cup {"setProcessing", "unlock", "deduct"}

\* A run only visits requests that were scheduled.
Visits(i) ==
  /\ proc[i].left \subseteq proc[i].rows
  /\ \A r \in proc[i].rows : request[r].state # "absent"
  /\ proc[i].pc \notin Idle =>
       proc[i].cur \in Requests /\ request[proc[i].cur].state # "absent"

TypeInv == TypeOK /\ \A i \in Processors : Visits(i)

\* The request of run i is as run i has read or stored it.
IsCurrent(i) == request[proc[i].cur].cas = proc[i].cas

\* Run i has found its request paid, or has marked it so.
SeenPaid(i) ==
  \/ proc[i].pc \in {"deduct", "setDone"}
  \/ proc[i].pc = "getProfile" /\ proc[i].state = Paid

\* What run i knows of its request at each step.
Knows(i) ==
  LET s == request[proc[i].cur].state IN
  /\ proc[i].pc \in {"getProfile", "setInsufficientFunds", "lockProfile",
                     "setProcessing", "deduct", "setDone"} =>
       proc[i].cas <= request[proc[i].cur].cas
  /\ proc[i].pc = "getProfile" /\ IsCurrent(i) => s = proc[i].state
  /\ proc[i].pc \in {"setInsufficientFunds", "lockProfile", "setProcessing"}
       /\ IsCurrent(i) => s = "unprocessed"
  /\ proc[i].pc \in Paying => IsCurrent(i) /\ s = "processing"
  /\ proc[i].pc \in {"deduct", "setDone"} /\ IsCurrent(i) => s = Paid
  /\ SeenPaid(i) => s \in Done \cup {Paid}

\* What run i knows of the payment.
KnowsPaid(i) ==
  /\ proc[i].pc = "sendToAddress" => paid[proc[i].cur] <= reverted[proc[i].cur]
  /\ proc[i].pc \in {"reply", "setProcessedBut"} \/ SeenPaid(i) => paid[proc[i].cur] > 0

\* Two runs never pay the same request.
OnePayer ==
  \A i, j \in Processors :
    proc[i].pc \in Paying /\ proc[j].pc \in Paying /\ proc[i].cur = proc[j].cur => i = j

\* What the state of a request says of its payment.
StateTellsPaid(r) ==
  /\ request[r].state \in {"absent", "unprocessed"} => paid[r] <= reverted[r]
  /\ request[r].state = Paid => paid[r] > 0

RequestInv ==
  /\ \A i \in Processors : Knows(i) /\ KnowsPaid(i)
  /\ OnePayer
  /\ \A r \in Requests : StateTellsPaid(r)
  /\ PaidOncePerOrder
  /\ DeductedOnlyIfPaid

\* What run i knows of the profile of its request at each step.
KnowsProfile(i) ==
  LET a == profile[user(i)] IN
  /\ proc[i].pc = "lockProfile" =>
       /\ proc[i].balance >= Total(proc[i].cur)
       /\ proc[i].profileCas <= a.cas
       /\ proc[i].profileCas = a.cas => a.lock = "none"
  /\ proc[i].pc \in Holding =>
       /\ proc[i].lockCas = a.cas /\ proc[i].lockCas > 0
       /\ a.lock = proc[i].cur /\ a.balance >= Total(proc[i].cur)
  /\ proc[i].pc = "unlock" => request[proc[i].cur].state # "processing"

\* Two runs never hold the same profile.
OneHolder ==
  \A i, j \in Processors :
    proc[i].pc \in Holding /\ proc[j].pc \in Holding /\ user(i) = user(j) => i = j

\* What run i knows of the deduction.
KnowsDeducted(i) ==
  /\ proc[i].pc = "deduct" => deducts[proc[i].cur] = 0
  /\ proc[i].pc = "setDone" => deducts[proc[i].cur] = 1

\* What the state of a request says of its deduction.
StateTellsDeducted(r) ==
  /\ request[r].state \in {"absent", "unprocessed", "processing"} => deducts[r] = 0
  /\ request[r].state = "processed_Done" => deducts[r] = 1
  /\ deducts[r] <= 1

LockInv ==
  ~resumed =>
    /\ \A i \in Processors : KnowsProfile(i) /\ KnowsDeducted(i)
    /\ OneHolder
    /\ \A r \in Requests : StateTellsDeducted(r)
    /\ ProcessingIsLocked

IInv == TypeInv /\ RequestInv /\ LockInv

-----------------------------------------------------------------------------
(* Types.                                                                   *)

USE WithdrawAssumption DEF WithdrawAssumption, None, Garbage

LEMMA TotalIsInt == \A r \in Requests : Total(r) \in Int
  BY DEF Total, withdrawalFee

\* Any run can stop at any time.
LEMMA StoppedType ==
  ASSUME NEW p \in {"stopped", "totalSystemFailure", "next"}, NEW g \in {0, Garbage}
  PROVE  Stopped(p, g) \in Processor
  BY DEF Stopped, Processor, Open, Locks

LEMMA InitTypeInv == Init => TypeInv
  <1> SUFFICES ASSUME Init PROVE TypeInv
    OBVIOUS
  <1>1. proc \in [Processors -> Processor]
    BY StoppedType DEF Init
  <1>2. \A i \in Processors : Visits(i)
    BY DEF Init, Visits, Stopped, Idle
  <1>3. profile \in [Users -> Profile]
    BY DEF Init, Profile, Locks
  <1>4. request \in [Requests -> Request]
    BY DEF Init, Request
  <1>5. ledger \in [Users -> Int]
    BY DEF Init
  <1>6. faults \in 0..MaxFaults /\ others \in 0..MaxOthers
    BY DEF Init
  <1> QED BY <1>1, <1>2, <1>3, <1>4, <1>5, <1>6 DEF Init, TypeInv, TypeOK

\* What TypeInv says of one run.
LEMMA RunTypes ==
  ASSUME TypeInv, NEW i \in Processors
  PROVE  /\ proc[i] \in Processor /\ Visits(i)
         /\ proc \in [Processors -> Processor] /\ request \in [Requests -> Request]
         /\ profile \in [Users -> Profile]
         /\ proc[i].pc \notin Idle =>
              /\ proc[i].cur \in Requests /\ request[proc[i].cur] \in Request
              /\ user(i) \in Users /\ profile[user(i)] \in Profile
  BY DEF TypeInv, TypeOK, Visits, user

\* Nobody else takes the step.
OnlyRun(i) == \A j \in Processors : j # i => proc'[j] = proc[j]

\* The run is at p, with the same request.
MovesTo(i, p) ==
  /\ proc'[i].pc = p /\ proc'[i].cur = proc[i].cur /\ proc'[i].cas = proc[i].cas
  /\ proc'[i].lockCas = proc[i].lockCas /\ proc'[i].balance = proc[i].balance

LEMMA OneRunMoves ==
  ASSUME TypeInv, NEW i \in Processors, NEW q, proc' = [proc EXCEPT ![i] = q]
  PROVE  proc'[i] = q /\ OnlyRun(i)
  BY RunTypes DEF OnlyRun

\* It is one of ps, and its request as run i knew it.
MovesOn(i, ps) ==
  proc'[i].pc \in ps /\ proc'[i].cur = proc[i].cur /\ proc'[i].cas = proc[i].cas

LEMMA GotoEffect ==
  ASSUME TypeInv, NEW i \in Processors, NEW p, Goto(i, p)
  PROVE  MovesTo(i, p) /\ OnlyRun(i)
  <1>1. proc[i] \in Processor /\ proc \in [Processors -> Processor]
    BY RunTypes
  <1>2. proc' = [proc EXCEPT ![i] = [proc[i] EXCEPT !.pc = p]]
    BY <1>1 DEF Goto
  <1>3. proc'[i] = [proc[i] EXCEPT !.pc = p] /\ OnlyRun(i)
    BY <1>2, OneRunMoves
  <1> QED BY <1>1, <1>3 DEF Processor, MovesTo

LEMMA StopEffect ==
  ASSUME TypeInv, NEW i \in Processors, NEW p, Stop(i, p)
  PROVE  proc'[i].pc = p /\ OnlyRun(i)
  <1>1. proc'[i] = Stopped(p, Garbage) /\ OnlyRun(i)
    BY OneRunMoves DEF Stop
  <1> QED BY <1>1 DEF Stopped

LEMMA SkipUserEffect ==
  ASSUME TypeInv, NEW i \in Processors, SkipUser(i)
  PROVE  proc'[i].pc = "next" /\ OnlyRun(i)
  <1> DEFINE f == proc[i].found \cup {user(i)}
             q == [proc[i] EXCEPT !.pc = "next", !.found = f]
  <1>1. proc[i] \in Processor /\ proc \in [Processors -> Processor]
    BY RunTypes
  <1>2. proc' = [proc EXCEPT ![i] = q]
    BY <1>1 DEF SkipUser
  <1>3. proc'[i] = q /\ OnlyRun(i)
    BY <1>2, OneRunMoves
  <1> HIDE DEF f
  <1> QED BY <1>1, <1>3 DEF Processor

\* A step of run i that makes it q, and loses no request.
LEMMA RunStepTypes ==
  ASSUME TypeInv, NEW i \in Processors, NEW q \in Processor,
         proc' = [proc EXCEPT ![i] = q],
         \A r \in Requests : request[r].state # "absent" => request'[r].state # "absent",
         q.left \subseteq q.rows,
         \A r \in q.rows : request[r].state # "absent",
         q.pc \notin Idle => q.cur \in Requests /\ request[q.cur].state # "absent"
  PROVE  proc' \in [Processors -> Processor] /\ \A j \in Processors : Visits(j)'
  <1>1. proc \in [Processors -> Processor] /\ \A j \in Processors : Visits(j)
    BY RunTypes
  <1>2. proc' \in [Processors -> Processor] /\ proc'[i] = q
        /\ \A j \in Processors \ {i} : proc'[j] = proc[j]
    BY <1>1
  <1>3. q.rows \subseteq Requests
    BY DEF Processor
  <1>4. Visits(i)'
    BY <1>2, <1>3 DEF Visits
  <1>5. ASSUME NEW j \in Processors \ {i} PROVE Visits(j)'
    <2>1. Visits(j) /\ proc[j].rows \subseteq Requests
      BY <1>1 DEF Processor
    <2> QED BY <1>2, <2>1 DEF Visits
  <1> QED BY <1>2, <1>4, <1>5

\* Nobody takes a step.
LEMMA NoRunStepTypes ==
  ASSUME TypeInv, proc' = proc,
         \A r \in Requests : request[r].state # "absent" => request'[r].state # "absent"
  PROVE  proc' \in [Processors -> Processor] /\ \A j \in Processors : Visits(j)'
  <1>1. ASSUME NEW j \in Processors PROVE Visits(j)'
    <2>1. Visits(j) /\ proc[j].rows \subseteq Requests
      BY RunTypes DEF Processor
    <2> QED BY <2>1 DEF Visits
  <1> QED BY <1>1, RunTypes DEF TypeInv, TypeOK

LEMMA GotoTypes ==
  ASSUME TypeInv, NEW i \in Processors, UNCHANGED request,
         NEW p \in {"next", "waitForInput", "reply", "askOperator", "setProcessedBut",
                    "setDone"},
         proc[i].pc \in Idle => p \in Idle, Goto(i, p)
  PROVE  proc' \in [Processors -> Processor] /\ \A j \in Processors : Visits(j)'
  <1> DEFINE q == [proc[i] EXCEPT !.pc = p]
  <1>1. proc[i] \in Processor /\ Visits(i) /\ proc \in [Processors -> Processor]
    BY RunTypes
  <1>2. q \in Processor
    BY <1>1 DEF Processor
  <1>3. /\ q.left = proc[i].left /\ q.rows = proc[i].rows /\ q.cur = proc[i].cur
        /\ q.pc = p
    BY <1>1 DEF Processor
  <1>4. proc' = [proc EXCEPT ![i] = q]
    BY <1>1 DEF Goto
  <1> HIDE DEF q
  <1>5. q.pc \notin Idle => proc[i].pc \notin Idle
    BY <1>3
  <1> QED BY <1>1, <1>2, <1>3, <1>4, <1>5, RunStepTypes DEF Visits

LEMMA StopTypes ==
  ASSUME TypeInv, NEW i \in Processors, UNCHANGED request,
         NEW p \in {"stopped", "totalSystemFailure"}, Stop(i, p)
  PROVE  proc' \in [Processors -> Processor] /\ \A j \in Processors : Visits(j)'
  <1> DEFINE q == Stopped(p, Garbage)
  <1>1. q \in Processor
    BY StoppedType
  <1>2. q.left = {} /\ q.rows = {} /\ q.pc \in Idle
    BY DEF Stopped, Idle
  <1>3. proc' = [proc EXCEPT ![i] = q]
    BY DEF Stop
  <1> HIDE DEF q
  <1> QED BY <1>1, <1>2, <1>3, RunStepTypes

LEMMA SkipUserTypes ==
  ASSUME TypeInv, NEW i \in Processors, UNCHANGED request, proc[i].pc \notin Idle,
         SkipUser(i)
  PROVE  proc' \in [Processors -> Processor] /\ \A j \in Processors : Visits(j)'
  <1> DEFINE f == proc[i].found \cup {user(i)}
             q == [proc[i] EXCEPT !.pc = "next", !.found = f]
  <1>1. /\ proc[i] \in Processor /\ Visits(i) /\ proc \in [Processors -> Processor]
        /\ user(i) \in Users
    BY RunTypes
  <1>2. q \in Processor
    <2>1. f \in SUBSET Users
      BY <1>1 DEF Processor
    <2> HIDE DEF f
    <2> QED BY <1>1, <2>1 DEF Processor
  <1>3. /\ q.left = proc[i].left /\ q.rows = proc[i].rows /\ q.pc \in Idle
    BY <1>1 DEF Processor, Idle
  <1>4. proc' = [proc EXCEPT ![i] = q]
    BY <1>1 DEF SkipUser
  <1> HIDE DEF q
  <1> QED BY <1>1, <1>2, <1>3, <1>4, RunStepTypes DEF Visits

LEMMA StoreRequestTypes ==
  ASSUME TypeInv, NEW i \in Processors, proc[i].pc \notin Idle,
         NEW s \in Open \cup Done, NEW p \in {"next", "sendToAddress", "unlock", "deduct"},
         StoreRequest(i, s, p)
  PROVE  /\ proc' \in [Processors -> Processor] /\ \A j \in Processors : Visits(j)'
         /\ request' \in [Requests -> Request]
  <1> DEFINE q == [proc[i] EXCEPT !.pc = p, !.cas = @ + 1]
  <1>1. /\ proc[i] \in Processor /\ Visits(i) /\ proc \in [Processors -> Processor]
        /\ proc[i].cur \in Requests /\ request \in [Requests -> Request]
    BY RunTypes
  <1>2. CASE request[proc[i].cur].cas # proc[i].cas
    BY <1>1, <1>2, StopTypes DEF StoreRequest
  <1>3. CASE request[proc[i].cur].cas = proc[i].cas
    <2>1. q \in Processor
      <3>1. proc[i].cas \in Nat /\ proc[i].cas + 1 \in Nat
        BY <1>1 DEF Processor
      <3> DEFINE c == proc[i].cas + 1
      <3>2. q = [proc[i] EXCEPT !.pc = p, !.cas = c]
        OBVIOUS
      <3> HIDE DEF c, q
      <3>3. c \in Nat
        BY <3>1 DEF c
      <3> QED BY <1>1, <3>2, <3>3 DEF Processor
    <2>2. /\ q.left = proc[i].left /\ q.rows = proc[i].rows /\ q.cur = proc[i].cur
      BY <1>1 DEF Processor
    <2>3. proc' = [proc EXCEPT ![i] = q]
      BY <1>1, <1>3 DEF StoreRequest
    <2>4. request' = [request EXCEPT ![proc[i].cur] = [state |-> s, cas |-> @.cas + 1]]
      BY <1>3 DEF StoreRequest, SetRequest
    <2>5. request' \in [Requests -> Request]
      BY <1>1, <2>4 DEF Request
    <2>6. \A r \in Requests : request[r].state # "absent" => request'[r].state # "absent"
      BY <1>1, <2>4 DEF Open, Done
    <2> HIDE DEF q
    <2> QED BY <1>1, <2>1, <2>2, <2>3, <2>5, <2>6, RunStepTypes DEF Visits
  <1> QED BY <1>2, <1>3

LEMMA SetProfileTypes ==
  ASSUME TypeInv, NEW v \in Users, NEW b \in Int, NEW l \in Locks, SetProfile(v, b, l)
  PROVE  profile' \in [Users -> Profile]
  BY DEF SetProfile, TypeInv, TypeOK, Profile

\* A step that changes fields of run i other than its rows.
LEMMA RunFieldsTypes ==
  ASSUME TypeInv, NEW i \in Processors, UNCHANGED request, NEW q \in Processor,
         proc' = [proc EXCEPT ![i] = q], q.rows = proc[i].rows,
         q.left \subseteq proc[i].rows,
         q.pc \notin Idle => q.cur \in Requests /\ request[q.cur].state # "absent"
  PROVE  proc' \in [Processors -> Processor] /\ \A j \in Processors : Visits(j)'
  BY RunTypes, RunStepTypes DEF Visits

\* The steps of a run that store nothing.
LEMMA BrowseTypes ==
  ASSUME TypeInv, NEW i \in Processors,
         \/ processNextWithdrawalRequest(i) \/ proceedOntoExecutionIteration(i) \/ Quit(i)
         \/ Crash(i) \/ GetRequest(i) \/ Reply(i) \/ ReplyLost(i) \/ AskOperator(i)
         \/ \E rows \in SUBSET Requests : processWithdrawalRequests(i, rows)
  PROVE  proc' \in [Processors -> Processor] /\ \A j \in Processors : Visits(j)'
  <1>1. /\ proc[i] \in Processor /\ Visits(i) /\ proc \in [Processors -> Processor]
    BY RunTypes
  <1>2. UNCHANGED request
    BY DEF processNextWithdrawalRequest, proceedOntoExecutionIteration, Quit, Crash,
           GetRequest, Reply, ReplyLost, AskOperator, processWithdrawalRequests, docs
  <1>3. CASE processNextWithdrawalRequest(i)
    <2>1. proc[i].pc = "next"
      BY <1>3 DEF processNextWithdrawalRequest
    <2>2. ASSUME NEW r \in proc[i].left,
                 proc' = [proc EXCEPT ![i].pc = "getRequest", ![i].cur = r, ![i].left = @ \ {r}]
          PROVE  proc' \in [Processors -> Processor] /\ \A j \in Processors : Visits(j)'
      <3> DEFINE l == proc[i].left \ {r}
                 q == [proc[i] EXCEPT !.pc = "getRequest", !.cur = r, !.left = l]
      <3>1. r \in Requests /\ r \in proc[i].rows /\ l \in SUBSET Requests
            /\ l \subseteq proc[i].rows
        BY <1>1, <2>2 DEF Visits, Processor
      <3>2. proc' = [proc EXCEPT ![i] = q]
        BY <1>1, <2>2
      <3> HIDE DEF l
      <3>3. /\ q \in Processor /\ q.rows = proc[i].rows /\ q.left = l /\ q.cur = r
        BY <1>1, <3>1 DEF Processor
      <3>4. request[r].state # "absent"
        BY <1>1, <3>1 DEF Visits
      <3> HIDE DEF q
      <3> QED BY <1>2, <3>1, <3>2, <3>3, <3>4, RunFieldsTypes
    <2>3. CASE proc[i].left = {}
      BY <1>2, <1>3, <2>1, <2>3, GotoTypes, StopTypes DEF processNextWithdrawalRequest, Idle
    <2> QED BY <1>3, <2>2, <2>3 DEF processNextWithdrawalRequest
  <1>4. CASE proceedOntoExecutionIteration(i)
    <2> DEFINE q == [proc[i] EXCEPT !.pc = "next", !.mode = "execute", !.left = proc[i].rows]
    <2>1. proc' = [proc EXCEPT ![i] = q]
      BY <1>1, <1>4 DEF proceedOntoExecutionIteration
    <2>2. q \in Processor /\ q.rows = proc[i].rows /\ q.left = proc[i].rows /\ q.pc \in Idle
      BY <1>1 DEF Processor, Idle
    <2> HIDE DEF q
    <2> QED BY <1>2, <2>1, <2>2, RunFieldsTypes
  <1>5. CASE Quit(i) \/ Crash(i)
    BY <1>2, <1>5, StopTypes DEF Quit, Crash
  <1>6. CASE GetRequest(i)
    <2>1. proc[i].pc \notin Idle
      BY <1>6 DEF GetRequest, Idle
    <2>2. CASE Goto(i, "next")
      BY <1>2, <2>1, <2>2, GotoTypes
    <2> DEFINE z == request[proc[i].cur]
               q == [proc[i] EXCEPT !.pc = "getProfile", !.state = z.state, !.cas = z.cas]
    <2>3. CASE z.state \notin Done /\ proc' = [proc EXCEPT ![i] = q]
      <3>1. z \in Request /\ z.state # "absent"
        BY <1>1, <2>1, RunTypes DEF Visits
      <3>2. z.state \in Open /\ z.cas \in Nat
        BY <2>3, <3>1 DEF Request
      <3> HIDE DEF z
      <3>3. /\ q \in Processor /\ q.rows = proc[i].rows /\ q.left = proc[i].left
            /\ q.cur = proc[i].cur
        BY <1>1, <3>2 DEF Processor
      <3> HIDE DEF q
      <3> QED BY <1>1, <1>2, <2>1, <2>3, <3>3, RunFieldsTypes DEF Visits
    <2>4. GetRequest(i) => \/ Goto(i, "next")
                           \/ z.state \notin Done /\ proc' = [proc EXCEPT ![i] = q]
      BY <1>1 DEF GetRequest
    <2> QED BY <1>6, <2>2, <2>3, <2>4
  <1>7. CASE Reply(i) \/ ReplyLost(i)
    BY <1>2, <1>7, GotoTypes DEF Reply, ReplyLost, Idle
  <1>8. CASE AskOperator(i)
    <2>1. PICK c \in BOOLEAN, p \in {"revert", "setBitcoindReturnedError"} :
            proc' = [proc EXCEPT ![i].pc = p, ![i].proceed = c]
      BY <1>8 DEF AskOperator
    <2> DEFINE q == [proc[i] EXCEPT !.pc = p, !.proceed = c]
    <2>2. proc' = [proc EXCEPT ![i] = q]
      BY <1>1, <2>1
    <2>3. proc[i].pc \notin Idle
      BY <1>8 DEF AskOperator, Idle
    <2>4. /\ q \in Processor /\ q.rows = proc[i].rows /\ q.left = proc[i].left
          /\ q.cur = proc[i].cur
      BY <1>1 DEF Processor
    <2> HIDE DEF q
    <2> QED BY <1>1, <1>2, <2>2, <2>3, <2>4, RunFieldsTypes DEF Visits
  <1>9. CASE \E rows \in SUBSET Requests : processWithdrawalRequests(i, rows)
    <2>1. PICK rows \in SUBSET Requests, g \in {0, Garbage} :
            /\ \A r \in rows : request[r].state # "absent"
            /\ proc' = [proc EXCEPT
                 ![i] = [Stopped("next", g) EXCEPT !.rows = rows, !.left = rows]]
      BY <1>9 DEF processWithdrawalRequests
    <2> DEFINE q == [Stopped("next", g) EXCEPT !.rows = rows, !.left = rows]
    <2>2. Stopped("next", g) \in Processor /\ Stopped("next", g).pc = "next"
      BY StoppedType DEF Stopped
    <2>3. q \in Processor /\ q.rows = rows /\ q.left = rows /\ q.pc \in Idle
      BY <2>2 DEF Processor, Idle
    <2> HIDE DEF q
    <2> QED BY <1>2, <2>1, <2>3, RunStepTypes DEF q
  <1> QED BY <1>3, <1>4, <1>5, <1>6, <1>7, <1>8, <1>9

\* Where run i, having read profile a, may go.
ReadsProfile(i, a) ==
  \/ proc'[i].pc \in Idle
  \/ /\ MovesOn(i, {"deduct", "setDone"})
     /\ proc[i].state = Paid
  \/ /\ MovesOn(i, {"setInsufficientFunds"})
     /\ proc[i].state = "unprocessed"
  \/ /\ MovesOn(i, {"lockProfile"})
     /\ proc[i].state = "unprocessed" /\ a.lock = "none"
     /\ proc'[i].balance = a.balance /\ proc'[i].profileCas = a.cas
     /\ a.balance >= Total(proc[i].cur)

LEMMA GetProfileEffect ==
  ASSUME TypeInv, NEW i \in Processors, GetProfile(i)
  PROVE  /\ proc' \in [Processors -> Processor] /\ \A j \in Processors : Visits(j)'
         /\ ReadsProfile(i, profile[user(i)]) /\ OnlyRun(i)
  <1> DEFINE a == profile[user(i)]
  <1>1. /\ proc[i].pc = "getProfile" /\ proc[i].pc \notin Idle /\ UNCHANGED request
        /\ FoundProcessing(i, a) \/ FoundProcessedBut(i, a) \/ FoundUnprocessed(i, a)
    BY DEF GetProfile, Idle, docs
  <1>2. /\ proc[i] \in Processor /\ Visits(i) /\ proc \in [Processors -> Processor]
        /\ a \in Profile /\ user(i) \in Users /\ proc[i].cur \in Requests
    BY <1>1, RunTypes
  <1>3. proc[i].rolling \in [Users -> Int] /\ Rolling(i, a) \in Int
    <2>1. proc[i].rolling \in [Users -> Int]
      BY <1>2 DEF Processor
    <2>2. a.balance \in Int
      BY <1>2 DEF Profile
    <2>3. Total(proc[i].cur) \in Int
      BY <1>2, TotalIsInt
    <2> HIDE DEF a
    <2> QED BY <1>2, <2>1, <2>2, <2>3 DEF Rolling
  <1>4. a.balance \in Int /\ a.cas \in Nat /\ a.lock \in Locks
    BY <1>2 DEF Profile
  <1> HIDE DEF a
  \* It keeps its request, and what it was to visit.
  <1>5. ASSUME NEW q \in Processor, proc' = [proc EXCEPT ![i] = q],
               q.rows = proc[i].rows, q.left = proc[i].left, q.cur = proc[i].cur
        PROVE  /\ proc' \in [Processors -> Processor] /\ \A j \in Processors : Visits(j)'
               /\ proc'[i] = q /\ OnlyRun(i)
    BY <1>1, <1>2, <1>5, RunFieldsTypes, OneRunMoves DEF Visits
  <1>6. CASE FoundProcessing(i, a)
    <2>1. Stop(i, "totalSystemFailure") \/ SkipUser(i)
      BY <1>6 DEF FoundProcessing
    <2> QED BY <1>1, <2>1, StopTypes, SkipUserTypes, StopEffect, SkipUserEffect
            DEF ReadsProfile, Idle
  <1>7. CASE FoundProcessedBut(i, a)
    <2> DEFINE o == IF proc[i].mode = "calculate"
                      THEN [proc[i].rolling EXCEPT ![user(i)] = Rolling(i, a)]
                      ELSE proc[i].rolling
               g == IF proc[i].lockCas = 0 THEN 0 ELSE Garbage
               q == [proc[i] EXCEPT !.pc = "deduct", !.balance = a.balance, !.lock = a.lock,
                       !.rolling = o, !.lockCas = g]
    <2>1. \/ Goto(i, "setDone")
          \/ Stop(i, "totalSystemFailure")
          \/ proc' = [proc EXCEPT ![i].pc = "deduct", ![i].balance = a.balance,
                        ![i].lock = a.lock, ![i].rolling = o, ![i].lockCas = g]
      BY <1>7 DEF FoundProcessedBut
    <2>2. CASE Goto(i, "setDone")
      BY <1>1, <1>7, <2>2, GotoTypes, GotoEffect
         DEF ReadsProfile, MovesTo, MovesOn, FoundProcessedBut, Paid
    <2>3. CASE Stop(i, "totalSystemFailure")
      BY <1>1, <2>3, StopTypes, StopEffect DEF ReadsProfile, Idle
    <2>4. CASE proc' = [proc EXCEPT ![i].pc = "deduct", ![i].balance = a.balance,
                          ![i].lock = a.lock, ![i].rolling = o, ![i].lockCas = g]
      <3>1. proc' = [proc EXCEPT ![i] = q]
        <4> HIDE DEF o, g
        <4> QED BY <1>2, <2>4
      <3>2. o \in [Users -> Int \cup {None}]
        BY <1>2, <1>3
      <3>3. g \in Nat \cup {Garbage}
        OBVIOUS
      <3> HIDE DEF o, g
      <3>4. q \in Processor /\ q.rows = proc[i].rows /\ q.left = proc[i].left
            /\ q.cur = proc[i].cur /\ q.cas = proc[i].cas /\ q.pc = "deduct"
        BY <1>2, <1>4, <3>2, <3>3 DEF Processor
      <3> HIDE DEF q
      <3> QED BY <1>5, <1>7, <3>1, <3>4 DEF ReadsProfile, MovesOn, FoundProcessedBut, Paid
    <2> QED BY <2>1, <2>2, <2>3, <2>4
  <1>8. CASE FoundUnprocessed(i, a)
    <2> DEFINE o == [proc[i].rolling EXCEPT ![user(i)] =
                       IF Rolling(i, a) < 0 THEN proc[i].rolling[user(i)] ELSE Rolling(i, a)]
               p == IF SufficientFunds(i, a) THEN "lockProfile" ELSE "setInsufficientFunds"
               qNext == [proc[i] EXCEPT !.pc = "next", !.rolling = o]
               qLock == [proc[i] EXCEPT !.balance = a.balance, !.lock = a.lock,
                        !.profileCas = a.cas, !.pc = p]
    <2>1. \/ SkipUser(i)
          \/ proc' = [proc EXCEPT ![i] = qNext]
          \/ a.lock = "none" /\ proc' = [proc EXCEPT ![i] = qLock]
      <3>1. CASE a.lock # "none"
        BY <1>8, <3>1 DEF FoundUnprocessed
      <3>2. CASE a.lock = "none" /\ proc[i].mode = "calculate"
        <4>1. proc' = [proc EXCEPT ![i].pc = "next",
                ![i].rolling[user(i)] = IF Rolling(i, a) < 0 THEN @ ELSE Rolling(i, a)]
          BY <1>8, <3>2 DEF FoundUnprocessed
        <4>2. proc' = [proc EXCEPT ![i] = [proc[i] EXCEPT !.pc = "next",
                !.rolling[user(i)] = IF Rolling(i, a) < 0 THEN @ ELSE Rolling(i, a)]]
          BY <1>2, <4>1
        <4>3. o = [proc[i].rolling EXCEPT ![user(i)] =
                     IF Rolling(i, a) < 0 THEN @ ELSE Rolling(i, a)]
          BY <1>2, <1>3
        <4> QED BY <1>2, <4>2, <4>3 DEF Processor
      <3>3. CASE a.lock = "none" /\ proc[i].mode # "calculate"
        <4>1. proc' = [proc EXCEPT
                ![i].balance = a.balance, ![i].lock = a.lock, ![i].profileCas = a.cas,
                ![i].pc = IF SufficientFunds(i, a) THEN "lockProfile"
                                                   ELSE "setInsufficientFunds"]
          BY <1>8, <3>3 DEF FoundUnprocessed
        <4> QED BY <1>2, <3>3, <4>1
      <3> QED BY <3>1, <3>2, <3>3
    <2>2. CASE SkipUser(i)
      BY <1>1, <2>2, SkipUserTypes, SkipUserEffect DEF ReadsProfile, Idle
    <2>3. o \in [Users -> Int \cup {None}]
      BY <1>2, <1>3
    <2>4. p = "setInsufficientFunds" \/ (p = "lockProfile" /\ a.balance >= Total(proc[i].cur))
      BY DEF SufficientFunds
    <2> HIDE DEF o, p
    <2>5. qNext \in Processor /\ qNext.rows = proc[i].rows /\ qNext.left = proc[i].left
          /\ qNext.cur = proc[i].cur /\ qNext.pc \in Idle
      BY <1>2, <2>3 DEF Processor, Idle
    <2>6. qLock \in Processor /\ qLock.rows = proc[i].rows /\ qLock.left = proc[i].left
          /\ qLock.cur = proc[i].cur /\ qLock.cas = proc[i].cas /\ qLock.pc = p
          /\ qLock.balance = a.balance /\ qLock.profileCas = a.cas
      BY <1>2, <1>4, <2>4 DEF Processor
    <2> HIDE DEF qNext, qLock
    <2>7. proc[i].state = "unprocessed"
      BY <1>8 DEF FoundUnprocessed
    <2>8. CASE proc' = [proc EXCEPT ![i] = qNext]
      BY <1>5, <2>5, <2>8 DEF ReadsProfile
    <2>9. CASE a.lock = "none" /\ proc' = [proc EXCEPT ![i] = qLock]
      <3>1. /\ proc' \in [Processors -> Processor] /\ \A j \in Processors : Visits(j)'
            /\ proc'[i] = qLock /\ OnlyRun(i)
        BY <1>5, <2>6, <2>9
      <3>2. ReadsProfile(i, a)
        BY <2>4, <2>6, <2>7, <2>9, <3>1 DEF ReadsProfile, MovesOn
      <3> QED BY <3>1, <3>2 DEF a
    <2> QED BY <2>1, <2>2, <2>8, <2>9
  <1> QED BY <1>1, <1>6, <1>7, <1>8 DEF a

\* Locked, under the CAS it was read with, or skipped.
LocksOrSkips(i) ==
  \/ /\ profile[user(i)].cas = proc[i].profileCas
     /\ SetProfile(user(i), proc[i].balance, proc[i].cur)
     /\ MovesOn(i, {"setProcessing"}) /\ proc'[i].lockCas = proc[i].profileCas + 1
     /\ proc'[i].balance = proc[i].balance
  \/ proc'[i].pc = "next" /\ UNCHANGED profile

LEMMA LockProfileEffect ==
  ASSUME TypeInv, NEW i \in Processors, LockProfile(i)
  PROVE  /\ proc' \in [Processors -> Processor] /\ \A j \in Processors : Visits(j)'
         /\ profile' \in [Users -> Profile]
         /\ LocksOrSkips(i) /\ OnlyRun(i)
  <1>1. proc[i].pc \notin Idle /\ UNCHANGED request
    BY DEF LockProfile, Idle
  <1>2. /\ proc[i] \in Processor /\ Visits(i) /\ proc \in [Processors -> Processor]
        /\ user(i) \in Users /\ proc[i].cur \in Requests
    BY <1>1, RunTypes
  <1>3. proc[i].balance \in Int /\ proc[i].profileCas \in Nat /\ proc[i].cur \in Locks
    BY <1>2 DEF Processor, Locks
  <1>4. CASE profile[user(i)].cas = proc[i].profileCas
    <2> DEFINE c == proc[i].profileCas + 1
               q == [proc[i] EXCEPT !.pc = "setProcessing", !.lockCas = c]
    <2>1. SetProfile(user(i), proc[i].balance, proc[i].cur)
      BY <1>4 DEF LockProfile
    <2>2. profile' \in [Users -> Profile]
      BY <1>2, <1>3, <2>1, SetProfileTypes
    <2>3. c \in Nat /\ proc' = [proc EXCEPT ![i].pc = "setProcessing", ![i].lockCas = c]
      BY <1>3, <1>4 DEF LockProfile
    <2> HIDE DEF c
    <2>4. proc' = [proc EXCEPT ![i] = q]
      BY <1>2, <2>3
    <2>5. q \in Processor /\ q.rows = proc[i].rows /\ q.left = proc[i].left
          /\ q.cur = proc[i].cur /\ q.cas = proc[i].cas /\ q.pc = "setProcessing"
          /\ q.lockCas = c /\ q.balance = proc[i].balance
      BY <1>2, <2>3 DEF Processor
    <2> HIDE DEF q
    <2>6. proc'[i] = q /\ OnlyRun(i)
      BY <2>4, OneRunMoves
    <2>7. LocksOrSkips(i)
      BY <1>4, <2>1, <2>5, <2>6 DEF LocksOrSkips, MovesOn, c
    <2> QED BY <1>1, <1>2, <2>2, <2>4, <2>5, <2>6, <2>7, RunFieldsTypes DEF Visits
  <1>5. CASE profile[user(i)].cas # proc[i].profileCas
    <2>1. SkipUser(i) /\ UNCHANGED profile
      BY <1>5 DEF LockProfile
    <2> QED BY <1>1, <2>1, SkipUserTypes, SkipUserEffect, RunTypes DEF LocksOrSkips
  <1> QED BY <1>4, <1>5

\* The two steps that release a profile.
LEMMA ReleaseTypes ==
  ASSUME TypeInv, NEW i \in Processors, UnlockWithoutDebitting(i) \/ DeductAndUnlock(i)
  PROVE  /\ proc' \in [Processors -> Processor] /\ \A j \in Processors : Visits(j)'
         /\ profile' \in [Users -> Profile] /\ deducts' \in [Requests -> Nat]
  <1>1. proc[i].pc \notin Idle /\ UNCHANGED request
    BY DEF UnlockWithoutDebitting, DeductAndUnlock, Idle
  <1>2. /\ proc[i] \in Processor /\ user(i) \in Users /\ proc[i].cur \in Requests
        /\ profile \in [Users -> Profile] /\ deducts \in [Requests -> Nat]
    BY <1>1, RunTypes DEF TypeInv, TypeOK
  <1>3. proc[i].balance \in Int /\ Unlocked(i) \in Locks /\ Total(proc[i].cur) \in Int
    BY <1>2, TotalIsInt DEF Processor, Unlocked, Locks
  <1>4. CASE UnlockWithoutDebitting(i)
    <2>1. deducts' = deducts
      BY <1>4 DEF UnlockWithoutDebitting, hist
    <2>2. profile' \in [Users -> Profile]
      BY <1>2, <1>3, <1>4, SetProfileTypes DEF UnlockWithoutDebitting
    <2>3. Goto(i, "next") \/ Stop(i, "stopped")
      BY <1>4 DEF UnlockWithoutDebitting
    <2> QED BY <1>1, <1>2, <2>1, <2>2, <2>3, GotoTypes, StopTypes
  <1>5. CASE DeductAndUnlock(i)
    <2>1. deducts' = deducts \/ deducts' = [deducts EXCEPT ![proc[i].cur] = @ + 1]
      BY <1>5 DEF DeductAndUnlock
    <2>2. proc[i].balance - Total(proc[i].cur) \in Int
      BY <1>3
    <2>3. profile' \in [Users -> Profile]
      BY <1>2, <1>3, <1>5, <2>2, SetProfileTypes DEF DeductAndUnlock
    <2>4. Goto(i, "setDone") \/ Stop(i, "stopped")
      BY <1>5 DEF DeductAndUnlock
    <2> QED BY <1>1, <1>2, <2>1, <2>3, <2>4, GotoTypes, StopTypes
  <1> QED BY <1>4, <1>5

\* The steps that store the current request.
LEMMA StoreTypes ==
  ASSUME TypeInv, NEW i \in Processors,
         \/ SetInsufficientFunds(i) \/ SetProcessing(i) \/ Revert(i)
         \/ SetBitcoindReturnedError(i) \/ SetProcessedBut(i) \/ SetDone(i)
  PROVE  /\ proc' \in [Processors -> Processor] /\ \A j \in Processors : Visits(j)'
         /\ request' \in [Requests -> Request]
  <1>1. proc[i].pc \notin Idle
    BY DEF SetInsufficientFunds, SetProcessing, Revert, SetBitcoindReturnedError,
           SetProcessedBut, SetDone, Idle
  <1>2. PICK s \in Open \cup Done, p \in {"next", "sendToAddress", "unlock", "deduct"} :
          StoreRequest(i, s, p)
    BY DEF SetInsufficientFunds, SetProcessing, Revert, SetBitcoindReturnedError,
           SetProcessedBut, SetDone, Open, Done
  <1> QED BY <1>1, <1>2, StoreRequestTypes

LEMMA SendToAddressTypes ==
  ASSUME TypeInv, NEW i \in Processors, SendToAddress(i)
  PROVE  /\ proc' \in [Processors -> Processor] /\ \A j \in Processors : Visits(j)'
         /\ paid' \in [Requests -> Nat]
  <1>1. proc[i].pc \notin Idle /\ UNCHANGED request
    BY DEF SendToAddress, docs, Idle
  <1>2. paid \in [Requests -> Nat] /\ proc[i].cur \in Requests
    BY <1>1, RunTypes DEF TypeInv, TypeOK
  <1>3. paid' = paid \/ paid' = [paid EXCEPT ![proc[i].cur] = @ + 1]
    BY DEF SendToAddress
  <1>4. Goto(i, "reply") \/ Goto(i, "askOperator")
    BY DEF SendToAddress
  <1> QED BY <1>1, <1>2, <1>3, <1>4, GotoTypes

LEMMA ScheduleTypes ==
  ASSUME TypeInv, NEW r \in Requests, Schedule(r)
  PROVE  /\ proc' \in [Processors -> Processor] /\ \A j \in Processors : Visits(j)'
         /\ request' \in [Requests -> Request]
  <1>1. request' = [request EXCEPT ![r] = [state |-> "unprocessed", cas |-> @.cas + 1]]
    BY DEF Schedule, SetRequest
  <1>2. request \in [Requests -> Request]
    BY DEF TypeInv, TypeOK
  <1>3. request' \in [Requests -> Request]
    BY <1>1, <1>2 DEF Request, Open
  <1>4. \A q \in Requests : request[q].state # "absent" => request'[q].state # "absent"
    BY <1>1, <1>2
  <1>5. proc' = proc
    BY DEF Schedule
  <1> QED BY <1>3, <1>4, <1>5, NoRunStepTypes

LEMMA OthersTypes ==
  ASSUME TypeInv, NEW v \in Users, OtherLock(v) \/ OtherUnlock(v) \/ AddFunds(v)
  PROVE  profile' \in [Users -> Profile] /\ ledger' \in [Users -> Int]
  <1>1. profile[v] \in Profile /\ ledger \in [Users -> Int]
    BY DEF TypeInv, TypeOK
  <1>2. profile[v].balance \in Int /\ {"none", "other"} \subseteq Locks
    BY <1>1 DEF Profile, Locks
  <1>3. CASE OtherLock(v)
    <2>1. SetProfile(v, profile[v].balance, "other") /\ ledger' = ledger
      BY <1>3 DEF OtherLock, hist
    <2> QED BY <1>1, <1>2, <2>1, SetProfileTypes
  <1>4. CASE OtherUnlock(v) \/ AddFunds(v)
    <2>1. PICK d \in OtherAmounts : Change(v, d)
      BY <1>4 DEF OtherUnlock, AddFunds
    <2>2. d \in Int /\ profile[v].balance + d \in Int
      BY <1>2
    <2>3. SetProfile(v, profile[v].balance + d, "none") /\ ledger' = [ledger EXCEPT ![v] = @ + d]
      BY <2>1 DEF Change
    <2>4. ledger' \in [Users -> Int]
      BY <1>1, <2>2, <2>3
    <2> QED BY <1>2, <2>2, <2>3, <2>4, SetProfileTypes
  <1> QED BY <1>3, <1>4

\* The steps of a run by the documents they change.
Browse(i) ==
  \/ processNextWithdrawalRequest(i) \/ proceedOntoExecutionIteration(i) \/ Quit(i)
  \/ Crash(i) \/ GetRequest(i) \/ Reply(i) \/ ReplyLost(i) \/ AskOperator(i)
  \/ \E rows \in SUBSET Requests : processWithdrawalRequests(i, rows)

StoresRequest(i) ==
  \/ SetInsufficientFunds(i) \/ SetProcessing(i) \/ Revert(i)
  \/ SetBitcoindReturnedError(i) \/ SetProcessedBut(i) \/ SetDone(i)

Run(i) ==
  \/ Browse(i) \/ GetProfile(i) \/ LockProfile(i) \/ StoresRequest(i)
  \/ SendToAddress(i) \/ UnlockWithoutDebitting(i) \/ DeductAndUnlock(i)

Others(v) == OtherLock(v) \/ OtherUnlock(v) \/ AddFunds(v)

LEMMA NextIsSomeones ==
  Next <=> \/ \E i \in Processors : Run(i)
           \/ \E r \in Requests : Schedule(r)
           \/ \E v \in Users : Others(v)
  BY Zenon DEF Next, Step, Run, Browse, StoresRequest, Others

LEMMA NextTypeInv == TypeInv /\ [Next]_vars => TypeInv'
  <1> SUFFICES ASSUME TypeInv, [Next]_vars PROVE TypeInv'
    OBVIOUS
  <1>1. /\ profile \in [Users -> Profile] /\ request \in [Requests -> Request]
        /\ proc \in [Processors -> Processor] /\ paid \in [Requests -> Nat]
        /\ faults \in 0..MaxFaults /\ others \in 0..MaxOthers
        /\ deducts \in [Requests -> Nat] /\ reverted \in [Requests -> Nat]
        /\ ledger \in [Users -> Int] /\ resumed \in BOOLEAN
    BY DEF TypeInv, TypeOK
  <1>2. CASE UNCHANGED vars
    <2>1. /\ \A j \in Processors : Visits(j)'
      BY <1>2, NoRunStepTypes DEF vars
    <2> QED BY <1>1, <1>2, <2>1 DEF TypeInv, TypeOK, vars
  <1>3. ASSUME NEW i \in Processors, Browse(i) PROVE TypeInv'
    <2>1. /\ proc' \in [Processors -> Processor] /\ \A j \in Processors : Visits(j)'
      BY <1>3, BrowseTypes DEF Browse
    <2>2. /\ UNCHANGED <<docs, paid, others, hist>>
          /\ faults' = faults \/ (faults > 0 /\ faults' = faults - 1)
      <3>1. CASE Crash(i) \/ ReplyLost(i)
        BY <3>1 DEF Crash, ReplyLost
      <3>2. CASE UNCHANGED <<docs, paid, bound, hist>>
        BY <3>2 DEF bound
      <3> QED BY <1>3, <3>1, <3>2 DEF Browse, processNextWithdrawalRequest,
           proceedOntoExecutionIteration, Quit, GetRequest, Reply, AskOperator,
           processWithdrawalRequests
    <2>3. faults' \in 0..MaxFaults
      BY <1>1, <2>2
    <2> QED BY <1>1, <2>1, <2>2, <2>3 DEF TypeInv, TypeOK, docs, hist
  <1>4. ASSUME NEW i \in Processors, GetProfile(i) PROVE TypeInv'
    <2>1. /\ proc' \in [Processors -> Processor] /\ \A j \in Processors : Visits(j)'
      BY <1>4, GetProfileEffect
    <2>2. UNCHANGED <<docs, paid, bound, deducts, reverted, ledger>> /\ resumed' \in BOOLEAN
      BY <1>4 DEF GetProfile
    <2> QED BY <1>1, <2>1, <2>2 DEF TypeInv, TypeOK, docs, bound
  <1>5. ASSUME NEW i \in Processors, LockProfile(i) PROVE TypeInv'
    <2>1. /\ proc' \in [Processors -> Processor] /\ \A j \in Processors : Visits(j)'
          /\ profile' \in [Users -> Profile]
      BY <1>5, LockProfileEffect
    <2>2. UNCHANGED <<request, paid, bound, hist>>
      BY <1>5 DEF LockProfile
    <2> QED BY <1>1, <2>1, <2>2 DEF TypeInv, TypeOK, bound, hist
  <1>6. ASSUME NEW i \in Processors, StoresRequest(i) PROVE TypeInv'
    <2>1. /\ proc' \in [Processors -> Processor] /\ \A j \in Processors : Visits(j)'
          /\ request' \in [Requests -> Request]
      BY <1>6, StoreTypes DEF StoresRequest
    <2>2. reverted' \in [Requests -> Nat]
      <3>1. UNCHANGED reverted \/ reverted' = [reverted EXCEPT ![proc[i].cur] = @ + 1]
        BY <1>6 DEF StoresRequest, SetInsufficientFunds, SetProcessing, Revert,
           SetBitcoindReturnedError, SetProcessedBut, SetDone, hist
      <3> QED BY <1>1, <3>1
    <2>3. UNCHANGED <<profile, paid, bound, deducts, ledger, resumed>>
      BY <1>6 DEF StoresRequest, SetInsufficientFunds, SetProcessing, Revert,
         SetBitcoindReturnedError, SetProcessedBut, SetDone, hist
    <2> QED BY <1>1, <2>1, <2>2, <2>3 DEF TypeInv, TypeOK, bound
  <1>7. ASSUME NEW i \in Processors, SendToAddress(i) PROVE TypeInv'
    <2>1. /\ proc' \in [Processors -> Processor] /\ \A j \in Processors : Visits(j)'
          /\ paid' \in [Requests -> Nat]
      BY <1>7, SendToAddressTypes
    <2>2. UNCHANGED <<docs, bound, hist>>
      BY <1>7 DEF SendToAddress
    <2> QED BY <1>1, <2>1, <2>2 DEF TypeInv, TypeOK, docs, bound, hist
  <1>8. ASSUME NEW i \in Processors, UnlockWithoutDebitting(i) \/ DeductAndUnlock(i)
        PROVE  TypeInv'
    <2>1. /\ proc' \in [Processors -> Processor] /\ \A j \in Processors : Visits(j)'
          /\ profile' \in [Users -> Profile] /\ deducts' \in [Requests -> Nat]
      BY <1>8, ReleaseTypes
    <2>2. UNCHANGED <<request, paid, bound, reverted, ledger, resumed>>
      BY <1>8 DEF UnlockWithoutDebitting, DeductAndUnlock, hist
    <2> QED BY <1>1, <2>1, <2>2 DEF TypeInv, TypeOK, bound
  <1>9. ASSUME NEW r \in Requests, Schedule(r) PROVE TypeInv'
    <2>1. /\ proc' \in [Processors -> Processor] /\ \A j \in Processors : Visits(j)'
          /\ request' \in [Requests -> Request]
      BY <1>9, ScheduleTypes
    <2>2. UNCHANGED <<profile, paid, bound, hist>>
      BY <1>9 DEF Schedule
    <2> QED BY <1>1, <2>1, <2>2 DEF TypeInv, TypeOK, bound, hist
  <1>10. ASSUME NEW v \in Users, Others(v) PROVE TypeInv'
    <2>1. profile' \in [Users -> Profile] /\ ledger' \in [Users -> Int]
      BY <1>10, OthersTypes DEF Others
    <2>2. /\ UNCHANGED <<request, proc, paid, faults, deducts, reverted, resumed>>
          /\ others' = others \/ (others > 0 /\ others' = others - 1)
      <3>1. CASE OtherLock(v)
        BY <3>1 DEF OtherLock, hist
      <3>2. CASE OtherUnlock(v)
        BY <3>2 DEF OtherUnlock, bound
      <3>3. CASE AddFunds(v)
        BY <3>3 DEF AddFunds
      <3> QED BY <1>10, <3>1, <3>2, <3>3 DEF Others
    <2>3. \A j \in Processors : Visits(j)'
      BY <2>2, NoRunStepTypes
    <2>4. others' \in 0..MaxOthers
      BY <1>1, <2>2
    <2> QED BY <1>1, <2>1, <2>2, <2>3, <2>4 DEF TypeInv, TypeOK
  <1> QED BY <1>2, <1>3, <1>4, <1>5, <1>6, <1>7, <1>8, <1>9, <1>10, NextIsSomeones DEF Run

\* Every variable keeps its type, whatever the runs, the operator and
\* bitcoind do.
THEOREM TypeCorrect == Spec => []TypeOK
  <1>1. TypeInv => TypeOK
    BY DEF TypeInv
  <1> QED BY <1>1, InitTypeInv, NextTypeInv, PTL DEF Spec

-----------------------------------------------------------------------------
(* What each step does to its run.                                          *)

\* Stored, under the CAS last read or stored, or not and the run is over.
Stores(i, s, p) ==
  \/ /\ IsCurrent(i)
     /\ request' = [request EXCEPT ![proc[i].cur] = [state |-> s, cas |-> @.cas + 1]]
     /\ proc'[i].pc = p /\ proc'[i].cur = proc[i].cur /\ proc'[i].cas = proc[i].cas + 1
     /\ proc'[i].lockCas = proc[i].lockCas /\ proc'[i].balance = proc[i].balance
  \/ ~IsCurrent(i) /\ proc'[i].pc = "stopped" /\ UNCHANGED request

LEMMA StoreRequestEffect ==
  ASSUME TypeInv, NEW i \in Processors, NEW s, NEW p, StoreRequest(i, s, p)
  PROVE  Stores(i, s, p) /\ OnlyRun(i)
  <1>1. proc[i] \in Processor /\ proc \in [Processors -> Processor]
    BY RunTypes
  <1>2. CASE IsCurrent(i)
    <2> DEFINE c == proc[i].cas + 1
               q == [proc[i] EXCEPT !.pc = p, !.cas = c]
    <2>1. /\ request' = [request EXCEPT ![proc[i].cur] = [state |-> s, cas |-> @.cas + 1]]
          /\ proc' = [proc EXCEPT ![i].pc = p, ![i].cas = c]
      BY <1>1, <1>2 DEF StoreRequest, SetRequest, IsCurrent
    <2> HIDE DEF c
    <2>2. proc' = [proc EXCEPT ![i] = q]
      BY <1>1, <2>1
    <2>3. proc'[i] = q /\ OnlyRun(i)
      BY <2>2, OneRunMoves
    <2>4. /\ q.pc = p /\ q.cas = c /\ q.cur = proc[i].cur /\ q.lockCas = proc[i].lockCas
          /\ q.balance = proc[i].balance
      BY <1>1 DEF Processor
    <2> HIDE DEF q
    <2> QED BY <1>2, <2>1, <2>3, <2>4 DEF Stores, c
  <1>3. CASE ~IsCurrent(i)
    BY <1>3, StopEffect DEF StoreRequest, IsCurrent, Stores
  <1> QED BY <1>2, <1>3

LEMMA GetRequestEffect ==
  ASSUME TypeInv, NEW i \in Processors, GetRequest(i)
  PROVE  /\ OnlyRun(i)
         /\ \/ proc'[i].pc = "next"
            \/ /\ proc'[i].pc = "getProfile" /\ proc'[i].cur = proc[i].cur
               /\ proc'[i].cas = request[proc[i].cur].cas
               /\ proc'[i].state = request[proc[i].cur].state
  <1>1. proc[i] \in Processor /\ proc \in [Processors -> Processor]
    BY RunTypes
  <1> DEFINE z == request[proc[i].cur]
             q == [proc[i] EXCEPT !.pc = "getProfile", !.state = z.state, !.cas = z.cas]
  <1>2. Goto(i, "next") \/ proc' = [proc EXCEPT ![i] = q]
    BY <1>1 DEF GetRequest
  <1> HIDE DEF z
  <1>3. /\ q.pc = "getProfile" /\ q.cur = proc[i].cur /\ q.cas = z.cas /\ q.state = z.state
    BY <1>1 DEF Processor
  <1> HIDE DEF q
  <1>4. CASE Goto(i, "next")
    BY <1>4, GotoEffect DEF MovesTo
  <1>5. CASE proc' = [proc EXCEPT ![i] = q]
    BY <1>3, <1>5, OneRunMoves DEF z
  <1> QED BY <1>2, <1>4, <1>5

\* The steps of a run before it has read a request.
LEMMA BetweenEffect ==
  ASSUME TypeInv, NEW i \in Processors,
         \/ processNextWithdrawalRequest(i) \/ proceedOntoExecutionIteration(i) \/ Quit(i)
         \/ Crash(i) \/ \E rows \in SUBSET Requests : processWithdrawalRequests(i, rows)
  PROVE  proc'[i].pc \in Idle \cup {"getRequest"} /\ OnlyRun(i)
  <1>1. proc[i] \in Processor /\ proc \in [Processors -> Processor]
    BY RunTypes
  <1>2. CASE processNextWithdrawalRequest(i)
    <2>1. ASSUME NEW r \in proc[i].left,
                 proc' = [proc EXCEPT ![i].pc = "getRequest", ![i].cur = r, ![i].left = @ \ {r}]
          PROVE  proc'[i].pc \in Idle \cup {"getRequest"} /\ OnlyRun(i)
      <3> DEFINE l == proc[i].left \ {r}
                 q == [proc[i] EXCEPT !.pc = "getRequest", !.cur = r, !.left = l]
      <3>1. proc' = [proc EXCEPT ![i] = q]
        BY <1>1, <2>1
      <3> HIDE DEF l
      <3>2. q.pc = "getRequest"
        BY <1>1 DEF Processor
      <3> HIDE DEF q
      <3> QED BY <3>1, <3>2, OneRunMoves
    <2>2. CASE proc[i].left = {}
      BY <1>2, <2>2, GotoEffect, StopEffect DEF processNextWithdrawalRequest, MovesTo, Idle
    <2> QED BY <1>2, <2>1, <2>2 DEF processNextWithdrawalRequest
  <1>3. CASE proceedOntoExecutionIteration(i)
    <2> DEFINE q == [proc[i] EXCEPT !.pc = "next", !.mode = "execute", !.left = proc[i].rows]
    <2>1. proc' = [proc EXCEPT ![i] = q]
      BY <1>1, <1>3 DEF proceedOntoExecutionIteration
    <2>2. q.pc = "next"
      BY <1>1 DEF Processor
    <2> HIDE DEF q
    <2> QED BY <2>1, <2>2, OneRunMoves DEF Idle
  <1>4. CASE Quit(i) \/ Crash(i)
    BY <1>4, StopEffect DEF Quit, Crash, Idle
  <1>5. CASE \E rows \in SUBSET Requests : processWithdrawalRequests(i, rows)
    <2>1. PICK rows \in SUBSET Requests, g \in {0, Garbage} :
            proc' = [proc EXCEPT
              ![i] = [Stopped("next", g) EXCEPT !.rows = rows, !.left = rows]]
      BY <1>5 DEF processWithdrawalRequests
    <2> DEFINE q == [Stopped("next", g) EXCEPT !.rows = rows, !.left = rows]
    <2>2. q.pc = "next"
      BY DEF Stopped
    <2> HIDE DEF q
    <2>3. proc' = [proc EXCEPT ![i] = q]
      BY <2>1 DEF q
    <2> QED BY <2>2, <2>3, OneRunMoves DEF Idle
  <1> QED BY <1>2, <1>3, <1>4, <1>5

\* The steps around the payment command.
LEMMA PaymentEffect ==
  ASSUME TypeInv, NEW i \in Processors
  PROVE  /\ Reply(i) => MovesTo(i, "setProcessedBut") /\ OnlyRun(i)
         /\ ReplyLost(i) => MovesTo(i, "askOperator") /\ OnlyRun(i)
         /\ AskOperator(i) =>
              (MovesTo(i, "revert") \/ MovesTo(i, "setBitcoindReturnedError")) /\ OnlyRun(i)
  <1>1. ASSUME AskOperator(i)
        PROVE  (MovesTo(i, "revert") \/ MovesTo(i, "setBitcoindReturnedError")) /\ OnlyRun(i)
    <2>1. PICK c \in BOOLEAN, p \in {"revert", "setBitcoindReturnedError"} :
            proc' = [proc EXCEPT ![i].pc = p, ![i].proceed = c]
      BY <1>1 DEF AskOperator
    <2> DEFINE q == [proc[i] EXCEPT !.pc = p, !.proceed = c]
    <2>2. proc[i] \in Processor /\ proc \in [Processors -> Processor]
      BY RunTypes
    <2>3. proc' = [proc EXCEPT ![i] = q]
      BY <2>1, <2>2
    <2>4. /\ q.pc = p /\ q.cur = proc[i].cur /\ q.cas = proc[i].cas
          /\ q.lockCas = proc[i].lockCas /\ q.balance = proc[i].balance
      BY <2>2 DEF Processor
    <2> HIDE DEF q
    <2> QED BY <2>1, <2>3, <2>4, OneRunMoves DEF MovesTo
  <1>2. /\ Reply(i) => MovesTo(i, "setProcessedBut") /\ OnlyRun(i)
        /\ ReplyLost(i) => MovesTo(i, "askOperator") /\ OnlyRun(i)
    BY GotoEffect DEF Reply, ReplyLost
  <1> QED BY <1>1, <1>2

-----------------------------------------------------------------------------
(* Requests and payments.                                                   *)

LEMMA InitRequestInv == Init => RequestInv
  <1> SUFFICES ASSUME Init PROVE RequestInv
    OBVIOUS
  <1>1. \A i \in Processors : proc[i].pc = "stopped"
    BY DEF Init, Stopped
  <1>2. \A r \in Requests : request[r].state = "absent" /\ paid[r] = 0 /\ deducts[r] = 0
                            /\ reverted[r] = 0
    BY DEF Init
  <1> QED BY <1>1, <1>2 DEF RequestInv, Knows, SeenPaid, KnowsPaid, OnePayer, Paying,
        StateTellsPaid, PaidOncePerOrder, DeductedOnlyIfPaid, Paid

\* What a run knows stays true if another stores the request, under its CAS,
\* and does not take a payment back.
LEMMA KnowsFrame ==
  ASSUME TypeInv, NEW j \in Processors, Knows(j), proc'[j] = proc[j],
         NEW r \in Requests, NEW s,
         request' = [request EXCEPT ![r] = [state |-> s, cas |-> @.cas + 1]],
         ~(proc[j].pc \in Paying /\ proc[j].cur = r),
         request[r].state \in Done \cup {Paid} => s \in Done \cup {Paid}
  PROVE  Knows(j)'
  <1>1. proc[j] \in Processor /\ request \in [Requests -> Request]
        /\ (proc[j].pc \notin Idle => proc[j].cur \in Requests)
    BY RunTypes
  <1>2. CASE proc[j].pc \in Idle \/ proc[j].pc \notin
               {"getProfile", "setInsufficientFunds", "lockProfile",
                "setProcessing", "deduct", "setDone"} \cup Paying
    BY <1>2 DEF Knows, SeenPaid, Idle, Paying
  <1>3. CASE proc[j].pc \notin Idle /\ proc[j].cur # r
    <2>1. request'[proc[j].cur] = request[proc[j].cur]
      BY <1>1, <1>3
    <2> QED BY <2>1 DEF Knows, SeenPaid, IsCurrent
  <1>4. CASE proc[j].cur = r /\ proc[j].pc \notin Idle /\ proc[j].pc \in
               {"getProfile", "setInsufficientFunds", "lockProfile",
                "setProcessing", "deduct", "setDone"}
    <2>1. request[r].cas \in Nat /\ proc[j].cas \in Nat
      BY <1>1 DEF Request, Processor
    <2>2. request'[r].cas = request[r].cas + 1 /\ request'[r].state = s
      BY <1>1
    <2>3. proc[j].cas <= request[r].cas
      BY <1>4 DEF Knows, SeenPaid
    <2>4. ~IsCurrent(j)'
      BY <1>4, <2>1, <2>2, <2>3 DEF IsCurrent
    <2>5. proc[j].pc \notin Paying
      BY <1>4
    <2>6. SeenPaid(j)' => s \in Done \cup {Paid}
      BY <1>4 DEF Knows, SeenPaid
    <2> QED BY <1>4, <2>1, <2>2, <2>3, <2>4, <2>5, <2>6 DEF Knows, SeenPaid
  <1> QED BY <1>1, <1>2, <1>3, <1>4

\* Run i stores its request while nobody else is paying it.
LEMMA StoreRequestInv ==
  ASSUME TypeInv, TypeInv', RequestInv, NEW i \in Processors, proc[i].cur \in Requests,
         OnlyRun(i), UNCHANGED <<paid, deducts>>,
         NEW s \in Open \cup Done, NEW p \in {"next", "sendToAddress", "unlock", "deduct"},
         Stores(i, s, p),
         ~IsCurrent(i) => reverted' = reverted,
         \A r \in Requests : reverted[r] <= reverted'[r]
                             /\ (r # proc[i].cur => reverted'[r] = reverted[r]),
         IsCurrent(i) =>
           /\ \A j \in Processors \ {i} :
                ~(proc[j].pc \in Paying /\ proc[j].cur = proc[i].cur)
           /\ request[proc[i].cur].state \in Done \cup {Paid} => s \in Done
           /\ s = "unprocessed" => paid[proc[i].cur] <= reverted'[proc[i].cur]
           /\ s = Paid => paid[proc[i].cur] > 0
           /\ p = "sendToAddress" =>
                s = "processing" /\ paid[proc[i].cur] <= reverted'[proc[i].cur]
           /\ p = "deduct" => s = Paid
  PROVE  RequestInv'
  <1> DEFINE r == proc[i].cur
  <1>1. /\ request \in [Requests -> Request] /\ request[r].cas \in Nat
        /\ paid \in [Requests -> Nat] /\ reverted \in [Requests -> Nat]
        /\ reverted' \in [Requests -> Nat]
    BY RunTypes DEF TypeInv, TypeOK, Request
  <1>2. /\ \A j \in Processors : Knows(j) /\ KnowsPaid(j)
        /\ OnePayer /\ (\A q \in Requests : StateTellsPaid(q))
        /\ PaidOncePerOrder /\ DeductedOnlyIfPaid
    BY DEF RequestInv
  <1>3. PaidOncePerOrder' /\ DeductedOnlyIfPaid'
    <2>1. \A q \in Requests : paid'[q] <= 1 + reverted'[q]
      BY <1>1, <1>2 DEF PaidOncePerOrder
    <2> QED BY <1>2, <2>1 DEF PaidOncePerOrder, DeductedOnlyIfPaid
  <1>4. CASE ~IsCurrent(i)
    <2>1. proc'[i].pc = "stopped" /\ request' = request /\ reverted' = reverted
      BY <1>4 DEF Stores
    <2>2. Knows(i)' /\ KnowsPaid(i)'
      BY <2>1 DEF Knows, SeenPaid, KnowsPaid, Paying
    <2>3. ASSUME NEW j \in Processors, j # i PROVE Knows(j)' /\ KnowsPaid(j)'
      <3>1. proc'[j] = proc[j] /\ Knows(j) /\ KnowsPaid(j)
        BY <1>2, <2>3 DEF OnlyRun
      <3> QED BY <2>1, <3>1 DEF Knows, SeenPaid, KnowsPaid, IsCurrent
    <2>4. OnePayer'
      BY <1>2, <2>1 DEF OnePayer, OnlyRun, Paying
    <2>5. ASSUME NEW q \in Requests PROVE StateTellsPaid(q)'
      BY <1>2, <2>1 DEF StateTellsPaid
    <2> QED BY <1>3, <2>2, <2>3, <2>4, <2>5 DEF RequestInv
  <1>5. CASE IsCurrent(i)
    <2>1. /\ request' = [request EXCEPT ![r] = [state |-> s, cas |-> @.cas + 1]]
          /\ proc'[i].pc = p /\ proc'[i].cur = r /\ proc'[i].cas = proc[i].cas + 1
      BY <1>5 DEF Stores
    <2>2. request'[r].state = s /\ request'[r].cas = proc'[i].cas
          /\ \A q \in Requests : q # r => request'[q] = request[q]
      BY <1>1, <1>5, <2>1 DEF IsCurrent
    <2>3. /\ \A j \in Processors \ {i} : ~(proc[j].pc \in Paying /\ proc[j].cur = r)
          /\ request[r].state \in Done \cup {Paid} => s \in Done
          /\ s = "unprocessed" => paid[r] <= reverted'[r]
          /\ s = Paid => paid[r] > 0
          /\ p = "sendToAddress" => s = "processing" /\ paid[r] <= reverted'[r]
          /\ p = "deduct" => s = Paid
      BY <1>5
    <2>4. Knows(i)'
      <3>1. IsCurrent(i)' /\ request'[proc'[i].cur].state = s
        BY <2>1, <2>2 DEF IsCurrent
      <3>2. proc'[i].cas <= request'[proc'[i].cur].cas
        <4>1. request'[r].cas \in Nat
          BY <1>1, <2>1
        <4> QED BY <2>1, <2>2, <4>1
      <3> QED BY <2>1, <2>3, <3>1, <3>2 DEF Knows, SeenPaid, Paying
    <2>5. KnowsPaid(i)'
      BY <2>1, <2>3 DEF KnowsPaid, SeenPaid, Paid
    <2>6. ASSUME NEW j \in Processors, j # i PROVE Knows(j)' /\ KnowsPaid(j)'
      <3>1. proc'[j] = proc[j] /\ Knows(j) /\ KnowsPaid(j)
        BY <1>2, <2>6 DEF OnlyRun
      <3>2. Knows(j)'
        <4>1. ~(proc[j].pc \in Paying /\ proc[j].cur = r)
          BY <2>3, <2>6
        <4>2. request[r].state \in Done \cup {Paid} => s \in Done \cup {Paid}
          BY <2>3
        <4> HIDE DEF r
        <4>3. r \in Requests
          BY DEF r
        <4> QED BY <2>1, <3>1, <4>1, <4>2, <4>3, KnowsFrame
      <3>3. KnowsPaid(j)'
        <4>1. proc[j].pc = "sendToAddress" => proc[j].cur \in Requests
          BY RunTypes DEF Idle
        <4>2. proc[j].pc = "sendToAddress" => proc[j].cur # r
          BY <2>3, <2>6 DEF Paying
        <4> QED BY <3>1, <4>1, <4>2 DEF KnowsPaid, SeenPaid
      <3> QED BY <3>2, <3>3
    <2>7. OnePayer'
      BY <1>2, <2>1, <2>3 DEF OnePayer, OnlyRun
    <2>8. ASSUME NEW q \in Requests PROVE StateTellsPaid(q)'
      <3>1. CASE q # r
        BY <1>2, <2>2, <3>1 DEF StateTellsPaid
      <3>2. CASE q = r
        BY <2>2, <2>3, <3>2 DEF StateTellsPaid, Open, Done
      <3> QED BY <3>1, <3>2
    <2> QED BY <1>3, <2>4, <2>5, <2>6, <2>7, <2>8 DEF RequestInv
  <1> QED BY <1>4, <1>5

LEMMA StoresRequestInv ==
  ASSUME TypeInv, TypeInv', RequestInv, NEW i \in Processors, StoresRequest(i)
  PROVE  RequestInv'
  <1> DEFINE r == proc[i].cur
             z == request[r].state
             alone == \A j \in Processors \ {i} : ~(proc[j].pc \in Paying /\ proc[j].cur = r)
  <1>1. /\ proc[i].pc \notin Idle /\ UNCHANGED <<paid, deducts>>
    BY DEF StoresRequest, SetInsufficientFunds, SetProcessing, Revert,
       SetBitcoindReturnedError, SetProcessedBut, SetDone, Idle, hist
  <1>2. /\ r \in Requests /\ request \in [Requests -> Request] /\ request[r].cas \in Nat
        /\ reverted \in [Requests -> Nat] /\ paid[r] \in Nat
    BY <1>1, RunTypes DEF TypeInv, TypeOK, Request
  <1>3. /\ Knows(i) /\ KnowsPaid(i) /\ StateTellsPaid(r) /\ paid[r] <= 1 + reverted[r]
    BY <1>2 DEF RequestInv, PaidOncePerOrder
  \* Nobody else pays what is not being processed, or what run i is paying.
  <1>4. (proc[i].pc \in Paying \/ z # "processing") => alone
    BY DEF RequestInv, Knows, SeenPaid, OnePayer
  <1>5. ASSUME reverted' = reverted,
               NEW s \in Open \cup Done, NEW p \in {"next", "sendToAddress", "deduct", "unlock"},
               StoreRequest(i, s, p), s # "unprocessed",
               IsCurrent(i) =>
                 /\ alone
                 /\ z \in Done \cup {Paid} => s \in Done
                 /\ s = Paid => paid[r] > 0
                 /\ p = "sendToAddress" => s = "processing" /\ paid[r] <= reverted[r]
                 /\ p = "deduct" => s = Paid
        PROVE  RequestInv'
    <2>1. Stores(i, s, p) /\ OnlyRun(i)
      BY <1>5, StoreRequestEffect
    <2>2. \A q \in Requests : reverted[q] <= reverted'[q] /\ reverted'[q] = reverted[q]
      BY <1>2, <1>5
    <2> HIDE DEF r, z, alone
    <2>3. r \in Requests
      BY <1>2
    <2> QED BY <1>1, <2>3, <1>5, <2>1, <2>2, StoreRequestInv DEF r, z, alone
  <1>6. CASE SetInsufficientFunds(i)
    <2>1. /\ StoreRequest(i, "insufficientFunds_Done", "next") /\ reverted' = reverted
          /\ proc[i].pc = "setInsufficientFunds"
      BY <1>6 DEF SetInsufficientFunds, hist
    <2>2. IsCurrent(i) => z = "unprocessed"
      BY <1>3, <2>1 DEF Knows, SeenPaid
    <2> QED BY <1>4, <1>5, <2>1, <2>2 DEF Open, Done, Paid
  <1>7. CASE SetProcessing(i)
    <2>1. /\ StoreRequest(i, "processing", "sendToAddress") /\ reverted' = reverted
          /\ proc[i].pc = "setProcessing"
      BY <1>7 DEF SetProcessing, hist
    <2>2. IsCurrent(i) => z = "unprocessed"
      BY <1>3, <2>1 DEF Knows, SeenPaid
    <2>3. IsCurrent(i) => paid[r] <= reverted[r]
      BY <1>3, <2>2 DEF StateTellsPaid
    <2> QED BY <1>4, <1>5, <2>1, <2>2, <2>3 DEF Open, Done, Paid
  <1>8. CASE SetBitcoindReturnedError(i)
    <2>1. /\ StoreRequest(i, "bitcoindCommandReturnedError_Done", "unlock")
          /\ reverted' = reverted /\ proc[i].pc \in Paying
      BY <1>8 DEF SetBitcoindReturnedError, hist, Paying
    <2>2. z = "processing"
      BY <1>3, <2>1 DEF Knows, SeenPaid
    <2> QED BY <1>4, <1>5, <2>1, <2>2 DEF Open, Done, Paid
  <1>9. CASE SetProcessedBut(i)
    <2>1. /\ StoreRequest(i, Paid, "deduct") /\ reverted' = reverted
          /\ proc[i].pc \in Paying /\ proc[i].pc = "setProcessedBut"
      BY <1>9 DEF SetProcessedBut, hist, Paying, Paid
    <2>2. z = "processing" /\ paid[r] > 0
      BY <1>3, <2>1 DEF Knows, SeenPaid, KnowsPaid
    <2> QED BY <1>4, <1>5, <2>1, <2>2 DEF Open, Done, Paid
  <1>10. CASE SetDone(i)
    <2>1. /\ StoreRequest(i, "processed_Done", "next") /\ reverted' = reverted
          /\ proc[i].pc = "setDone"
      BY <1>10 DEF SetDone, hist
    <2>2. IsCurrent(i) => z = Paid
      BY <1>3, <2>1 DEF Knows, SeenPaid
    <2> QED BY <1>4, <1>5, <2>1, <2>2 DEF Open, Done, Paid
  <1>11. CASE Revert(i)
    <2>1. /\ StoreRequest(i, "unprocessed", "unlock") /\ proc[i].pc \in Paying
          /\ reverted' = IF request' = request THEN reverted
                         ELSE [reverted EXCEPT ![r] = @ + 1]
      BY <1>11 DEF Revert, Paying
    <2>2. IsCurrent(i) /\ z = "processing" /\ alone
      BY <1>3, <1>4, <2>1 DEF Knows, SeenPaid
    <2>3. Stores(i, "unprocessed", "unlock") /\ OnlyRun(i)
      BY <2>1, StoreRequestEffect
    <2>4. request' = [request EXCEPT ![r] = [state |-> "unprocessed", cas |-> @.cas + 1]]
      BY <2>2, <2>3 DEF Stores
    <2>5. request'[r].cas # request[r].cas
      BY <1>2, <2>4
    <2>6. reverted' = [reverted EXCEPT ![r] = @ + 1]
      BY <2>1, <2>5
    <2>7. /\ \A q \in Requests : reverted[q] <= reverted'[q]
                                 /\ (q # r => reverted'[q] = reverted[q])
          /\ paid[r] <= reverted'[r]
      BY <1>2, <1>3, <2>6
    <2>8. "unprocessed" \in Open \cup Done /\ "unprocessed" # Paid
      BY DEF Open, Paid
    <2>9. z \notin Done \cup {Paid}
      BY <2>2 DEF Done, Paid
    <2> HIDE DEF r, z, alone
    <2>10. r \in Requests
      BY <1>2
    <2> QED BY <1>1, <2>2, <2>3, <2>7, <2>8, <2>9, <2>10, StoreRequestInv DEF r, z, alone
  <1> QED BY <1>6, <1>7, <1>8, <1>9, <1>10, <1>11 DEF StoresRequest

\* A step of run i that changes no request, payment or revert.
LEMMA QuietRequestInv ==
  ASSUME RequestInv, NEW i \in Processors, OnlyRun(i), UNCHANGED <<request, paid, reverted>>,
         Knows(i)', KnowsPaid(i)',
         proc'[i].pc \in Paying => proc[i].pc \in Paying /\ proc'[i].cur = proc[i].cur,
         \A r \in Requests : deducts'[r] > 0 => paid[r] > 0
  PROVE  RequestInv'
  <1>1. /\ \A j \in Processors : Knows(j) /\ KnowsPaid(j)
        /\ OnePayer /\ (\A q \in Requests : StateTellsPaid(q)) /\ PaidOncePerOrder
    BY DEF RequestInv
  <1>2. ASSUME NEW j \in Processors, j # i PROVE Knows(j)' /\ KnowsPaid(j)'
    <2>1. proc'[j] = proc[j] /\ Knows(j) /\ KnowsPaid(j)
      BY <1>1, <1>2 DEF OnlyRun
    <2> QED BY <2>1 DEF Knows, SeenPaid, KnowsPaid, IsCurrent
  <1>3. OnePayer'
    BY <1>1 DEF OnePayer, OnlyRun
  <1>4. ASSUME NEW q \in Requests PROVE StateTellsPaid(q)'
    BY <1>1 DEF StateTellsPaid
  <1>5. PaidOncePerOrder' /\ DeductedOnlyIfPaid'
    BY <1>1 DEF PaidOncePerOrder, DeductedOnlyIfPaid
  <1> QED BY <1>2, <1>3, <1>4, <1>5 DEF RequestInv

LEMMA BrowseRequestInv ==
  ASSUME TypeInv, TypeInv', RequestInv, NEW i \in Processors, Browse(i)
  PROVE  RequestInv'
  <1>1. UNCHANGED <<request, profile, paid, reverted, deducts>>
    BY DEF Browse, processNextWithdrawalRequest, proceedOntoExecutionIteration, Quit,
       Crash, GetRequest, Reply, ReplyLost, AskOperator, processWithdrawalRequests, docs, hist
  <1>2. Knows(i) /\ KnowsPaid(i) /\ DeductedOnlyIfPaid
    BY DEF RequestInv
  <1>3. \A r \in Requests : deducts'[r] > 0 => paid[r] > 0
    BY <1>1, <1>2 DEF DeductedOnlyIfPaid
  <1>4. ASSUME proc'[i].pc \in Idle \cup {"getRequest"}, OnlyRun(i) PROVE RequestInv'
    <2>1. Knows(i)' /\ KnowsPaid(i)' /\ proc'[i].pc \notin Paying
      BY <1>4 DEF Knows, SeenPaid, KnowsPaid, Idle, Paying
    <2> QED BY <1>1, <1>3, <1>4, <2>1, QuietRequestInv
  <1>5. CASE GetRequest(i)
    <2>1. CASE proc'[i].pc = "next" /\ OnlyRun(i)
      BY <1>4, <2>1 DEF Idle
    <2>2. CASE /\ proc'[i].pc = "getProfile" /\ proc'[i].cur = proc[i].cur
               /\ proc'[i].cas = request[proc[i].cur].cas
               /\ proc'[i].state = request[proc[i].cur].state
               /\ OnlyRun(i)
      <3>1. proc[i].cur \in Requests /\ request[proc[i].cur].cas \in Nat
        BY <1>5, RunTypes DEF GetRequest, Idle, Request
      <3>2. Knows(i)'
        BY <1>1, <2>2, <3>1 DEF Knows, SeenPaid, IsCurrent, Paying
      <3>3. StateTellsPaid(proc[i].cur)
        BY <3>1 DEF RequestInv
      <3>4. KnowsPaid(i)'
        BY <1>1, <2>2, <3>3 DEF KnowsPaid, SeenPaid, StateTellsPaid
      <3> QED BY <1>1, <1>3, <2>2, <3>2, <3>4, QuietRequestInv DEF Paying
    <2> QED BY <1>5, <2>1, <2>2, GetRequestEffect
  <1>6. CASE Reply(i) \/ ReplyLost(i) \/ AskOperator(i)
    <2>1. /\ proc[i].pc \in {"reply", "askOperator"} /\ OnlyRun(i)
          /\ proc'[i].pc \in {"setProcessedBut", "askOperator", "revert",
                              "setBitcoindReturnedError"}
          /\ proc'[i].pc = "setProcessedBut" => proc[i].pc = "reply"
          /\ proc'[i].cur = proc[i].cur /\ proc'[i].cas = proc[i].cas
      BY <1>6, PaymentEffect DEF Reply, ReplyLost, AskOperator, MovesTo
    <2>2. Knows(i)'
      BY <1>1, <1>2, <2>1 DEF Knows, SeenPaid, IsCurrent, Paying
    <2>3. KnowsPaid(i)'
      BY <1>1, <1>2, <2>1 DEF KnowsPaid, SeenPaid
    <2> QED BY <1>1, <1>3, <2>1, <2>2, <2>3, QuietRequestInv DEF Paying
  <1> QED BY <1>4, <1>5, <1>6, BetweenEffect DEF Browse

LEMMA GetProfileRequestInv ==
  ASSUME TypeInv, TypeInv', RequestInv, NEW i \in Processors, GetProfile(i)
  PROVE  RequestInv'
  <1>1. UNCHANGED <<request, paid, reverted, deducts>> /\ proc[i].pc = "getProfile"
    BY DEF GetProfile, docs
  <1>2. Knows(i) /\ KnowsPaid(i) /\ DeductedOnlyIfPaid
    BY DEF RequestInv
  <1>3. \A r \in Requests : deducts'[r] > 0 => paid[r] > 0
    BY <1>1, <1>2 DEF DeductedOnlyIfPaid
  <1>4. ReadsProfile(i, profile[user(i)]) /\ OnlyRun(i)
    BY GetProfileEffect
  <1>5. /\ proc[i].cas <= request[proc[i].cur].cas
        /\ IsCurrent(i) => request[proc[i].cur].state = proc[i].state
        /\ proc[i].state = Paid => paid[proc[i].cur] > 0
    BY <1>1, <1>2 DEF Knows, SeenPaid, KnowsPaid
  <1>6. CASE proc'[i].pc \in Idle
    <2>1. Knows(i)' /\ KnowsPaid(i)' /\ proc'[i].pc \notin Paying
      BY <1>6 DEF Knows, SeenPaid, KnowsPaid, Idle, Paying
    <2> QED BY <1>1, <1>3, <1>4, <2>1, QuietRequestInv
  <1>7. CASE MovesOn(i, {"deduct", "setDone"}) /\ proc[i].state = Paid
    <2>1. request[proc[i].cur].state \in Done \cup {Paid}
      BY <1>1, <1>2, <1>7 DEF Knows, SeenPaid
    <2>2. Knows(i)'
      BY <1>1, <1>5, <1>7, <2>1 DEF MovesOn, Knows, SeenPaid, IsCurrent, Paying
    <2>3. KnowsPaid(i)' /\ proc'[i].pc \notin Paying
      BY <1>1, <1>5, <1>7 DEF MovesOn, KnowsPaid, SeenPaid, Paying
    <2> QED BY <1>1, <1>3, <1>4, <2>2, <2>3, QuietRequestInv
  <1>8. CASE /\ MovesOn(i, {"setInsufficientFunds", "lockProfile"})
             /\ proc[i].state = "unprocessed"
    <2>1. Knows(i)'
      BY <1>1, <1>5, <1>8 DEF MovesOn, Knows, SeenPaid, IsCurrent, Paying
    <2>2. KnowsPaid(i)' /\ proc'[i].pc \notin Paying
      BY <1>8 DEF MovesOn, KnowsPaid, SeenPaid, Paying
    <2> QED BY <1>1, <1>3, <1>4, <2>1, <2>2, QuietRequestInv
  <1> QED BY <1>4, <1>6, <1>7, <1>8 DEF ReadsProfile, MovesOn

LEMMA LockProfileRequestInv ==
  ASSUME TypeInv, RequestInv, NEW i \in Processors, LockProfile(i)
  PROVE  RequestInv'
  <1>1. UNCHANGED <<request, paid, reverted, deducts>> /\ proc[i].pc = "lockProfile"
    BY DEF LockProfile, hist
  <1>2. Knows(i) /\ \A r \in Requests : deducts'[r] > 0 => paid[r] > 0
    BY <1>1 DEF RequestInv, DeductedOnlyIfPaid
  <1>3. LocksOrSkips(i) /\ OnlyRun(i)
    BY LockProfileEffect
  <1>4. proc'[i].pc = "next" \/ MovesOn(i, {"setProcessing"})
    BY <1>3 DEF LocksOrSkips
  <1>5. Knows(i)'
    BY <1>1, <1>2, <1>4 DEF MovesOn, Knows, IsCurrent, Paying, SeenPaid
  <1>6. KnowsPaid(i)' /\ proc'[i].pc \notin Paying
    BY <1>4 DEF MovesOn, KnowsPaid, Paying, SeenPaid
  <1> QED BY <1>1, <1>2, <1>3, <1>5, <1>6, QuietRequestInv

LEMMA ReleaseRequestInv ==
  ASSUME TypeInv, RequestInv, NEW i \in Processors,
         UnlockWithoutDebitting(i) \/ DeductAndUnlock(i)
  PROVE  RequestInv'
  <1>1. UNCHANGED <<request, paid, reverted>> /\ proc[i].pc \in {"unlock", "deduct"}
    BY DEF UnlockWithoutDebitting, DeductAndUnlock, hist
  <1>2. Knows(i) /\ KnowsPaid(i) /\ DeductedOnlyIfPaid
    BY DEF RequestInv
  <1>3. \A r \in Requests : deducts'[r] > 0 => paid[r] > 0
    <2>1. CASE deducts' = deducts
      BY <1>2, <2>1 DEF DeductedOnlyIfPaid
    <2>2. CASE deducts' = [deducts EXCEPT ![proc[i].cur] = @ + 1] /\ proc[i].pc = "deduct"
      <3>1. paid[proc[i].cur] > 0
        BY <1>2, <2>2 DEF KnowsPaid, SeenPaid
      <3> QED BY <1>2, <2>2, <3>1 DEF DeductedOnlyIfPaid, TypeInv, TypeOK
    <2> QED BY <2>1, <2>2 DEF UnlockWithoutDebitting, DeductAndUnlock, hist
  <1>4. CASE proc'[i].pc \in {"next", "stopped"} /\ OnlyRun(i)
    <2>1. Knows(i)' /\ KnowsPaid(i)' /\ proc'[i].pc \notin Paying
      BY <1>4 DEF Knows, KnowsPaid, Paying, SeenPaid
    <2> QED BY <1>1, <1>3, <1>4, <2>1, QuietRequestInv
  <1>5. CASE proc[i].pc = "deduct" /\ MovesTo(i, "setDone") /\ OnlyRun(i)
    <2>1. Knows(i)'
      BY <1>1, <1>2, <1>5 DEF MovesTo, Knows, IsCurrent, Paying, SeenPaid
    <2>2. KnowsPaid(i)' /\ proc'[i].pc \notin Paying
      BY <1>1, <1>2, <1>5 DEF MovesTo, KnowsPaid, Paying, SeenPaid
    <2> QED BY <1>1, <1>3, <1>5, <2>1, <2>2, QuietRequestInv
  <1>6. \/ Goto(i, "next") \/ Stop(i, "stopped")
        \/ proc[i].pc = "deduct" /\ Goto(i, "setDone")
    BY DEF UnlockWithoutDebitting, DeductAndUnlock
  <1> QED BY <1>4, <1>5, <1>6, GotoEffect, StopEffect DEF MovesTo

LEMMA SendToAddressRequestInv ==
  ASSUME TypeInv, RequestInv, NEW i \in Processors, SendToAddress(i)
  PROVE  RequestInv'
  <1> DEFINE r == proc[i].cur
  <1>1. /\ UNCHANGED <<request, reverted, deducts>> /\ proc[i].pc = "sendToAddress"
        /\ \/ paid' = [paid EXCEPT ![r] = @ + 1] /\ Goto(i, "reply")
           \/ paid' = paid /\ Goto(i, "askOperator")
    BY DEF SendToAddress, docs, hist
  <1>2. /\ \A j \in Processors : Knows(j) /\ KnowsPaid(j)
        /\ OnePayer /\ (\A q \in Requests : StateTellsPaid(q))
        /\ PaidOncePerOrder /\ DeductedOnlyIfPaid
    BY DEF RequestInv
  <1>3. r \in Requests /\ paid \in [Requests -> Nat] /\ reverted \in [Requests -> Nat]
    BY <1>1, RunTypes DEF TypeInv, TypeOK, Idle
  <1>4. paid[r] <= reverted[r] /\ request[r].state = "processing" /\ IsCurrent(i)
    BY <1>1, <1>2 DEF Knows, KnowsPaid, Paying
  <1>5. /\ \A q \in Requests : paid[q] <= paid'[q] /\ (q # r => paid'[q] = paid[q])
        /\ paid'[r] <= 1 + reverted[r]
        /\ paid' \in [Requests -> Nat]
    BY <1>1, <1>3, <1>4
  <1>6. /\ OnlyRun(i) /\ proc'[i].cur = r /\ proc'[i].cas = proc[i].cas
        /\ \/ proc'[i].pc = "reply" /\ paid'[r] > 0
           \/ proc'[i].pc = "askOperator"
    BY <1>1, <1>3, GotoEffect DEF MovesTo
  <1>7. Knows(i)' /\ KnowsPaid(i)'
    BY <1>1, <1>4, <1>6 DEF Knows, KnowsPaid, IsCurrent, Paying, SeenPaid
  <1>8. ASSUME NEW j \in Processors, j # i PROVE Knows(j)' /\ KnowsPaid(j)'
    <2>1. proc'[j] = proc[j] /\ Knows(j) /\ KnowsPaid(j)
      BY <1>2, <1>6, <1>8 DEF OnlyRun
    <2>2. Knows(j)'
      BY <1>1, <2>1 DEF Knows, IsCurrent, SeenPaid
    <2>3. CASE proc[j].pc \in Idle
      <3>1. proc'[j].pc \in Idle
        BY <2>1, <2>3
      <3>2. KnowsPaid(j)'
        BY <3>1 DEF KnowsPaid, SeenPaid, Idle
      <3> QED BY <2>2, <3>2
    <2>4. CASE proc[j].pc \notin Idle
      <3>1. proc[j].cur \in Requests
        BY <2>4, RunTypes
      <3>2. proc[j].pc = "sendToAddress" => proc[j].cur # r
        BY <1>1, <1>2, <1>8 DEF OnePayer, Paying
      <3>3. KnowsPaid(j)'
        <4> HIDE DEF r
        <4>1. proc[j].pc = "sendToAddress" => paid'[proc[j].cur] <= reverted'[proc[j].cur]
          BY <1>1, <1>5, <2>1, <3>1, <3>2 DEF KnowsPaid
        <4>2. paid[proc[j].cur] > 0 => paid'[proc[j].cur] > 0
          BY <1>3, <1>5, <3>1
        <4> QED BY <2>1, <4>1, <4>2 DEF KnowsPaid, SeenPaid
      <3> QED BY <2>2, <3>3
    <2> QED BY <2>2, <2>3, <2>4
  <1>9. OnePayer'
    BY <1>1, <1>2, <1>6 DEF OnePayer, OnlyRun, Paying
  <1>10. ASSUME NEW q \in Requests PROVE StateTellsPaid(q)'
    <2>1. CASE q = r
      BY <1>1, <1>4, <2>1 DEF StateTellsPaid, Paid
    <2>2. CASE q # r
      BY <1>1, <1>2, <1>5, <2>2 DEF StateTellsPaid
    <2> QED BY <2>1, <2>2
  <1>11. PaidOncePerOrder'
    BY <1>1, <1>2, <1>5 DEF PaidOncePerOrder
  <1>12. DeductedOnlyIfPaid'
    <2>1. ASSUME NEW q \in Requests, deducts[q] > 0 PROVE paid'[q] > 0
      BY <1>2, <1>3, <1>5, <2>1 DEF DeductedOnlyIfPaid
    <2> QED BY <1>1, <2>1 DEF DeductedOnlyIfPaid
  <1> QED BY <1>7, <1>8, <1>9, <1>10, <1>11, <1>12 DEF RequestInv

LEMMA ScheduleRequestInv ==
  ASSUME TypeInv, RequestInv, NEW r \in Requests, Schedule(r)
  PROVE  RequestInv'
  <1>1. /\ request' = [request EXCEPT ![r] = [state |-> "unprocessed", cas |-> @.cas + 1]]
        /\ request[r].state = "absent" /\ UNCHANGED <<proc, paid, deducts, reverted>>
    BY DEF Schedule, SetRequest, hist
  <1>2. /\ \A j \in Processors : Knows(j) /\ KnowsPaid(j)
        /\ OnePayer /\ (\A q \in Requests : StateTellsPaid(q))
        /\ PaidOncePerOrder /\ DeductedOnlyIfPaid
    BY DEF RequestInv
  <1>3. ASSUME NEW j \in Processors PROVE Knows(j)' /\ KnowsPaid(j)'
    <2>1. ~(proc[j].pc \in Paying /\ proc[j].cur = r)
      BY <1>1, <1>2 DEF Knows
    <2>2. request[r].state \notin Done \cup {Paid}
      BY <1>1 DEF Done, Paid
    <2>3. Knows(j)'
      BY <1>1, <1>2, <2>1, <2>2, KnowsFrame
    <2> QED BY <1>1, <1>2, <2>3 DEF KnowsPaid, SeenPaid
  <1>4. OnePayer' /\ PaidOncePerOrder' /\ DeductedOnlyIfPaid'
    BY <1>1, <1>2 DEF OnePayer, PaidOncePerOrder, DeductedOnlyIfPaid
  <1>5. ASSUME NEW q \in Requests PROVE StateTellsPaid(q)'
    <2>1. request \in [Requests -> Request]
      BY RunTypes DEF TypeInv, TypeOK
    <2> QED BY <1>1, <1>2, <2>1 DEF StateTellsPaid, Paid
  <1> QED BY <1>3, <1>4, <1>5 DEF RequestInv

\* Nothing that requests and payments are about changes.
LEMMA NoRequestStep ==
  ASSUME RequestInv, UNCHANGED <<proc, request, paid, deducts, reverted>>
  PROVE  RequestInv'
  <1>1. ASSUME NEW j \in Processors PROVE Knows(j)' /\ KnowsPaid(j)'
    BY DEF RequestInv, Knows, KnowsPaid, IsCurrent, SeenPaid
  <1>2. ASSUME NEW q \in Requests PROVE StateTellsPaid(q)'
    BY DEF RequestInv, StateTellsPaid
  <1>3. OnePayer' /\ PaidOncePerOrder' /\ DeductedOnlyIfPaid'
    BY DEF RequestInv, OnePayer, PaidOncePerOrder, DeductedOnlyIfPaid
  <1> QED BY <1>1, <1>2, <1>3 DEF RequestInv

LEMMA NextRequestInv == TypeInv /\ RequestInv /\ [Next]_vars => RequestInv'
  <1> SUFFICES ASSUME TypeInv, RequestInv, [Next]_vars PROVE RequestInv'
    OBVIOUS
  <1>1. TypeInv'
    BY NextTypeInv
  <1>2. CASE UNCHANGED vars
    BY <1>2, NoRequestStep DEF vars
  <1>3. ASSUME NEW i \in Processors, Run(i) PROVE RequestInv'
    BY <1>1, <1>3, BrowseRequestInv, GetProfileRequestInv, LockProfileRequestInv,
       StoresRequestInv, SendToAddressRequestInv, ReleaseRequestInv DEF Run
  <1>4. ASSUME NEW r \in Requests, Schedule(r) PROVE RequestInv'
    BY <1>4, ScheduleRequestInv
  <1>5. ASSUME NEW v \in Users, Others(v) PROVE RequestInv'
    <2>1. UNCHANGED <<proc, request, paid, deducts, reverted>>
      BY <1>5 DEF Others, OtherLock, OtherUnlock, AddFunds, hist
    <2> QED BY <2>1, NoRequestStep
  <1> QED BY <1>2, <1>3, <1>4, <1>5, NextIsSomeones

\* Only a request that is not done gets stored.
LEMMA NextKeepsDone ==
  ASSUME TypeInv, RequestInv, [Next]_vars
  PROVE  \A r \in Requests : request[r].state \in Done => request'[r] = request[r]
  <1>1. request \in [Requests -> Request]
    BY DEF TypeInv, TypeOK
  <1>2. ASSUME NEW i \in Processors, StoresRequest(i)
        PROVE  \A r \in Requests : request[r].state \in Done => request'[r] = request[r]
    <2>1. PICK s, p : StoreRequest(i, s, p)
      BY <1>2 DEF StoresRequest, SetInsufficientFunds, SetProcessing, Revert,
         SetBitcoindReturnedError, SetProcessedBut, SetDone
    <2>2. Stores(i, s, p)
      BY <2>1, StoreRequestEffect
    <2>3. Knows(i)
      BY DEF RequestInv
    <2>4. IsCurrent(i) => request[proc[i].cur].state \notin Done
      <3>1. proc[i].pc \in {"setInsufficientFunds", "setProcessing", "setDone"} \cup Paying
        BY <1>2 DEF StoresRequest, SetInsufficientFunds, SetProcessing, Revert,
           SetBitcoindReturnedError, SetProcessedBut, SetDone, Paying
      <3> QED BY <2>3, <3>1 DEF Knows, Done, Paid
    <2> QED BY <1>1, <2>2, <2>4 DEF Stores
  <1>3. ASSUME NEW r \in Requests, Schedule(r)
        PROVE  \A q \in Requests : request[q].state \in Done => request'[q] = request[q]
    <2>1. request[r].state \notin Done
      BY <1>3 DEF Schedule, Done
    <2> QED BY <1>1, <1>3, <2>1 DEF Schedule, SetRequest
  <1>4. ASSUME NEW i \in Processors, Run(i), ~StoresRequest(i) PROVE request' = request
    BY <1>4 DEF Run, Browse, processNextWithdrawalRequest, proceedOntoExecutionIteration,
       Quit, Crash, GetRequest, Reply, ReplyLost, AskOperator, processWithdrawalRequests,
       GetProfile, LockProfile, SendToAddress, UnlockWithoutDebitting, DeductAndUnlock, docs
  <1>5. ASSUME NEW v \in Users, Others(v) PROVE request' = request
    BY <1>5 DEF Others, OtherLock, OtherUnlock, AddFunds
  <1> QED BY <1>2, <1>3, <1>4, <1>5, NextIsSomeones DEF vars

-----------------------------------------------------------------------------
(* The lock of a profile.                                                   *)

LEMMA InitLockInv == Init => LockInv
  <1> SUFFICES ASSUME Init PROVE LockInv
    OBVIOUS
  <1>1. \A i \in Processors : proc[i].pc = "stopped"
    BY DEF Init, Stopped
  <1>2. \A r \in Requests : request[r].state = "absent" /\ deducts[r] = 0
    BY DEF Init
  <1> QED BY <1>1, <1>2 DEF LockInv, KnowsProfile, KnowsDeducted, OneHolder, Holding, Paying,
        StateTellsDeducted, ProcessingIsLocked

\* What a run knows stays true if somebody stores a profile that the run does
\* not hold.
LEMMA ProfileFrame ==
  ASSUME TypeInv, NEW j \in Processors, KnowsProfile(j), proc'[j] = proc[j],
         request' = request, NEW v \in Users, NEW b, NEW l, SetProfile(v, b, l),
         ~(proc[j].pc \in Holding /\ user(j) = v)
  PROVE  KnowsProfile(j)'
  <1>1. /\ proc[j] \in Processor /\ profile \in [Users -> Profile]
        /\ proc[j].pc \notin Idle => user(j) \in Users
    BY RunTypes
  <1>2. user(j)' = user(j)
    BY DEF user
  <1>3. CASE proc[j].pc \notin Holding \cup {"lockProfile"}
    BY <1>3 DEF KnowsProfile, Holding
  <1>4. CASE proc[j].pc \in Holding \cup {"lockProfile"} /\ user(j) # v
    <2>1. profile'[user(j)'] = profile[user(j)]
      BY <1>1, <1>2, <1>4 DEF SetProfile, Idle, Holding, Paying
    <2> QED BY <2>1 DEF KnowsProfile
  <1>5. CASE proc[j].pc = "lockProfile" /\ user(j) = v
    <2>1. profile'[v].cas = profile[v].cas + 1
      BY <1>1 DEF SetProfile
    <2>2. profile[v].cas \in Nat /\ proc[j].profileCas \in Nat
      BY <1>1 DEF Profile, Processor
    <2>3. /\ proc[j].profileCas <= profile[v].cas
          /\ proc[j].balance >= Total(proc[j].cur)
      BY <1>5 DEF KnowsProfile
    <2>4. /\ proc'[j].profileCas <= profile'[user(j)'].cas
          /\ proc'[j].profileCas # profile'[user(j)'].cas
      BY <1>2, <1>5, <2>1, <2>2, <2>3
    <2> QED BY <1>5, <2>3, <2>4 DEF KnowsProfile, Holding, Paying
  <1> QED BY <1>3, <1>4, <1>5

\* ... or if no profile is stored.
LEMMA NoProfileFrame ==
  ASSUME NEW j \in Processors, KnowsProfile(j), proc'[j] = proc[j], profile' = profile,
         proc[j].pc = "unlock" => request'[proc[j].cur].state # "processing"
  PROVE  KnowsProfile(j)'
  BY DEF KnowsProfile, user

LEMMA HoldersKeep ==
  ASSUME OneHolder, NEW i \in Processors, OnlyRun(i),
         proc'[i].pc \in Holding => proc[i].pc \in Holding /\ proc'[i].cur = proc[i].cur
  PROVE  OneHolder'
  BY DEF OneHolder, OnlyRun, user

\* A step of run i that stores nothing.
LEMMA QuietLockInv ==
  ASSUME LockInv, ~resumed, NEW i \in Processors, OnlyRun(i),
         UNCHANGED <<profile, request, deducts>>,
         KnowsProfile(i)', KnowsDeducted(i)',
         proc'[i].pc \in Holding => proc[i].pc \in Holding /\ proc'[i].cur = proc[i].cur
  PROVE  LockInv'
  <1>1. /\ \A j \in Processors : KnowsProfile(j) /\ KnowsDeducted(j)
        /\ OneHolder /\ (\A r \in Requests : StateTellsDeducted(r)) /\ ProcessingIsLocked
    BY DEF LockInv
  <1>2. ASSUME NEW j \in Processors, j # i PROVE KnowsProfile(j)' /\ KnowsDeducted(j)'
    <2>1. proc'[j] = proc[j]
      BY <1>2 DEF OnlyRun
    <2>2. proc[j].pc = "unlock" => request'[proc[j].cur].state # "processing"
      BY <1>1 DEF KnowsProfile
    <2> QED BY <1>1, <2>1, <2>2, NoProfileFrame DEF KnowsDeducted
  <1>3. OneHolder'
    BY <1>1, HoldersKeep
  <1>4. ASSUME NEW r \in Requests PROVE StateTellsDeducted(r)'
    BY <1>1 DEF StateTellsDeducted
  <1>5. ProcessingIsLocked'
    BY <1>1 DEF ProcessingIsLocked
  <1> QED BY <1>2, <1>3, <1>4, <1>5 DEF LockInv

LEMMA BrowseLockInv ==
  ASSUME TypeInv, LockInv, ~resumed, NEW i \in Processors, Browse(i)
  PROVE  LockInv'
  <1>1. UNCHANGED <<profile, request, deducts>>
    BY DEF Browse, processNextWithdrawalRequest, proceedOntoExecutionIteration, Quit,
       Crash, GetRequest, Reply, ReplyLost, AskOperator, processWithdrawalRequests, docs, hist
  <1>2. KnowsProfile(i)
    BY DEF LockInv
  <1>3. ASSUME proc'[i].pc \in Idle \cup {"getRequest", "getProfile"}, OnlyRun(i)
        PROVE  LockInv'
    <2>1. KnowsProfile(i)' /\ KnowsDeducted(i)' /\ proc'[i].pc \notin Holding
      BY <1>3 DEF KnowsProfile, KnowsDeducted, Idle, Holding, Paying
    <2> QED BY <1>1, <1>3, <2>1, QuietLockInv
  <1>4. CASE Reply(i) \/ ReplyLost(i) \/ AskOperator(i)
    <2>1. /\ proc[i].pc \in Paying /\ proc'[i].pc \in Paying /\ OnlyRun(i)
          /\ proc'[i].cur = proc[i].cur /\ proc'[i].lockCas = proc[i].lockCas
      BY <1>4, PaymentEffect DEF Reply, ReplyLost, AskOperator, MovesTo, Paying
    <2>2. KnowsProfile(i)'
      BY <1>1, <1>2, <2>1 DEF KnowsProfile, Holding, Paying, user
    <2>3. KnowsDeducted(i)'
      BY <2>1 DEF KnowsDeducted, Paying
    <2> QED BY <1>1, <2>1, <2>2, <2>3, QuietLockInv DEF Holding
  <1> QED BY <1>3, <1>4, BetweenEffect, GetRequestEffect DEF Browse, Idle

LEMMA GetProfileLockInv ==
  ASSUME TypeInv, LockInv, ~resumed', NEW i \in Processors, GetProfile(i)
  PROVE  LockInv'
  <1>1. /\ UNCHANGED <<profile, request, deducts>> /\ ~resumed
        /\ proc[i].state # Paid /\ proc[i].pc = "getProfile"
    BY DEF GetProfile, docs, Paid
  <1>2. ReadsProfile(i, profile[user(i)]) /\ OnlyRun(i)
    BY GetProfileEffect
  <1>3. CASE proc'[i].pc \in Idle \cup {"setInsufficientFunds"}
    <2>1. KnowsProfile(i)' /\ KnowsDeducted(i)' /\ proc'[i].pc \notin Holding
      BY <1>3 DEF KnowsProfile, KnowsDeducted, Idle, Holding, Paying
    <2> QED BY <1>1, <1>2, <2>1, QuietLockInv
  <1>4. CASE /\ MovesOn(i, {"lockProfile"}) /\ profile[user(i)].lock = "none"
             /\ proc'[i].balance = profile[user(i)].balance
             /\ proc'[i].profileCas = profile[user(i)].cas
             /\ profile[user(i)].balance >= Total(proc[i].cur)
    <2>1. profile[user(i)].cas \in Nat
      BY <1>1, RunTypes DEF Idle, Profile
    <2>2. KnowsProfile(i)' /\ KnowsDeducted(i)' /\ proc'[i].pc \notin Holding
      BY <1>1, <1>4, <2>1 DEF KnowsProfile, KnowsDeducted, Holding, Paying, MovesOn, user
    <2> QED BY <1>1, <1>2, <2>2, QuietLockInv
  <1> QED BY <1>1, <1>2, <1>3, <1>4 DEF ReadsProfile, MovesOn

LEMMA SendToAddressLockInv ==
  ASSUME TypeInv, LockInv, ~resumed, NEW i \in Processors, SendToAddress(i)
  PROVE  LockInv'
  <1>1. /\ UNCHANGED <<profile, request, deducts>> /\ proc[i].pc = "sendToAddress"
        /\ OnlyRun(i) /\ proc'[i].pc \in {"reply", "askOperator"}
        /\ proc'[i].cur = proc[i].cur /\ proc'[i].lockCas = proc[i].lockCas
    BY GotoEffect DEF SendToAddress, docs, hist, MovesTo
  <1>2. KnowsProfile(i)
    BY DEF LockInv
  <1>3. KnowsProfile(i)' /\ KnowsDeducted(i)'
    BY <1>1, <1>2 DEF KnowsProfile, KnowsDeducted, Holding, Paying, user
  <1> QED BY <1>1, <1>3, QuietLockInv DEF Holding, Paying

LEMMA LockProfileLockInv ==
  ASSUME TypeInv, LockInv, ~resumed, NEW i \in Processors, LockProfile(i)
  PROVE  LockInv'
  <1> DEFINE v == user(i)
             r == proc[i].cur
  <1>1. UNCHANGED <<request, deducts>> /\ proc[i].pc = "lockProfile"
    BY DEF LockProfile, hist
  <1>2. LocksOrSkips(i) /\ OnlyRun(i)
    BY LockProfileEffect
  <1>3. /\ \A j \in Processors : KnowsProfile(j) /\ KnowsDeducted(j)
        /\ OneHolder /\ (\A q \in Requests : StateTellsDeducted(q)) /\ ProcessingIsLocked
    BY DEF LockInv
  <1>4. CASE proc'[i].pc = "next" /\ UNCHANGED profile
    <2>1. KnowsProfile(i)' /\ KnowsDeducted(i)' /\ proc'[i].pc \notin Holding
      BY <1>4 DEF KnowsProfile, KnowsDeducted, Holding, Paying
    <2> QED BY <1>1, <1>2, <1>4, <2>1, QuietLockInv
  <1>5. CASE /\ profile[v].cas = proc[i].profileCas
             /\ SetProfile(v, proc[i].balance, r)
             /\ MovesOn(i, {"setProcessing"}) /\ proc'[i].lockCas = proc[i].profileCas + 1
    <2>1. r \in Requests /\ v \in Users /\ profile \in [Users -> Profile] /\ profile[v].cas \in Nat
      BY <1>1, RunTypes DEF Idle, Profile
    <2>2. profile[v].lock = "none" /\ proc[i].balance >= Total(r)
      BY <1>1, <1>3, <1>5 DEF KnowsProfile
    <2>3. profile'[v] = [balance |-> proc[i].balance, cas |-> profile[v].cas + 1, lock |-> r]
          /\ \A u \in Users : u # v => profile'[u] = profile[u]
      BY <1>5, <2>1 DEF SetProfile
    <2>4. proc'[i].pc = "setProcessing" /\ proc'[i].cur = r
      BY <1>5 DEF MovesOn
    <2>5. KnowsProfile(i)'
      <3>1. user(i)' = v
        BY <2>4 DEF user
      <3>2. /\ proc'[i].lockCas = profile'[v].cas /\ proc'[i].lockCas > 0
            /\ profile'[v].lock = proc'[i].cur
            /\ profile'[v].balance >= Total(proc'[i].cur)
        BY <1>5, <2>1, <2>2, <2>3, <2>4
      <3> QED BY <2>4, <3>1, <3>2 DEF KnowsProfile
    <2>6. KnowsDeducted(i)'
      BY <2>4 DEF KnowsDeducted
    \* The profile was not locked, so that nobody holds it.
    <2>7. \A j \in Processors : ~(proc[j].pc \in Holding /\ user(j) = v)
      <3>1. ASSUME NEW j \in Processors, proc[j].pc \in Holding, user(j) = v PROVE FALSE
        <4>1. profile[v].lock = proc[j].cur
          BY <1>3, <3>1 DEF KnowsProfile
        <4>2. proc[j].cur \in Requests
          BY <3>1, RunTypes DEF Holding, Paying, Idle
        <4> QED BY <2>2, <4>1, <4>2
      <3> QED BY <3>1
    <2>8. ASSUME NEW j \in Processors, j # i PROVE KnowsProfile(j)' /\ KnowsDeducted(j)'
      <3>1. proc'[j] = proc[j]
        BY <1>2, <2>8 DEF OnlyRun
      <3>2. KnowsProfile(j)'
        BY <1>1, <1>3, <1>5, <2>1, <2>7, <3>1, ProfileFrame
      <3> QED BY <1>1, <1>3, <3>1, <3>2 DEF KnowsDeducted
    <2>9. OneHolder'
      <3>1. \A j \in Processors : j # i => proc'[j] = proc[j] /\ user(j)' = user(j)
        BY <1>2 DEF OnlyRun, user
      <3>2. user(i)' = v
        BY <2>4 DEF user
      <3> QED BY <1>3, <2>7, <3>1, <3>2 DEF OneHolder
    <2>10. ASSUME NEW q \in Requests PROVE StateTellsDeducted(q)'
      BY <1>1, <1>3 DEF StateTellsDeducted
    <2>11. ProcessingIsLocked'
      <3>1. ASSUME NEW q \in Requests, request[q].state = "processing"
            PROVE  profile'[UserOf[q]].lock = q
        <4>1. profile[UserOf[q]].lock = q /\ UserOf[q] \in Users
          BY <1>3, <3>1 DEF ProcessingIsLocked
        <4>2. UserOf[q] # v
          BY <2>2, <4>1
        <4> QED BY <2>3, <4>1, <4>2
      <3> QED BY <1>1, <3>1 DEF ProcessingIsLocked
    <2> QED BY <2>5, <2>6, <2>8, <2>9, <2>10, <2>11 DEF LockInv
  <1> QED BY <1>2, <1>4, <1>5 DEF LocksOrSkips

\* A profile that is locked to a request not being processed, or to none, gets
\* another lock.
LEMMA ProcessingFrame ==
  ASSUME TypeInv, ProcessingIsLocked, ~resumed, NEW v \in Users, NEW b, NEW l,
         SetProfile(v, b, l), request' = request,
         \A q \in Requests : profile[v].lock = q => request[q].state # "processing"
  PROVE  ProcessingIsLocked'
  <1>1. profile \in [Users -> Profile]
    BY DEF TypeInv, TypeOK
  <1>2. ASSUME NEW q \in Requests, request[q].state = "processing"
        PROVE  profile'[UserOf[q]].lock = q
    <2>1. profile[UserOf[q]].lock = q /\ UserOf[q] \in Users
      BY <1>2 DEF ProcessingIsLocked
    <2>2. UserOf[q] # v
      BY <1>2, <2>1
    <2> QED BY <1>1, <2>1, <2>2 DEF SetProfile
  <1> QED BY <1>2 DEF ProcessingIsLocked

LEMMA ReleaseLockInv ==
  ASSUME TypeInv, RequestInv, LockInv, ~resumed, NEW i \in Processors,
         UnlockWithoutDebitting(i) \/ DeductAndUnlock(i)
  PROVE  LockInv'
  <1> DEFINE v == user(i)
             r == proc[i].cur
  <1>1. request' = request /\ resumed' = resumed /\ proc[i].pc \in {"unlock", "deduct"}
    BY DEF UnlockWithoutDebitting, DeductAndUnlock, hist
  <1>2. r \in Requests /\ v \in Users /\ profile \in [Users -> Profile]
        /\ deducts \in [Requests -> Nat]
    BY <1>1, RunTypes DEF Idle, TypeInv, TypeOK
  <1>3. /\ \A j \in Processors : KnowsProfile(j) /\ KnowsDeducted(j)
        /\ OneHolder /\ (\A q \in Requests : StateTellsDeducted(q)) /\ ProcessingIsLocked
    BY DEF LockInv
  <1>4. proc[i].pc \in Holding
    BY <1>1 DEF Holding
  <1>5. profile[v].lock = r /\ request[r].state # "processing"
    <2>1. proc[i].pc = "deduct" => request[r].state \in Done \cup {Paid}
      BY DEF RequestInv, Knows, SeenPaid
    <2> QED BY <1>1, <1>3, <1>4, <2>1 DEF KnowsProfile, Done, Paid
  <1>6. /\ OnlyRun(i) /\ proc'[i].pc \in {"next", "stopped", "setDone"}
        /\ proc'[i].pc = "setDone" =>
             proc[i].pc = "deduct" /\ proc'[i].cur = r /\ deducts' = [deducts EXCEPT ![r] = @ + 1]
    <2>1. \/ Goto(i, "next") \/ Stop(i, "stopped")
          \/ /\ proc[i].pc = "deduct" /\ Goto(i, "setDone")
             /\ deducts' = [deducts EXCEPT ![r] = @ + 1]
      BY DEF UnlockWithoutDebitting, DeductAndUnlock
    <2> QED BY <2>1, GotoEffect, StopEffect DEF MovesTo
  <1>7. \/ deducts' = deducts
        \/ deducts' = [deducts EXCEPT ![r] = @ + 1] /\ proc[i].pc = "deduct"
    BY DEF UnlockWithoutDebitting, DeductAndUnlock, hist
  <1>8. profile' = profile \/ \E b, l : SetProfile(v, b, l)
    BY DEF UnlockWithoutDebitting, DeductAndUnlock
  <1>9. proc[i].pc = "deduct" => deducts[r] = 0
    BY <1>3 DEF KnowsDeducted
  <1>10. KnowsProfile(i)' /\ KnowsDeducted(i)'
    <2>1. KnowsProfile(i)'
      BY <1>6 DEF KnowsProfile, Holding, Paying
    <2>2. proc'[i].pc = "setDone" => deducts'[proc'[i].cur] = 1
      BY <1>2, <1>6, <1>9
    <2> QED BY <1>6, <2>1, <2>2 DEF KnowsDeducted
  <1>11. ASSUME NEW j \in Processors, j # i PROVE KnowsProfile(j)' /\ KnowsDeducted(j)'
    <2>1. proc'[j] = proc[j] /\ KnowsProfile(j) /\ KnowsDeducted(j)
      BY <1>3, <1>6, <1>11 DEF OnlyRun
    <2>2. ~(proc[j].pc \in Holding /\ user(j) = v)
      BY <1>3, <1>4, <1>11 DEF OneHolder
    <2>3. KnowsProfile(j)'
      <3>1. CASE profile' = profile
        BY <1>1, <2>1, <3>1, NoProfileFrame DEF KnowsProfile
      <3>2. CASE \E b, l : SetProfile(v, b, l)
        BY <1>1, <1>2, <2>1, <2>2, <3>2, ProfileFrame
      <3> QED BY <1>8, <3>1, <3>2
    <2>4. KnowsDeducted(j)'
      <3>1. CASE deducts' = deducts
        BY <2>1, <3>1 DEF KnowsDeducted
      <3>2. CASE deducts' = [deducts EXCEPT ![r] = @ + 1] /\ proc[i].pc = "deduct"
        <4>1. proc[j].pc = "setDone" => proc[j].cur # r
          BY <1>9, <2>1, <3>2 DEF KnowsDeducted
        <4>2. proc[j].pc = "deduct" => proc[j].cur # r
          BY <2>2 DEF Holding, user
        <4>3. proc[j].pc \in {"deduct", "setDone"} => proc[j].cur \in Requests
          BY RunTypes DEF Idle
        <4> HIDE DEF r
        <4>4. proc[j].pc \in {"deduct", "setDone"} =>
                deducts'[proc[j].cur] = deducts[proc[j].cur]
          BY <1>2, <3>2, <4>1, <4>2, <4>3
        <4> QED BY <2>1, <4>4 DEF KnowsDeducted
      <3> QED BY <1>7, <3>1, <3>2
    <2> QED BY <2>3, <2>4
  <1>12. OneHolder'
    <2>1. proc'[i].pc \notin Holding
      BY <1>6 DEF Holding, Paying
    <2> QED BY <1>3, <1>6, <2>1, HoldersKeep
  <1>13. ASSUME NEW q \in Requests PROVE StateTellsDeducted(q)'
    <2>1. StateTellsDeducted(q)
      BY <1>3
    <2>2. CASE deducts'[q] = deducts[q]
      BY <1>1, <2>1, <2>2 DEF StateTellsDeducted
    <2>3. CASE q = r /\ deducts' = [deducts EXCEPT ![r] = @ + 1] /\ proc[i].pc = "deduct"
      <3>1. deducts'[q] = 1 /\ deducts[q] = 0
        BY <1>2, <1>9, <2>3
      <3>2. request[q].state \in Done \cup {Paid}
        BY <2>3 DEF RequestInv, Knows, SeenPaid
      <3> QED BY <1>1, <2>1, <3>1, <3>2 DEF StateTellsDeducted, Done, Paid
    <2> QED BY <1>2, <1>7, <2>2, <2>3
  <1>14. ProcessingIsLocked'
    <2>1. CASE profile' = profile
      BY <1>1, <1>3, <2>1 DEF ProcessingIsLocked
    <2>2. CASE \E b, l : SetProfile(v, b, l)
      BY <1>1, <1>2, <1>3, <1>5, <2>2, ProcessingFrame
    <2> QED BY <1>8, <2>1, <2>2
  <1> QED BY <1>10, <1>11, <1>12, <1>13, <1>14 DEF LockInv

LEMMA StoreLockInv ==
  ASSUME TypeInv, LockInv, ~resumed, NEW i \in Processors, proc[i].cur \in Requests,
         OnlyRun(i), UNCHANGED <<profile, deducts>>,
         NEW s \in Open \cup Done, NEW p \in {"next", "sendToAddress", "unlock", "deduct"},
         Stores(i, s, p),
         p # "next" => proc[i].pc \in Holding,
         s = "processing" => proc[i].pc \in Holding /\ p # "unlock",
         IsCurrent(i) =>
           /\ s \in {"unprocessed", "processing"} \/ p = "deduct" => deducts[proc[i].cur] = 0
           /\ s = "processed_Done" => deducts[proc[i].cur] = 1
  PROVE  LockInv'
  <1> DEFINE r == proc[i].cur
  <1>1. /\ \A j \in Processors : KnowsProfile(j) /\ KnowsDeducted(j)
        /\ OneHolder /\ (\A q \in Requests : StateTellsDeducted(q)) /\ ProcessingIsLocked
    BY DEF LockInv
  <1>2. CASE ~IsCurrent(i)
    <2>1. proc'[i].pc = "stopped" /\ request' = request
      BY <1>2 DEF Stores
    <2>2. KnowsProfile(i)' /\ KnowsDeducted(i)' /\ proc'[i].pc \notin Holding
      BY <2>1 DEF KnowsProfile, KnowsDeducted, Holding, Paying
    <2> QED BY <2>1, <2>2, QuietLockInv
  <1>3. CASE IsCurrent(i)
    <2>1. /\ request' = [request EXCEPT ![r] = [state |-> s, cas |-> @.cas + 1]]
          /\ proc'[i].pc = p /\ proc'[i].cur = r /\ proc'[i].lockCas = proc[i].lockCas
      BY <1>3 DEF Stores
    <2>2. request'[r].state = s /\ \A q \in Requests : q # r => request'[q] = request[q]
      BY <2>1, RunTypes
    <2>3. KnowsProfile(i)'
      <3>1. CASE p = "next"
        BY <2>1, <3>1 DEF KnowsProfile, Holding, Paying
      <3>2. CASE p # "next"
        <4>1. proc[i].pc \in Holding /\ KnowsProfile(i) /\ user(i)' = user(i)
          BY <1>1, <2>1, <3>2 DEF user
        <4>2. /\ proc[i].lockCas = profile[user(i)].cas /\ proc[i].lockCas > 0
              /\ profile[user(i)].lock = r /\ profile[user(i)].balance >= Total(r)
          BY <4>1 DEF KnowsProfile
        <4>3. p = "unlock" => request'[r].state # "processing"
          BY <2>2
        <4> QED BY <2>1, <4>1, <4>2, <4>3 DEF KnowsProfile
      <3> QED BY <3>1, <3>2
    <2>4. KnowsDeducted(i)'
      BY <1>3, <2>1 DEF KnowsDeducted
    <2>5. ASSUME NEW j \in Processors, j # i PROVE KnowsProfile(j)' /\ KnowsDeducted(j)'
      <3>1. proc'[j] = proc[j] /\ KnowsProfile(j) /\ KnowsDeducted(j)
        BY <1>1, <2>5 DEF OnlyRun
      <3>2. ASSUME proc[j].pc = "unlock" PROVE request'[proc[j].cur].state # "processing"
        <4>1. proc[j].cur \in Requests /\ request[proc[j].cur].state # "processing"
          BY <3>1, <3>2, RunTypes DEF KnowsProfile, Idle
        <4>2. proc[j].cur = r => s # "processing"
          BY <1>1, <2>5, <3>2 DEF OneHolder, Holding, user
        <4> QED BY <2>2, <4>1, <4>2
      <3> QED BY <3>1, <3>2, NoProfileFrame DEF KnowsDeducted
    <2>6. OneHolder'
      <3>1. proc'[i].pc \in Holding => proc[i].pc \in Holding /\ proc'[i].cur = proc[i].cur
        BY <2>1 DEF Holding, Paying
      <3> QED BY <1>1, <3>1, HoldersKeep
    <2>7. ASSUME NEW q \in Requests PROVE StateTellsDeducted(q)'
      <3>1. CASE q # r
        BY <1>1, <2>2, <3>1 DEF StateTellsDeducted
      <3>2. CASE q = r
        <4>1. s # "absent" /\ deducts[r] <= 1
          BY <1>1, <3>2 DEF StateTellsDeducted, Open, Done
        <4> QED BY <1>3, <2>2, <3>2, <4>1 DEF StateTellsDeducted
      <3> QED BY <3>1, <3>2
    <2>8. ProcessingIsLocked'
      <3>1. s = "processing" => profile[UserOf[r]].lock = r
        BY <1>1 DEF KnowsProfile, user
      <3> QED BY <1>1, <2>2, <3>1 DEF ProcessingIsLocked
    <2> QED BY <2>3, <2>4, <2>5, <2>6, <2>7, <2>8 DEF LockInv
  <1> QED BY <1>2, <1>3

LEMMA StoresRequestLockInv ==
  ASSUME TypeInv, RequestInv, LockInv, ~resumed, NEW i \in Processors, StoresRequest(i)
  PROVE  LockInv'
  <1> DEFINE r == proc[i].cur
             z == request[r].state
  <1>1. proc[i].pc \notin Idle /\ UNCHANGED <<profile, deducts>>
    BY DEF StoresRequest, SetInsufficientFunds, SetProcessing, Revert,
       SetBitcoindReturnedError, SetProcessedBut, SetDone, Idle, hist
  <1>2. r \in Requests
    BY <1>1, RunTypes
  <1>3. Knows(i) /\ KnowsDeducted(i) /\ StateTellsDeducted(r)
    BY <1>2 DEF RequestInv, LockInv
  <1>4. ASSUME NEW s \in Open \cup Done, NEW p \in {"next", "sendToAddress", "unlock", "deduct"},
               StoreRequest(i, s, p),
               p # "next" => proc[i].pc \in Holding,
               s = "processing" => proc[i].pc \in Holding /\ p # "unlock",
               IsCurrent(i) =>
                 /\ s \in {"unprocessed", "processing"} \/ p = "deduct" => deducts[r] = 0
                 /\ s = "processed_Done" => deducts[r] = 1
        PROVE  LockInv'
    BY <1>1, <1>2, <1>4, StoreRequestEffect, StoreLockInv
  <1>5. CASE SetInsufficientFunds(i)
    BY <1>4, <1>5 DEF SetInsufficientFunds, Open, Done
  <1>6. CASE SetProcessing(i)
    <2>1. IsCurrent(i) => deducts[r] = 0
      BY <1>3, <1>6 DEF SetProcessing, Knows, StateTellsDeducted
    <2> QED BY <1>4, <1>6, <2>1 DEF SetProcessing, Open, Done, Holding
  <1>7. CASE Revert(i)
    <2>1. deducts[r] = 0
      BY <1>3, <1>7 DEF Revert, Knows, StateTellsDeducted, Paying
    <2> QED BY <1>4, <1>7, <2>1 DEF Revert, Open, Done, Holding, Paying
  <1>8. CASE SetBitcoindReturnedError(i)
    BY <1>4, <1>8 DEF SetBitcoindReturnedError, Open, Done, Holding, Paying
  <1>9. CASE SetProcessedBut(i)
    <2>1. deducts[r] = 0
      BY <1>3, <1>9 DEF SetProcessedBut, Knows, StateTellsDeducted, Paying
    <2> QED BY <1>4, <1>9, <2>1 DEF SetProcessedBut, Open, Done, Holding, Paying
  <1>10. CASE SetDone(i)
    <2>1. deducts[r] = 1
      BY <1>3, <1>10 DEF SetDone, KnowsDeducted
    <2> QED BY <1>4, <1>10, <2>1 DEF SetDone, Open, Done
  <1> QED BY <1>5, <1>6, <1>7, <1>8, <1>9, <1>10 DEF StoresRequest

LEMMA ScheduleLockInv ==
  ASSUME TypeInv, LockInv, ~resumed, NEW r \in Requests, Schedule(r)
  PROVE  LockInv'
  <1>1. /\ request' = [request EXCEPT ![r] = [state |-> "unprocessed", cas |-> @.cas + 1]]
        /\ request[r].state = "absent" /\ UNCHANGED <<proc, profile, deducts>>
        /\ request \in [Requests -> Request]
    BY RunTypes DEF Schedule, SetRequest, hist, TypeInv, TypeOK
  <1>2. request'[r].state = "unprocessed"
        /\ \A q \in Requests : q # r => request'[q] = request[q]
    BY <1>1
  <1>3. /\ \A j \in Processors : KnowsProfile(j) /\ KnowsDeducted(j)
        /\ OneHolder /\ (\A q \in Requests : StateTellsDeducted(q)) /\ ProcessingIsLocked
    BY DEF LockInv
  <1>4. ASSUME NEW j \in Processors PROVE KnowsProfile(j)' /\ KnowsDeducted(j)'
    <2>1. ASSUME proc[j].pc = "unlock" PROVE request'[proc[j].cur].state # "processing"
      <3>1. proc[j].cur \in Requests /\ request[proc[j].cur].state # "processing"
        BY <1>3, <2>1, RunTypes DEF KnowsProfile, Idle
      <3> QED BY <1>2, <3>1
    <2> QED BY <1>1, <1>3, <2>1, NoProfileFrame DEF KnowsDeducted
  <1>5. OneHolder'
    BY <1>1, <1>3 DEF OneHolder, user
  <1>6. ASSUME NEW q \in Requests PROVE StateTellsDeducted(q)'
    <2>1. StateTellsDeducted(q) /\ StateTellsDeducted(r)
      BY <1>3
    <2> QED BY <1>1, <1>2, <2>1 DEF StateTellsDeducted
  <1>7. ProcessingIsLocked'
    BY <1>1, <1>2, <1>3 DEF ProcessingIsLocked
  <1> QED BY <1>4, <1>5, <1>6, <1>7 DEF LockInv

LEMMA OthersLockInv ==
  ASSUME TypeInv, LockInv, ~resumed, NEW v \in Users, Others(v)
  PROVE  LockInv'
  <1>1. /\ UNCHANGED <<request, proc, deducts>> /\ profile[v].lock \in {"none", "other"}
        /\ \E b, l : SetProfile(v, b, l)
    BY DEF Others, OtherLock, OtherUnlock, AddFunds, Change, hist
  <1>2. /\ \A j \in Processors : KnowsProfile(j) /\ KnowsDeducted(j)
        /\ OneHolder /\ (\A q \in Requests : StateTellsDeducted(q)) /\ ProcessingIsLocked
    BY DEF LockInv
  <1>3. \A q \in Requests : profile[v].lock # q
    BY <1>1
  <1>4. ASSUME NEW j \in Processors PROVE KnowsProfile(j)' /\ KnowsDeducted(j)'
    <2>1. ~(proc[j].pc \in Holding /\ user(j) = v)
      <3>1. proc[j].pc \in Holding => proc[j].cur \in Requests
        BY RunTypes DEF Holding, Paying, Idle
      <3> QED BY <1>2, <1>3, <3>1 DEF KnowsProfile
    <2> QED BY <1>1, <1>2, <2>1, ProfileFrame DEF KnowsDeducted
  <1>5. OneHolder'
    BY <1>1, <1>2 DEF OneHolder, user
  <1>6. ASSUME NEW q \in Requests PROVE StateTellsDeducted(q)'
    BY <1>1, <1>2 DEF StateTellsDeducted
  <1>7. ProcessingIsLocked'
    BY <1>1, <1>2, <1>3, ProcessingFrame
  <1> QED BY <1>4, <1>5, <1>6, <1>7 DEF LockInv

\* Once a run has met a request paid and not done, it has.
LEMMA NextKeepsResumed == [Next]_vars /\ resumed => resumed'
  <1>1. ASSUME NEW i \in Processors, Run(i) PROVE resumed => resumed'
    BY <1>1 DEF Run, Browse, processNextWithdrawalRequest, proceedOntoExecutionIteration,
       Quit, Crash, GetRequest, Reply, ReplyLost, AskOperator, processWithdrawalRequests,
       GetProfile, LockProfile, SendToAddress, UnlockWithoutDebitting, DeductAndUnlock,
       StoresRequest, SetInsufficientFunds, SetProcessing, Revert,
       SetBitcoindReturnedError, SetProcessedBut, SetDone, hist
  <1>2. (\E r \in Requests : Schedule(r)) \/ (\E v \in Users : Others(v)) => resumed' = resumed
    BY DEF Schedule, Others, OtherLock, OtherUnlock, AddFunds, hist
  <1> QED BY <1>1, <1>2, NextIsSomeones DEF vars

LEMMA NextLockInv == TypeInv /\ RequestInv /\ LockInv /\ [Next]_vars => LockInv'
  <1> SUFFICES ASSUME TypeInv, RequestInv, LockInv, [Next]_vars, ~resumed' PROVE LockInv'
    BY DEF LockInv
  <1>1. ~resumed
    BY NextKeepsResumed
  <1>2. CASE UNCHANGED vars
    <2>1. UNCHANGED <<proc, profile, request, deducts, resumed>>
      BY <1>2 DEF vars
    <2>2. \A j \in Processors : (KnowsProfile(j) <=> KnowsProfile(j)')
                                /\ (KnowsDeducted(j) <=> KnowsDeducted(j)')
      BY <2>1 DEF KnowsProfile, KnowsDeducted, user
    <2>3. OneHolder' <=> OneHolder
      BY <2>1 DEF OneHolder, user
    <2>4. \A r \in Requests : StateTellsDeducted(r)' <=> StateTellsDeducted(r)
      BY <2>1 DEF StateTellsDeducted
    <2>5. ProcessingIsLocked' <=> ProcessingIsLocked
      BY <2>1 DEF ProcessingIsLocked
    <2> QED BY <1>1, <2>2, <2>3, <2>4, <2>5 DEF LockInv
  <1>3. ASSUME NEW i \in Processors, Run(i) PROVE LockInv'
    BY <1>1, <1>3, BrowseLockInv, GetProfileLockInv, LockProfileLockInv,
       StoresRequestLockInv, SendToAddressLockInv, ReleaseLockInv DEF Run
  <1>4. ASSUME NEW r \in Requests, Schedule(r) PROVE LockInv'
    BY <1>1, <1>4, ScheduleLockInv
  <1>5. ASSUME NEW v \in Users, Others(v) PROVE LockInv'
    BY <1>1, <1>5, OthersLockInv
  <1> QED BY <1>2, <1>3, <1>4, <1>5, NextIsSomeones

-----------------------------------------------------------------------------
(* The inductive invariant and what follows from it.                        *)

\* What the program counter of every run knows of the documents, and what the
\* documents tell.
THEOREM Invariant == Spec => []IInv
  <1>1. Init => IInv
    BY InitTypeInv, InitRequestInv, InitLockInv DEF IInv
  <1>2. IInv /\ [Next]_vars => IInv'
    BY NextTypeInv, NextRequestInv, NextLockInv DEF IInv
  <1> QED BY <1>1, <1>2, PTL DEF Spec

\* However many runs overlap, die and start again, bitcoins are sent once for
\* a request, and once more for each time the operator put it back.
THEOREM NeverPaidTwice == Spec => []PaidOncePerOrder
  <1>1. IInv => PaidOncePerOrder
    BY DEF IInv, RequestInv
  <1> QED BY <1>1, Invariant, PTL

\* Nobody is charged for a request that bitcoind never paid.
THEOREM OnlyPaidIsDeducted == Spec => []DeductedOnlyIfPaid
  <1>1. IInv => DeductedOnlyIfPaid
    BY DEF IInv, RequestInv
  <1> QED BY <1>1, Invariant, PTL

\* Until a run meets a request that is paid and not done, the payment command
\* only goes out for a request marked so, on a profile locked to it that
\* holds the total.
THEOREM PaymentsAreHeld == Spec => []PaymentIsHeld
  <1>1. ASSUME IInv PROVE PaymentIsHeld
    <2> SUFFICES ASSUME ~resumed, NEW i \in Processors,
                        proc[i].pc \in {"sendToAddress", "reply", "setProcessedBut"}
                 PROVE  /\ request[proc[i].cur].state = "processing"
                        /\ profile[user(i)].lock = proc[i].cur
                        /\ profile[user(i)].balance >= Total(proc[i].cur)
      BY DEF PaymentIsHeld
    <2>1. Knows(i) /\ KnowsProfile(i) /\ proc[i].pc \in Paying
      BY <1>1 DEF IInv, RequestInv, LockInv, Paying
    <2> QED BY <2>1 DEF Knows, KnowsProfile, Holding
  <1> QED BY <1>1, Invariant, PTL

\* ... and a request marked as being processed has its profile locked to it,
\* which the processor takes for granted when it finds one.
THEOREM ProcessingStaysLocked == Spec => []ProcessingIsLocked
  <1>1. IInv => ProcessingIsLocked
    BY DEF IInv, LockInv, ProcessingIsLocked
  <1> QED BY <1>1, Invariant, PTL

\* ... and one that is done has been deducted: what the comments promise only
\* fails by way of a run that continues the work of another.
THEOREM ProcessedIsDeductedUnlessResumed == Spec => [](~resumed => ProcessedIsDeducted)
  <1>1. IInv => (~resumed => ProcessedIsDeducted)
    BY DEF IInv, LockInv, StateTellsDeducted, ProcessedIsDeducted
  <1> QED BY <1>1, Invariant, PTL

\* Whatever stale view lists it and however many runs have it under way, a
\* request that is done is never stored again.
THEOREM DoneStaysDone == Spec => DoneIsFinal
  <1>1. IInv /\ [Next]_vars =>
          [\A r \in Requests : request[r].state \in Done => request'[r] = request[r]]_vars
    BY NextKeepsDone DEF IInv
  <1> QED BY <1>1, Invariant, PTL DEF Spec, DoneIsFinal
=============================================================================
