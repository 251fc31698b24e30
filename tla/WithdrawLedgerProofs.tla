------------------------ MODULE WithdrawLedgerProofs ------------------------
(***************************************************************************)
(* Theorems about the money of WithdrawProcessor, which hold until a run    *)
(* has met a request that was paid and not done: whoever stores a profile   *)
(* starts from its balance, so that balances reconcile; and, if no two runs *)
(* are under way at the same time, what is paid is accounted for.           *)
(***************************************************************************)
EXTENDS WithdrawProcessorProofs, SumTheorems

\* What run i remembers of the balance is the balance, unless the profile was
\* stored since, as its CAS shows.
KnowsBalance(i) ==
  (proc[i].pc = "lockProfile" /\ proc[i].profileCas = profile[user(i)].cas)
    \/ proc[i].pc \in Holding
  => proc[i].balance = profile[user(i)].balance

BooksInv == IInv /\ (~resumed => \A i \in Processors : KnowsBalance(i))

-----------------------------------------------------------------------------
(* The deductions as a sum, in the terms of SumTheorems.                    *)

cost     == [r \in Requests |-> deducts[r] * Total(r)]
Asked(v) == {r \in Requests : UserOf[r] = v}

LEMMA AskedIsFinite == \A v : IsFiniteSet(Asked(v))
  BY WithdrawAssumption, FS_Subset DEF WithdrawAssumption, Asked

LEMMA DeductedIsASum == \A v : Deducted(v) = SumOver(cost, Asked(v))
  <1> SUFFICES ASSUME NEW v PROVE Deducted(v) = SumOver(cost, Asked(v))
    OBVIOUS
  <1> DEFINE f == [r \in Asked(v) |-> deducts[r] * Total(r)]
  <1>1. Deducted(v) = SumOver(f, Asked(v))
    BY DEF Deducted, Asked, SumOver, MapThenSumSet, MapThenFoldSet
  <1>2. \A r \in Asked(v) : f[r] = cost[r]
    BY DEF cost, Asked
  <1> HIDE DEF f
  <1> QED BY <1>1, <1>2, AskedIsFinite, SumOverEqual

LEMMA DeductedIsASumNext == (\A v : Deducted(v) = SumOver(cost, Asked(v)))'
  BY DeductedIsASum, PTL

-----------------------------------------------------------------------------
(* What a step does to balances and deductions.                             *)

\* Nothing.
NothingBooked ==
  /\ \A v \in Users : profile'[v].balance = profile[v].balance
  /\ UNCHANGED <<deducts, ledger>>

\* The rest of the system changes the balance of v.
ChangeBooked(v) ==
  /\ \E d \in OtherAmounts :
       /\ profile'[v].balance = profile[v].balance + d
       /\ ledger' = [ledger EXCEPT ![v] = @ + d]
  /\ \A w \in Users \ {v} : profile'[w] = profile[w]
  /\ UNCHANGED deducts

\* Request r is deducted.
DeductionBooked(r) ==
  /\ profile'[UserOf[r]].balance = profile[UserOf[r]].balance - Total(r)
  /\ \A w \in Users \ {UserOf[r]} : profile'[w] = profile[w]
  /\ deducts[r] = 0 /\ deducts' = [deducts EXCEPT ![r] = 1]
  /\ UNCHANGED ledger

BookStep ==
  \/ NothingBooked
  \/ \E v \in Users : ChangeBooked(v)
  \/ \E r \in Requests : DeductionBooked(r)

LEMMA CostType ==
  ASSUME TypeInv
  PROVE  \A r \in Requests : cost[r] = deducts[r] * Total(r) /\ cost[r] \in Int
  <1>1. \A r \in Requests : deducts[r] \in Int /\ Total(r) \in Int
    BY TotalIsInt DEF TypeInv, TypeOK
  <1> QED BY <1>1 DEF cost

LEMMA CostTypeNext ==
  TypeInv' => (\A r \in Requests : cost[r] = deducts[r] * Total(r) /\ cost[r] \in Int)'
  <1>1. TypeInv => \A r \in Requests : cost[r] = deducts[r] * Total(r) /\ cost[r] \in Int
    BY CostType
  <1> QED BY <1>1, PTL

LEMMA BookStepReconciles ==
  ASSUME TypeInv, TypeInv', BookStep,
         \A v \in Users : profile[v].balance = ledger[v] - Deducted(v), NEW v \in Users
  PROVE  profile'[v].balance = ledger'[v] - Deducted(v)'
  <1>1. /\ \A r \in Requests : cost[r] = deducts[r] * Total(r) /\ cost[r] \in Int
        /\ \A r \in Requests : cost'[r] = deducts'[r] * Total(r) /\ cost'[r] \in Int
    BY CostType, CostTypeNext
  <1>2. /\ profile[v].balance \in Int /\ profile'[v].balance \in Int
        /\ ledger[v] \in Int /\ ledger'[v] \in Int /\ ledger \in [Users -> Int]
        /\ deducts \in [Requests -> Nat]
    BY DEF TypeInv, TypeOK, Profile
  <1>3. /\ Asked(v) \in SUBSET Requests /\ IsFiniteSet(Asked(v)) /\ Asked(v)' = Asked(v)
        /\ Deducted(v) \in Int
    <2>1. Asked(v) \in SUBSET Requests /\ IsFiniteSet(Asked(v)) /\ Asked(v)' = Asked(v)
      BY AskedIsFinite DEF Asked
    <2>2. \A r \in Asked(v) : cost[r] \in Int
      BY <1>1, <2>1
    <2> QED BY <2>1, <2>2, SumOverType, DeductedIsASum
  <1>4. ASSUME deducts' = deducts PROVE Deducted(v)' = Deducted(v)
    <2>1. cost' = cost
      BY <1>4 DEF cost
    <2> QED BY <1>3, <2>1, DeductedIsASum, DeductedIsASumNext
  <1>5. CASE NothingBooked
    BY <1>4, <1>5 DEF NothingBooked
  <1>6. ASSUME NEW w \in Users, ChangeBooked(w)
        PROVE  profile'[v].balance = ledger'[v] - Deducted(v)'
    <2>1. PICK d \in OtherAmounts :
            /\ profile'[w].balance = profile[w].balance + d
            /\ ledger' = [ledger EXCEPT ![w] = ledger[w] + d]
      BY <1>6 DEF ChangeBooked
    <2>2. Deducted(v)' = Deducted(v) /\ (v # w => profile'[v] = profile[v]) /\ d \in Int
      BY <1>4, <1>6, WithdrawAssumption DEF ChangeBooked, WithdrawAssumption
    <2>3. profile'[v].balance - profile[v].balance = ledger'[v] - ledger[v]
      BY <1>2, <2>1, <2>2
    <2> QED BY <1>2, <1>3, <2>2, <2>3
  <1>7. ASSUME NEW r \in Requests, DeductionBooked(r)
        PROVE  profile'[v].balance = ledger'[v] - Deducted(v)'
    <2>1. /\ deducts[r] = 0 /\ deducts'[r] = 1 /\ ledger' = ledger
          /\ \A q \in Requests \ {r} : deducts'[q] = deducts[q]
      BY <1>2, <1>7 DEF DeductionBooked
    <2>2. Total(r) \in Int
      BY TotalIsInt
    <2>3. cost[r] = 0 /\ cost'[r] = Total(r) /\ \A q \in Requests \ {r} : cost'[q] = cost[q]
      BY <1>1, <2>1, <2>2
    <2>4. CASE v = UserOf[r]
      <3>1. r \in Asked(v)
        BY <2>4 DEF Asked
      <3>2. /\ \A q \in Asked(v) : cost[q] \in Int /\ cost'[q] \in Int
            /\ \A q \in Asked(v) \ {r} : cost[q] = cost'[q]
        BY <1>1, <1>3, <2>3
      <3>3. SumOver(cost', Asked(v)) = SumOver(cost, Asked(v)) + cost'[r] - cost[r]
        BY <1>3, <3>1, <3>2, SumOverChange
      <3>4. Deducted(v)' = Deducted(v) + Total(r)
        BY <1>3, <2>2, <2>3, <3>3, DeductedIsASum, DeductedIsASumNext
      <3>5. profile'[v].balance = profile[v].balance - Total(r)
        BY <1>7, <2>4 DEF DeductionBooked
      <3> QED BY <1>2, <1>3, <2>1, <2>2, <3>4, <3>5
    <2>5. CASE v # UserOf[r]
      <3>1. \A q \in Asked(v) : cost'[q] = cost[q]
        BY <1>3, <2>3, <2>5 DEF Asked
      <3>2. Deducted(v)' = Deducted(v)
        BY <1>3, <3>1, SumOverEqual, DeductedIsASum, DeductedIsASumNext
      <3>3. profile'[v] = profile[v]
        BY <1>7, <2>5 DEF DeductionBooked
      <3> QED BY <2>1, <3>2, <3>3
    <2> QED BY <2>4, <2>5
  <1> QED BY <1>5, <1>6, <1>7 DEF BookStep

-----------------------------------------------------------------------------
(* What runs know of balances, step by step.                                *)

USE WithdrawAssumption DEF WithdrawAssumption, None, Garbage

\* The profile of v is stored by a step of run i, or of nobody, and held by no
\* other run.
LEMMA KnowledgeFrame ==
  ASSUME TypeInv, NEW j \in Processors, KnowsProfile(j), KnowsBalance(j),
         proc'[j] = proc[j], NEW v \in Users, NEW b, NEW l, SetProfile(v, b, l),
         ~(proc[j].pc \in Holding /\ user(j) = v)
  PROVE  KnowsBalance(j)'
  <1>1. /\ proc[j] \in Processor /\ profile \in [Users -> Profile]
        /\ proc[j].pc \notin Idle => user(j) \in Users
        /\ user(j)' = user(j)
    BY RunTypes DEF user
  <1>2. CASE proc[j].pc \notin Holding \cup {"lockProfile"}
    BY <1>2 DEF KnowsBalance
  <1>3. CASE proc[j].pc \in Holding \cup {"lockProfile"} /\ user(j) # v
    <2>1. profile'[user(j)'] = profile[user(j)]
      BY <1>1, <1>3 DEF SetProfile, Idle, Holding, Paying
    <2> QED BY <1>1, <2>1 DEF KnowsBalance
  <1>4. CASE proc[j].pc = "lockProfile" /\ user(j) = v
    <2>1. profile'[v].cas = profile[v].cas + 1
      BY <1>1 DEF SetProfile
    <2>2. /\ profile[v].cas \in Nat /\ proc[j].profileCas \in Nat
          /\ proc[j].profileCas <= profile[v].cas
      BY <1>1, <1>4 DEF Profile, Processor, KnowsProfile
    <2>3. proc'[j].profileCas # profile'[user(j)'].cas
      BY <1>1, <1>4, <2>1, <2>2
    <2> QED BY <1>4, <2>3 DEF KnowsBalance, Holding, Paying
  <1> QED BY <1>2, <1>3, <1>4

LEMMA QuietKnowledge ==
  ASSUME \A j \in Processors : KnowsBalance(j), NEW i \in Processors, OnlyRun(i),
         profile' = profile, KnowsBalance(i)'
  PROVE  \A j \in Processors : KnowsBalance(j)'
  <1> SUFFICES ASSUME NEW j \in Processors, j # i PROVE KnowsBalance(j)'
    OBVIOUS
  <1>1. proc'[j] = proc[j]
    BY DEF OnlyRun
  <1> QED BY <1>1 DEF KnowsBalance, user

\* A run that is past a request, or holds its profile and stores nothing.
LEMMA StaysKnown ==
  ASSUME NEW i \in Processors, KnowsBalance(i), profile' = profile,
         \/ proc'[i].pc \notin Holding \cup {"lockProfile"}
         \/ /\ proc[i].pc \in Holding /\ proc'[i].pc \in Holding
            /\ proc'[i].cur = proc[i].cur /\ proc'[i].balance = proc[i].balance
  PROVE  KnowsBalance(i)'
  BY DEF KnowsBalance, Holding, Paying, user

LEMMA BrowseKnowledge ==
  ASSUME TypeInv, \A j \in Processors : KnowsBalance(j), NEW i \in Processors,
         Browse(i) \/ SendToAddress(i)
  PROVE  NothingBooked /\ \A j \in Processors : KnowsBalance(j)'
  <1>1. UNCHANGED <<profile, deducts, ledger>>
    BY DEF Browse, processNextWithdrawalRequest, proceedOntoExecutionIteration, Quit, Crash,
       GetRequest, Reply, ReplyLost, AskOperator, processWithdrawalRequests, SendToAddress,
       docs, hist
  <1>2. CASE proc'[i].pc \in Idle \cup {"getRequest", "getProfile"} /\ OnlyRun(i)
    <2>1. proc'[i].pc \notin Holding \cup {"lockProfile"}
      BY <1>2 DEF Idle, Holding, Paying
    <2> QED BY <1>1, <1>2, <2>1, StaysKnown, QuietKnowledge DEF NothingBooked
  <1>3. CASE Reply(i) \/ ReplyLost(i) \/ AskOperator(i) \/ SendToAddress(i)
    <2>1. /\ proc[i].pc \in Holding /\ proc'[i].pc \in Holding /\ OnlyRun(i)
          /\ proc'[i].cur = proc[i].cur /\ proc'[i].balance = proc[i].balance
      BY <1>3, PaymentEffect, GotoEffect
         DEF Reply, ReplyLost, AskOperator, SendToAddress, MovesTo, Paying, Holding
    <2> QED BY <1>1, <2>1, StaysKnown, QuietKnowledge DEF NothingBooked
  <1> QED BY <1>2, <1>3, BetweenEffect, GetRequestEffect DEF Browse, Idle

LEMMA GetProfileKnowledge ==
  ASSUME TypeInv, \A j \in Processors : KnowsBalance(j), ~resumed', NEW i \in Processors,
         GetProfile(i)
  PROVE  NothingBooked /\ \A j \in Processors : KnowsBalance(j)'
  <1>1. UNCHANGED <<profile, deducts, ledger>> /\ proc[i].state # Paid
    BY DEF GetProfile, docs, Paid
  <1>2. ReadsProfile(i, profile[user(i)]) /\ OnlyRun(i)
    BY GetProfileEffect
  <1>3. CASE proc'[i].pc \in Idle \cup {"setInsufficientFunds"}
    <2>1. proc'[i].pc \notin Holding \cup {"lockProfile"}
      BY <1>3 DEF Idle, Holding, Paying
    <2> QED BY <1>1, <1>2, <2>1, StaysKnown, QuietKnowledge DEF NothingBooked
  <1>4. CASE MovesOn(i, {"lockProfile"}) /\ proc'[i].balance = profile[user(i)].balance
    <2>1. KnowsBalance(i)'
      BY <1>1, <1>4 DEF KnowsBalance, MovesOn, user
    <2> QED BY <1>1, <1>2, <2>1, QuietKnowledge DEF NothingBooked
  <1> QED BY <1>1, <1>2, <1>3, <1>4 DEF ReadsProfile, MovesOn

LEMMA StoresRequestKnowledge ==
  ASSUME TypeInv, \A j \in Processors : KnowsBalance(j), NEW i \in Processors,
         StoresRequest(i)
  PROVE  NothingBooked /\ \A j \in Processors : KnowsBalance(j)'
  <1>1. UNCHANGED <<profile, deducts, ledger>>
    BY DEF StoresRequest, SetInsufficientFunds, SetProcessing, Revert,
       SetBitcoindReturnedError, SetProcessedBut, SetDone, hist
  <1>2. CASE SetInsufficientFunds(i) \/ SetDone(i)
    <2>1. \E s : StoreRequest(i, s, "next")
      BY <1>2 DEF SetInsufficientFunds, SetDone
    <2>2. OnlyRun(i) /\ proc'[i].pc \notin Holding \cup {"lockProfile"}
      <3>1. PICK s : StoreRequest(i, s, "next")
        BY <2>1
      <3>2. Stores(i, s, "next") /\ OnlyRun(i)
        BY <3>1, StoreRequestEffect
      <3> QED BY <3>2 DEF Stores, Holding, Paying
    <2> QED BY <1>1, <2>2, StaysKnown, QuietKnowledge DEF NothingBooked
  <1>3. CASE SetProcessing(i) \/ Revert(i) \/ SetBitcoindReturnedError(i) \/ SetProcessedBut(i)
    <2>1. /\ proc[i].pc \in Holding
          /\ \E s : \E p \in {"sendToAddress", "unlock", "deduct"} : StoreRequest(i, s, p)
      BY <1>3 DEF SetProcessing, Revert, SetBitcoindReturnedError, SetProcessedBut,
         Holding, Paying
    <2>2. {"sendToAddress", "unlock", "deduct"} \subseteq Holding
      BY DEF Holding, Paying
    <2>3. \/ OnlyRun(i) /\ proc'[i].pc = "stopped"
          \/ /\ OnlyRun(i) /\ proc'[i].pc \in Holding
             /\ proc'[i].cur = proc[i].cur /\ proc'[i].balance = proc[i].balance
      <3>1. PICK s : \E p \in {"sendToAddress", "unlock", "deduct"} : StoreRequest(i, s, p)
        BY <2>1
      <3>2. PICK p \in {"sendToAddress", "unlock", "deduct"} : StoreRequest(i, s, p)
        BY <3>1
      <3>3. Stores(i, s, p) /\ OnlyRun(i)
        BY <3>2, StoreRequestEffect
      <3> QED BY <2>2, <3>3 DEF Stores
    <2>4. "stopped" \notin Holding \cup {"lockProfile"}
      BY DEF Holding, Paying
    <2> QED BY <1>1, <2>1, <2>3, <2>4, StaysKnown, QuietKnowledge DEF NothingBooked
  <1> QED BY <1>2, <1>3 DEF StoresRequest

LEMMA LockProfileKnowledge ==
  ASSUME TypeInv, \A j \in Processors : KnowsProfile(j) /\ KnowsBalance(j),
         NEW i \in Processors, LockProfile(i)
  PROVE  NothingBooked /\ \A j \in Processors : KnowsBalance(j)'
  <1> DEFINE v == user(i)
             r == proc[i].cur
  <1>1. UNCHANGED <<deducts, ledger>> /\ proc[i].pc = "lockProfile"
    BY DEF LockProfile, hist
  <1>2. LocksOrSkips(i) /\ OnlyRun(i)
    BY LockProfileEffect
  <1>3. CASE proc'[i].pc = "next" /\ UNCHANGED profile
    <2>1. proc'[i].pc \notin Holding \cup {"lockProfile"}
      BY <1>3 DEF Holding, Paying
    <2> QED BY <1>1, <1>2, <1>3, <2>1, StaysKnown, QuietKnowledge DEF NothingBooked
  <1>4. CASE /\ profile[v].cas = proc[i].profileCas
             /\ SetProfile(v, proc[i].balance, r)
             /\ MovesOn(i, {"setProcessing"}) /\ proc'[i].balance = proc[i].balance
    <2>1. v \in Users /\ profile \in [Users -> Profile] /\ user(i)' = v
      BY <1>1, <1>4, RunTypes DEF Idle, MovesOn, user
    <2>2. profile[v].lock = "none" /\ proc[i].balance = profile[v].balance
      BY <1>1, <1>4 DEF KnowsProfile, KnowsBalance
    <2>3. profile'[v] = [balance |-> proc[i].balance, cas |-> profile[v].cas + 1, lock |-> r]
          /\ \A u \in Users : u # v => profile'[u] = profile[u]
      BY <1>4, <2>1 DEF SetProfile
    <2>4. profile'[v].balance = proc[i].balance
      BY <2>3
    <2>5. KnowsBalance(i)'
      BY <1>4, <2>1, <2>4 DEF KnowsBalance
    <2>6. ASSUME NEW j \in Processors, j # i PROVE KnowsBalance(j)'
      <3>1. ~(proc[j].pc \in Holding /\ v = user(j))
        <4>1. proc[j].pc \in Holding => proc[j].cur \in Requests
          BY RunTypes DEF Holding, Paying, Idle
        <4> QED BY <2>2, <4>1 DEF KnowsProfile
      <3> QED BY <1>2, <1>4, <2>1, <2>6, <3>1, KnowledgeFrame DEF OnlyRun
    <2>7. NothingBooked
      BY <1>1, <2>2, <2>3, <2>4 DEF NothingBooked
    <2> QED BY <2>5, <2>6, <2>7
  <1> QED BY <1>2, <1>3, <1>4 DEF LocksOrSkips

LEMMA ReleaseKnowledge ==
  ASSUME TypeInv, OneHolder, NEW i \in Processors,
         \A j \in Processors : KnowsProfile(j) /\ KnowsDeducted(j) /\ KnowsBalance(j),
         UnlockWithoutDebitting(i) \/ DeductAndUnlock(i)
  PROVE  /\ NothingBooked \/ \E r \in Requests : DeductionBooked(r)
         /\ \A j \in Processors : KnowsBalance(j)'
  <1> DEFINE v == user(i)
             r == proc[i].cur
  <1>1. /\ proc[i].pc \in {"unlock", "deduct"} /\ proc[i].pc \in Holding
        /\ ledger' = ledger
    BY DEF UnlockWithoutDebitting, DeductAndUnlock, Holding, hist
  <1>2. /\ r \in Requests /\ v \in Users /\ v = UserOf[r] /\ profile \in [Users -> Profile]
    BY <1>1, RunTypes DEF Idle, user
  <1>3. proc[i].balance = profile[v].balance
    BY <1>1 DEF KnowsBalance
  <1>4. OnlyRun(i) /\ proc'[i].pc \in {"next", "stopped", "setDone"}
    <2>1. Goto(i, "next") \/ Stop(i, "stopped") \/ Goto(i, "setDone")
      BY DEF UnlockWithoutDebitting, DeductAndUnlock
    <2> QED BY <2>1, GotoEffect, StopEffect DEF MovesTo
  <1>5. KnowsBalance(i)'
    BY <1>4 DEF KnowsBalance, Holding, Paying
  <1>6. ASSUME NEW j \in Processors, j # i PROVE KnowsBalance(j)'
    <2>1. profile' = profile \/ \E b, l : SetProfile(v, b, l)
      BY DEF UnlockWithoutDebitting, DeductAndUnlock
    <2>2. proc'[j] = proc[j]
      BY <1>4, <1>6 DEF OnlyRun
    <2>3. CASE profile' = profile
      BY <2>2, <2>3 DEF KnowsBalance, user
    <2>4. CASE \E b, l : SetProfile(v, b, l)
      <3>1. ~(proc[j].pc \in Holding /\ user(j) = v)
        BY <1>1, <1>6 DEF OneHolder
      <3> QED BY <1>2, <2>2, <2>4, <3>1, KnowledgeFrame
    <2> QED BY <2>1, <2>3, <2>4
  <1>7. ASSUME NEW b, NEW l, SetProfile(v, b, l)
        PROVE  profile'[v].balance = b /\ \A w \in Users \ {v} : profile'[w] = profile[w]
    BY <1>2, <1>7 DEF SetProfile
  <1>8. CASE UnlockWithoutDebitting(i)
    <2>1. deducts' = deducts
      BY <1>8 DEF UnlockWithoutDebitting, hist
    <2>2. profile' = profile \/ SetProfile(v, proc[i].balance, Unlocked(i))
      BY <1>8 DEF UnlockWithoutDebitting
    <2>3. \A w \in Users : profile'[w].balance = profile[w].balance
      BY <1>3, <1>7, <2>2
    <2> QED BY <1>1, <1>5, <1>6, <2>1, <2>3 DEF NothingBooked
  <1>9. CASE DeductAndUnlock(i)
    <2>1. CASE UNCHANGED <<profile, deducts>>
      BY <1>1, <1>5, <1>6, <2>1 DEF NothingBooked
    <2>2. CASE /\ SetProfile(v, proc[i].balance - Total(r), Unlocked(i))
               /\ deducts' = [deducts EXCEPT ![r] = deducts[r] + 1]
      <3>1. deducts[r] = 0
        BY <1>9 DEF DeductAndUnlock, KnowsDeducted
      <3>2. deducts' = [deducts EXCEPT ![r] = 1]
        BY <2>2, <3>1
      <3>3. /\ profile'[v].balance = proc[i].balance - Total(r)
            /\ \A w \in Users \ {v} : profile'[w] = profile[w]
        BY <1>7, <2>2
      <3>4. DeductionBooked(r)
        BY <1>1, <1>2, <1>3, <3>1, <3>2, <3>3 DEF DeductionBooked
      <3> QED BY <1>2, <1>5, <1>6, <3>4
    <2> QED BY <1>9, <2>1, <2>2 DEF DeductAndUnlock
  <1> QED BY <1>8, <1>9

LEMMA OthersKnowledge ==
  ASSUME TypeInv, \A j \in Processors : KnowsProfile(j) /\ KnowsBalance(j),
         NEW v \in Users, Others(v)
  PROVE  /\ NothingBooked \/ ChangeBooked(v)
         /\ \A j \in Processors : KnowsBalance(j)'
  <1>1. /\ UNCHANGED <<proc, deducts>> /\ profile[v].lock \in {"none", "other"}
        /\ profile \in [Users -> Profile]
    BY DEF Others, OtherLock, OtherUnlock, AddFunds, hist, TypeInv, TypeOK
  <1>2. ASSUME NEW b, NEW l, SetProfile(v, b, l)
        PROVE  /\ profile'[v].balance = b /\ \A w \in Users \ {v} : profile'[w] = profile[w]
               /\ \A j \in Processors : KnowsBalance(j)'
    <2>1. ASSUME NEW j \in Processors PROVE KnowsBalance(j)'
      <3>1. ~(proc[j].pc \in Holding /\ user(j) = v)
        <4>1. proc[j].pc \in Holding => proc[j].cur \in Requests
          BY RunTypes DEF Holding, Paying, Idle
        <4> QED BY <1>1, <4>1 DEF KnowsProfile
      <3> QED BY <1>1, <1>2, <3>1, KnowledgeFrame
    <2> QED BY <1>1, <1>2, <2>1 DEF SetProfile
  <1>3. CASE OtherLock(v)
    <2>1. SetProfile(v, profile[v].balance, "other") /\ ledger' = ledger
      BY <1>3 DEF OtherLock, hist
    <2> QED BY <1>1, <1>2, <2>1 DEF NothingBooked
  <1>4. CASE OtherUnlock(v) \/ AddFunds(v)
    <2>1. PICK d \in OtherAmounts : Change(v, d)
      BY <1>4 DEF OtherUnlock, AddFunds
    <2>2. /\ SetProfile(v, profile[v].balance + d, "none")
          /\ ledger' = [ledger EXCEPT ![v] = ledger[v] + d]
      BY <2>1 DEF Change
    <2> QED BY <1>1, <1>2, <2>2 DEF ChangeBooked
  <1> QED BY <1>3, <1>4 DEF Others

LEMMA NextBooks ==
  ASSUME BooksInv, [Next]_vars
  PROVE  BooksInv' /\ (~resumed' => BookStep)
  <1>1. IInv'
    BY NextTypeInv, NextRequestInv, NextLockInv DEF BooksInv, IInv
  <1> SUFFICES ASSUME ~resumed'
               PROVE  BookStep /\ \A j \in Processors : KnowsBalance(j)'
    BY <1>1 DEF BooksInv
  <1>2. /\ TypeInv /\ OneHolder
        /\ \A j \in Processors : KnowsBalance(j) /\ KnowsProfile(j) /\ KnowsDeducted(j)
    BY NextKeepsResumed DEF BooksInv, IInv, LockInv
  <1>3. CASE UNCHANGED vars
    <2>1. UNCHANGED <<proc, profile, deducts, ledger>>
      BY <1>3 DEF vars
    <2> QED BY <1>2, <2>1 DEF BookStep, NothingBooked, KnowsBalance, user
  <1>4. ASSUME NEW i \in Processors, Run(i)
        PROVE  BookStep /\ \A j \in Processors : KnowsBalance(j)'
    BY <1>2, <1>4, BrowseKnowledge, GetProfileKnowledge, LockProfileKnowledge,
       StoresRequestKnowledge, ReleaseKnowledge DEF Run, BookStep
  <1>5. ASSUME NEW r \in Requests, Schedule(r)
        PROVE  BookStep /\ \A j \in Processors : KnowsBalance(j)'
    <2>1. UNCHANGED <<proc, profile, deducts, ledger>>
      BY <1>5 DEF Schedule, hist
    <2> QED BY <1>2, <2>1 DEF BookStep, NothingBooked, KnowsBalance, user
  <1>6. ASSUME NEW v \in Users, Others(v)
        PROVE  BookStep /\ \A j \in Processors : KnowsBalance(j)'
    BY <1>2, <1>6, OthersKnowledge DEF BookStep
  <1> QED BY <1>3, <1>4, <1>5, <1>6, NextIsSomeones

LEMMA InitBooks == Init => BooksInv /\ BalancesReconcile
  <1> SUFFICES ASSUME Init PROVE BooksInv /\ BalancesReconcile
    OBVIOUS
  <1>1. TypeInv /\ IInv
    BY InitTypeInv, InitRequestInv, InitLockInv DEF IInv
  <1>2. \A i \in Processors : proc[i].pc = "stopped"
    BY DEF Init, Stopped
  <1>3. BooksInv
    BY <1>1, <1>2 DEF BooksInv, KnowsBalance, Holding, Paying
  <1>4. ASSUME NEW v \in Users PROVE profile[v].balance = ledger[v] - Deducted(v)
    <2>1. \A r \in Asked(v) : cost[r] = 0
      <3>1. \A r \in Requests : deducts[r] = 0 /\ cost[r] = deducts[r] * Total(r)
        BY <1>1, CostType DEF Init
      <3> QED BY <3>1, TotalIsInt DEF Asked
    <2>2. Deducted(v) = 0
      BY <2>1, DeductedIsASum, AskedIsFinite, SumOverZero
    <2>3. profile[v].balance = StartBalance[v] /\ ledger[v] = StartBalance[v]
      BY DEF Init
    <2> QED BY <2>2, <2>3
  <1> QED BY <1>3, <1>4 DEF BalancesReconcile

\* What runs know of balances, until a run meets a request paid and not done:
\* nobody stores a profile but who locked it or stores under its CAS.
THEOREM BooksInvariant == Spec => []BooksInv
  <1>1. Init => BooksInv
    BY InitBooks
  <1>2. BooksInv /\ [Next]_vars => BooksInv'
    BY NextBooks
  <1> QED BY <1>1, <1>2, PTL DEF Spec

\* However many runs overlap and whatever the rest of the system does between
\* their steps, a balance is what deposits, sales and purchases left on it less
\* the requests deducted, until a run meets a request paid and not done.
THEOREM BalancesAlwaysReconcile == Spec => []BalancesReconcile
  <1>1. BooksInv /\ BalancesReconcile /\ [Next]_vars => BalancesReconcile'
    <2> SUFFICES ASSUME BooksInv, BalancesReconcile, [Next]_vars, ~resumed'
                 PROVE  \A v \in Users : profile'[v].balance = ledger'[v] - Deducted(v)'
      BY DEF BalancesReconcile
    <2>1. TypeInv /\ TypeInv' /\ BookStep /\ ~resumed
      BY NextBooks, NextKeepsResumed DEF BooksInv, IInv
    <2>2. \A v \in Users : profile[v].balance = ledger[v] - Deducted(v)
      BY <2>1 DEF BalancesReconcile
    <2> QED BY <2>1, <2>2, BookStepReconciles
  <1> QED BY <1>1, InitBooks, BooksInvariant, PTL DEF Spec

-----------------------------------------------------------------------------
(* One run at a time: what is paid is accounted for.  With two runs under   *)
(* way, the one whose request is stale can lock the profile of a request    *)
(* that the other has paid and done, until its next store fails.            *)

OneRun == \A i, j \in Processors : i = j

\* What the only run knows of the state of its request.
KnowsState(i) ==
  /\ proc[i].pc \in {"getProfile", "setInsufficientFunds", "lockProfile", "setProcessing"} =>
       IsCurrent(i)
  /\ proc[i].pc = "unlock" => request[proc[i].cur].state \notin {Paid, "processed_Done"}

\* What PaidIsAccountedFor says of one request.
IsAccountedFor(r) ==
  LET locked == profile[UserOf[r]].lock = r IN
  /\ request[r].state = Paid => deducts[r] = IF locked THEN 0 ELSE 1
  /\ request[r].state = "processed_Done" => deducts[r] = 1 /\ ~locked

AccountedInv ==
  BooksInv /\ (~resumed => /\ \A i \in Processors : KnowsState(i)
                           /\ \A r \in Requests : IsAccountedFor(r))

\* Nothing that tells of request r changes.
LEMMA AccountedFrame ==
  ASSUME NEW r \in Requests, IsAccountedFor(r), request'[r] = request[r],
         deducts'[r] = deducts[r],
         profile'[UserOf[r]].lock = r <=> profile[UserOf[r]].lock = r
  PROVE  IsAccountedFor(r)'
  BY DEF IsAccountedFor

\* The profile of v, which is not locked to q, is stored and unlocked.
LEMMA UnlockFrame ==
  ASSUME TypeInv, NEW v \in Users, NEW b, NEW l \in {"none", "other"}, SetProfile(v, b, l),
         NEW q \in Requests, profile[v].lock # q, IsAccountedFor(q),
         request'[q] = request[q], deducts'[q] = deducts[q]
  PROVE  IsAccountedFor(q)'
  <1>1. profile'[v].lock = l /\ \A w \in Users \ {v} : profile'[w] = profile[w]
    BY DEF TypeInv, TypeOK, SetProfile
  <1>2. UserOf[q] \in Users /\ q \notin {"none", "other"}
    OBVIOUS
  <1>3. profile'[UserOf[q]].lock = q <=> profile[UserOf[q]].lock = q
    BY <1>1, <1>2
  <1> QED BY <1>3, AccountedFrame

LEMMA BrowseState ==
  ASSUME TypeInv, NEW i \in Processors, KnowsState(i), Browse(i) \/ SendToAddress(i)
  PROVE  KnowsState(i)' /\ UNCHANGED <<profile, request, deducts>>
  <1>1. UNCHANGED <<profile, request, deducts>>
    <2>1. Browse(i) => UNCHANGED <<docs, hist>>
      BY Zenon DEF Browse, processNextWithdrawalRequest, proceedOntoExecutionIteration, Quit,
         Crash, GetRequest, Reply, ReplyLost, AskOperator, processWithdrawalRequests
    <2>2. SendToAddress(i) => UNCHANGED <<docs, hist>>
      BY DEF SendToAddress
    <2> QED BY <2>1, <2>2 DEF docs, hist
  <1>2. CASE proc'[i].pc \in Idle \cup {"getRequest"}
    BY <1>1, <1>2 DEF KnowsState, Idle
  <1>3. CASE GetRequest(i)
    <2>1. \/ proc'[i].pc = "next"
          \/ /\ proc'[i].pc = "getProfile" /\ proc'[i].cur = proc[i].cur
             /\ proc'[i].cas = request[proc[i].cur].cas
      BY <1>3, GetRequestEffect
    <2> QED BY <1>1, <2>1 DEF KnowsState, IsCurrent
  <1>4. CASE Reply(i) \/ ReplyLost(i) \/ AskOperator(i) \/ SendToAddress(i)
    <2>1. proc'[i].pc \in Paying
      BY <1>4, PaymentEffect, GotoEffect DEF SendToAddress, MovesTo, Paying
    <2>2. proc'[i].pc \notin {"getProfile", "setInsufficientFunds", "lockProfile",
                             "setProcessing", "unlock"}
      BY <2>1 DEF Paying
    <2> QED BY <1>1, <2>2 DEF KnowsState
  <1> QED BY <1>1, <1>2, <1>3, <1>4, BetweenEffect DEF Browse

LEMMA GetProfileState ==
  ASSUME TypeInv, NEW i \in Processors, KnowsState(i), ~resumed', GetProfile(i)
  PROVE  KnowsState(i)' /\ UNCHANGED <<profile, request, deducts>>
  <1>1. UNCHANGED <<profile, request, deducts>> /\ proc[i].state # Paid /\ proc[i].pc = "getProfile"
    BY DEF GetProfile, Paid, docs
  <1>2. \/ proc'[i].pc \in Idle
        \/ /\ proc'[i].pc \in {"setInsufficientFunds", "lockProfile"}
           /\ proc'[i].cur = proc[i].cur /\ proc'[i].cas = proc[i].cas
    BY <1>1, GetProfileEffect DEF ReadsProfile, MovesOn
  <1> QED BY <1>1, <1>2 DEF KnowsState, IsCurrent, Idle

LEMMA LockProfileState ==
  ASSUME TypeInv, RequestInv, NEW i \in Processors, KnowsState(i), KnowsProfile(i),
         \A r \in Requests : IsAccountedFor(r), LockProfile(i)
  PROVE  KnowsState(i)' /\ \A r \in Requests : IsAccountedFor(r)'
  <1> DEFINE v == user(i)
  <1>1. /\ UNCHANGED <<deducts, request>> /\ proc[i].pc = "lockProfile"
        /\ LocksOrSkips(i)
    BY LockProfileEffect DEF LockProfile, hist
  <1>2. CASE proc'[i].pc = "next" /\ UNCHANGED profile
    BY <1>1, <1>2, AccountedFrame DEF KnowsState
  <1>3. CASE /\ profile[v].cas = proc[i].profileCas
             /\ SetProfile(v, proc[i].balance, proc[i].cur)
             /\ MovesOn(i, {"setProcessing"})
    <2> PICK r \in Requests : r = proc[i].cur
      BY <1>1, RunTypes DEF Idle
    <2>1. v \in Users /\ v = UserOf[r] /\ profile \in [Users -> Profile]
      BY <1>1, RunTypes DEF Idle, user
    <2> HIDE DEF v
    <2>2. KnowsState(i)'
      BY <1>1, <1>3 DEF KnowsState, IsCurrent, MovesOn
    <2>3. profile[v].lock = "none" /\ request[r].state = "unprocessed"
      BY <1>1, <1>3 DEF KnowsProfile, KnowsState, RequestInv, Knows, v
    <2>4. profile'[v].lock = r /\ \A w \in Users \ {v} : profile'[w] = profile[w]
      BY <1>3, <2>1 DEF SetProfile
    <2>5. IsAccountedFor(r)'
      BY <1>1, <2>3 DEF IsAccountedFor, Paid
    <2>6. ASSUME NEW q \in Requests, q # r PROVE IsAccountedFor(q)'
      <3>1. profile'[UserOf[q]].lock = q <=> profile[UserOf[q]].lock = q
        BY <2>3, <2>4, <2>6
      <3> QED BY <1>1, <3>1, AccountedFrame
    <2> QED BY <2>2, <2>5, <2>6
  <1> QED BY <1>1, <1>2, <1>3 DEF LocksOrSkips

\* The current request is stored in state s, where it is accounted for.
LEMMA StoreState ==
  ASSUME TypeInv, NEW i \in Processors, proc[i].cur \in Requests,
         UNCHANGED <<profile, deducts>>,
         \A r \in Requests : IsAccountedFor(r),
         NEW s, NEW p \in {"next", "sendToAddress", "unlock", "deduct"}, Stores(i, s, p),
         p = "unlock" => s \notin {Paid, "processed_Done"},
         LET r == proc[i].cur
             locked == profile[UserOf[r]].lock = r IN
         IsCurrent(i) =>
           /\ s = Paid => deducts[r] = 0 /\ locked
           /\ s = "processed_Done" => deducts[r] = 1 /\ ~locked
  PROVE  KnowsState(i)' /\ \A r \in Requests : IsAccountedFor(r)'
  <1> PICK r \in Requests : r = proc[i].cur
    OBVIOUS
  <1> DEFINE locked == profile[UserOf[r]].lock = r
  <1>1. CASE ~IsCurrent(i)
    <2>1. request' = request /\ proc'[i].pc = "stopped"
      BY <1>1 DEF Stores
    <2> QED BY <2>1, AccountedFrame DEF KnowsState
  <1>2. CASE IsCurrent(i)
    <2>1. /\ request' = [request EXCEPT ![r] = [state |-> s, cas |-> request[r].cas + 1]]
          /\ proc'[i].pc = p /\ proc'[i].cur = r
      BY <1>2 DEF Stores
    <2>2. request'[r].state = s /\ \A q \in Requests \ {r} : request'[q] = request[q]
      BY <2>1, RunTypes
    <2>3. KnowsState(i)'
      BY <2>1, <2>2 DEF KnowsState
    <2>4. /\ s = Paid => deducts[r] = 0 /\ locked
          /\ s = "processed_Done" => deducts[r] = 1 /\ ~locked
      BY <1>2
    <2>5. IsAccountedFor(r)'
      BY <2>2, <2>4 DEF IsAccountedFor, Paid
    <2>6. \A q \in Requests \ {r} : IsAccountedFor(q)'
      BY <2>2, AccountedFrame
    <2> QED BY <2>3, <2>5, <2>6
  <1> QED BY <1>1, <1>2

LEMMA StoresRequestState ==
  ASSUME IInv, ~resumed, NEW i \in Processors, KnowsState(i),
         \A r \in Requests : IsAccountedFor(r), StoresRequest(i)
  PROVE  KnowsState(i)' /\ \A r \in Requests : IsAccountedFor(r)'
  <1> DEFINE locked == profile[UserOf[proc[i].cur]].lock = proc[i].cur
  <1>1. proc[i].pc \notin Idle /\ UNCHANGED <<profile, deducts>>
    BY DEF StoresRequest, SetInsufficientFunds, SetProcessing, Revert,
       SetBitcoindReturnedError, SetProcessedBut, SetDone, Idle, hist
  <1>2. TypeInv /\ proc[i].cur \in Requests
    BY <1>1, RunTypes DEF IInv
  <1>3. /\ Knows(i) /\ KnowsDeducted(i) /\ KnowsProfile(i) /\ StateTellsDeducted(proc[i].cur)
        /\ IsAccountedFor(proc[i].cur)
    BY <1>2 DEF IInv, RequestInv, LockInv
  <1>4. ASSUME NEW s, NEW p \in {"next", "sendToAddress", "unlock", "deduct"},
               StoreRequest(i, s, p),
               p = "unlock" => s \notin {Paid, "processed_Done"},
               IsCurrent(i) =>
                 /\ s = Paid => deducts[proc[i].cur] = 0 /\ locked
                 /\ s = "processed_Done" => deducts[proc[i].cur] = 1 /\ ~locked
        PROVE  KnowsState(i)' /\ \A r \in Requests : IsAccountedFor(r)'
    BY <1>1, <1>2, <1>4, StoreRequestEffect, StoreState
  <1>5. CASE SetInsufficientFunds(i)
    BY <1>4, <1>5 DEF SetInsufficientFunds, Paid
  <1>6. CASE SetProcessing(i)
    BY <1>4, <1>6 DEF SetProcessing, Paid
  <1>7. CASE Revert(i)
    BY <1>4, <1>7 DEF Revert, Paid
  <1>8. CASE SetBitcoindReturnedError(i)
    BY <1>4, <1>8 DEF SetBitcoindReturnedError, Paid
  <1>9. CASE SetProcessedBut(i)
    <2>1. proc[i].pc = "setProcessedBut" /\ StoreRequest(i, Paid, "deduct")
      BY <1>9 DEF SetProcessedBut, Paid
    <2>2. deducts[proc[i].cur] = 0 /\ locked
      BY <1>3, <2>1 DEF Knows, StateTellsDeducted, KnowsProfile, Holding, Paying, user
    <2> QED BY <1>4, <2>1, <2>2 DEF Paid
  <1>10. CASE SetDone(i)
    <2>1. proc[i].pc = "setDone" /\ StoreRequest(i, "processed_Done", "next")
      BY <1>10 DEF SetDone
    <2>2. deducts[proc[i].cur] = 1
      BY <1>3, <2>1 DEF KnowsDeducted
    <2>3. IsCurrent(i) => ~locked
      BY <1>3, <2>1, <2>2 DEF Knows, IsAccountedFor
    <2> QED BY <1>4, <2>1, <2>2, <2>3 DEF Paid
  <1> QED BY <1>5, <1>6, <1>7, <1>8, <1>9, <1>10 DEF StoresRequest

LEMMA ReleaseState ==
  ASSUME IInv, ~resumed, NEW i \in Processors, KnowsState(i),
         \A r \in Requests : IsAccountedFor(r),
         UnlockWithoutDebitting(i) \/ DeductAndUnlock(i)
  PROVE  KnowsState(i)' /\ \A r \in Requests : IsAccountedFor(r)'
  <1>1. /\ proc[i].pc \in {"unlock", "deduct"} /\ proc[i].pc \in Holding
        /\ UNCHANGED request
    BY DEF UnlockWithoutDebitting, DeductAndUnlock, Holding
  <1>2. PICK r \in Requests : r = proc[i].cur
    BY <1>1, RunTypes DEF IInv, Idle
  <1>3. PICK v \in Users : v = user(i) /\ v = UserOf[r]
    BY <1>2 DEF user
  <1>4. TypeInv /\ deducts \in [Requests -> Nat] /\ profile \in [Users -> Profile]
    BY DEF IInv, TypeInv, TypeOK
  <1>5. /\ KnowsProfile(i) /\ KnowsDeducted(i)
        /\ profile[v].lock = r
    BY <1>1, <1>2, <1>3 DEF IInv, LockInv, KnowsProfile
  <1>6. KnowsState(i)'
    <2>1. Goto(i, "next") \/ Stop(i, "stopped") \/ Goto(i, "setDone")
      BY DEF UnlockWithoutDebitting, DeductAndUnlock
    <2>2. proc'[i].pc \in {"next", "stopped", "setDone"}
      BY <1>4, <2>1, GotoEffect, StopEffect DEF MovesTo
    <2> QED BY <2>2 DEF KnowsState
  <1>7. Unlocked(i) \in {"none", "other"}
    BY DEF Unlocked
  <1>8. CASE UnlockWithoutDebitting(i)
    <2>1. UNCHANGED deducts /\ proc[i].pc = "unlock"
      BY <1>8 DEF UnlockWithoutDebitting, hist
    <2>2. CASE profile' = profile
      BY <1>1, <1>6, <2>1, <2>2, AccountedFrame
    <2>3. CASE SetProfile(v, proc[i].balance, Unlocked(i))
      <3>1. IsAccountedFor(r)'
        BY <1>1, <1>2, <2>1 DEF KnowsState, IsAccountedFor
      <3>2. \A q \in Requests \ {r} : IsAccountedFor(q)'
        <4> SUFFICES ASSUME NEW q \in Requests \ {r} PROVE IsAccountedFor(q)'
          OBVIOUS
        <4> QED BY <1>1, <1>4, <1>5, <1>7, <2>1, <2>3, UnlockFrame
      <3> QED BY <1>6, <3>1, <3>2
    <2> QED BY <1>3, <1>8, <2>2, <2>3 DEF UnlockWithoutDebitting
  <1>9. CASE DeductAndUnlock(i)
    <2>1. CASE UNCHANGED <<profile, deducts>>
      BY <1>1, <1>6, <2>1, AccountedFrame
    <2>2. CASE /\ SetProfile(v, proc[i].balance - Total(r), Unlocked(i))
               /\ deducts' = [deducts EXCEPT ![r] = deducts[r] + 1]
      <3>1. deducts[r] = 0
        BY <1>2, <1>5, <1>9 DEF DeductAndUnlock, KnowsDeducted
      <3>2. /\ deducts'[r] = 1 /\ \A q \in Requests \ {r} : deducts'[q] = deducts[q]
        BY <1>4, <2>2, <3>1
      <3>3. profile'[v].lock \in {"none", "other"}
        BY <1>4, <1>7, <2>2 DEF SetProfile
      <3>4. IsAccountedFor(r)'
        <4>1. profile'[UserOf[r]].lock # r
          BY <1>3, <3>3
        <4> QED BY <1>1, <3>1, <3>2, <4>1 DEF IsAccountedFor, Paid
      <3>5. \A q \in Requests \ {r} : IsAccountedFor(q)'
        <4> SUFFICES ASSUME NEW q \in Requests \ {r} PROVE IsAccountedFor(q)'
          OBVIOUS
        <4> QED BY <1>1, <1>4, <1>5, <1>7, <2>2, <3>2, UnlockFrame
      <3> QED BY <1>6, <3>4, <3>5
    <2> QED BY <1>2, <1>3, <1>9, <2>1, <2>2 DEF DeductAndUnlock
  <1> QED BY <1>8, <1>9

LEMMA OthersState ==
  ASSUME TypeInv, \A j \in Processors : KnowsState(j),
         \A r \in Requests : IsAccountedFor(r), NEW v \in Users, Others(v)
  PROVE  (\A j \in Processors : KnowsState(j)') /\ \A r \in Requests : IsAccountedFor(r)'
  <1>1. /\ UNCHANGED <<request, proc, deducts>> /\ profile[v].lock \in {"none", "other"}
        /\ \E b : \E l \in {"none", "other"} : SetProfile(v, b, l)
    BY DEF Others, OtherLock, OtherUnlock, AddFunds, Change, hist
  <1>2. \A j \in Processors : KnowsState(j)'
    BY <1>1 DEF KnowsState, IsCurrent
  <1>3. ASSUME NEW q \in Requests PROVE IsAccountedFor(q)'
    <2>1. PICK b : \E l \in {"none", "other"} : SetProfile(v, b, l)
      BY <1>1
    <2>2. PICK l \in {"none", "other"} : SetProfile(v, b, l)
      BY <2>1
    <2> QED BY <1>1, <2>2, UnlockFrame
  <1> QED BY <1>2, <1>3

LEMMA ScheduleState ==
  ASSUME TypeInv, \A j \in Processors : KnowsState(j),
         \A r \in Requests : IsAccountedFor(r), NEW r \in Requests, Schedule(r)
  PROVE  (\A j \in Processors : KnowsState(j)') /\ \A q \in Requests : IsAccountedFor(q)'
  <1>1. /\ request' = [request EXCEPT ![r] = [state |-> "unprocessed", cas |-> request[r].cas + 1]]
        /\ request[r].state = "absent" /\ UNCHANGED <<proc, profile, deducts>>
        /\ request \in [Requests -> Request]
    BY DEF Schedule, SetRequest, hist, TypeInv, TypeOK
  <1>2. request'[r].state = "unprocessed"
        /\ \A q \in Requests : q # r => request'[q] = request[q]
    BY <1>1
  <1>3. ASSUME NEW j \in Processors PROVE KnowsState(j)'
    <2>1. proc[j].pc \notin Idle => request'[proc[j].cur] = request[proc[j].cur]
      BY <1>1, <1>2, RunTypes DEF Visits
    <2> QED BY <1>1, <2>1 DEF KnowsState, IsCurrent, Idle
  <1>4. IsAccountedFor(r)'
    BY <1>2 DEF IsAccountedFor, Paid
  <1>5. ASSUME NEW q \in Requests, q # r PROVE IsAccountedFor(q)'
    BY <1>1, <1>2, <1>5, AccountedFrame
  <1> QED BY <1>3, <1>4, <1>5

LEMMA NextAccounted == OneRun /\ AccountedInv /\ [Next]_vars => AccountedInv'
  <1> SUFFICES ASSUME OneRun, AccountedInv, [Next]_vars PROVE AccountedInv'
    OBVIOUS
  <1>1. BooksInv'
    BY NextBooks DEF AccountedInv
  <1> SUFFICES ASSUME ~resumed'
               PROVE  /\ \A i \in Processors : KnowsState(i)'
                      /\ \A r \in Requests : IsAccountedFor(r)'
    BY <1>1 DEF AccountedInv
  <1>2. /\ ~resumed /\ IInv /\ TypeInv /\ RequestInv
        /\ \A i \in Processors : KnowsProfile(i) /\ KnowsState(i)
        /\ \A r \in Requests : IsAccountedFor(r)
    BY NextKeepsResumed DEF AccountedInv, BooksInv, IInv, LockInv
  <1>3. CASE UNCHANGED vars
    <2>1. UNCHANGED <<proc, profile, request, deducts>>
      BY <1>3 DEF vars
    <2> QED BY <1>2, <2>1, AccountedFrame DEF KnowsState, IsCurrent
  <1>4. ASSUME NEW i \in Processors, Run(i)
        PROVE  /\ \A j \in Processors : KnowsState(j)'
               /\ \A r \in Requests : IsAccountedFor(r)'
    <2>1. \A j \in Processors : j = i
      BY DEF OneRun
    <2>2. CASE Browse(i) \/ SendToAddress(i) \/ GetProfile(i)
      <3>1. KnowsState(i)' /\ UNCHANGED <<profile, request, deducts>>
        BY <1>2, <2>2, BrowseState, GetProfileState
      <3> QED BY <1>2, <2>1, <3>1, AccountedFrame
    <2>3. CASE LockProfile(i) \/ StoresRequest(i) \/ UnlockWithoutDebitting(i)
                 \/ DeductAndUnlock(i)
      BY <1>2, <2>1, <2>3, LockProfileState, StoresRequestState, ReleaseState
    <2> QED BY <1>4, <2>2, <2>3 DEF Run
  <1>5. ASSUME NEW r \in Requests, Schedule(r)
        PROVE  /\ \A j \in Processors : KnowsState(j)'
               /\ \A q \in Requests : IsAccountedFor(q)'
    BY <1>2, <1>5, ScheduleState
  <1>6. ASSUME NEW v \in Users, Others(v)
        PROVE  /\ \A j \in Processors : KnowsState(j)'
               /\ \A r \in Requests : IsAccountedFor(r)'
    BY <1>2, <1>6, OthersState
  <1> QED BY <1>3, <1>4, <1>5, <1>6, NextIsSomeones

LEMMA InitAccounted == Init => AccountedInv
  <1> SUFFICES ASSUME Init PROVE AccountedInv
    OBVIOUS
  <1>1. \A i \in Processors : proc[i].pc = "stopped"
    BY DEF Init, Stopped
  <1>2. \A r \in Requests : request[r].state = "absent"
    BY DEF Init
  <1> QED BY <1>1, <1>2, InitBooks DEF AccountedInv, KnowsState, IsAccountedFor, Paid

\* When only one run is under way at a time, a request paid and not done is
\* either locked and still to be deducted or deducted and unlocked, which is
\* all that a next run has to go by, and one that is done has been deducted
\* once; until a run meets one of the first kind.
THEOREM PaidStaysAccountedFor == OneRun /\ Spec => []PaidIsAccountedFor
  <1>1. OneRun /\ Init => OneRun /\ AccountedInv
    BY InitAccounted
  <1>2. (OneRun /\ AccountedInv) /\ [Next]_vars => (OneRun /\ AccountedInv)'
    BY NextAccounted DEF OneRun
  <1>3. AccountedInv => PaidIsAccountedFor
    BY DEF AccountedInv, IsAccountedFor, PaidIsAccountedFor, Paid
  <1> QED BY <1>1, <1>2, <1>3, PTL DEF Spec
=============================================================================
