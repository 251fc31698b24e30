----------------------------- MODULE BitcoinKeys -----------------------------
(***************************************************************************)
(* The Add Funds tab of ABC2: how a user is given a bitcoin key of his own, *)
(* and how what was paid to it is credited to his account.                  *)
(*                                                                         *)
(* Keys come from the huge bitcoin key list, whose pages are divided into   *)
(* ranges.  A range is claimed for the next page of a key set, and on that  *)
(* page a key is claimed for a request of a user.  Each claim is made under *)
(* a uuid by a store of one document, so that whoever finds the work of a   *)
(* dead tab (of the same user at an account, of anybody at a key set) does  *)
(* it again and arrives at the same claims.                                *)
(***************************************************************************)
EXTENDS Integers, Sequences, FiniteSetsExt

CONSTANTS
  Users, Tabs, NoUser,
  Sets,            \* key sets (1000 in the code)
  KeysPerPage,     \* ABC_NUM_BITCOIN_KEYS_ON_EACH_BITCOINKEYSET_PAGE
  RangesPerPage,   \* ABC_NUM_BITCOIN_KEY_RANGES_ON_EACH_HUGEBITCOINLIST_PAGE
  NoKey, NoPage,
  MaxHuge,         \* bound: pages of the huge list
  MaxEvents        \* bound: requests for a key, tabs that die or meet a database
                   \* error, and locks of accounts by other programs, altogether

ASSUME BitcoinKeysAssumption ==
  /\ NoUser \notin Users
  /\ {KeysPerPage, RangesPerPage, MaxHuge} \subseteq Nat \ {0}
  /\ MaxEvents \in Nat

VARIABLES
  account,      \* account[u]: the user's document
  cur,          \* cur[n]: bitcoinKeySet n's CurrentPage document
  page,         \* page[n][y]: page y of set n, or NoPage
  huge,         \* the pages of the huge bitcoin key list
  hugeCur,      \* its CurrentPage document
  tab,          \* the members of each Add Funds tab
  requests,     \* requests[u]: how many keys u has asked for
  events,       \* how many more there may be
  credited,     \* history: keys whose payment was credited
  ledger,       \* history: what others have added to each balance
  jumped        \* history: requests that a fill moved away from their page

docs == <<account, cur, page, huge, hugeCur>>
hist == <<credited, ledger, jumped>>
rest == <<requests, events, hist>>
vars == <<docs, tab, rest>>

\* Pages and users are numbered from 1.  The uuid of a fill is "n_y"; that of a
\* request names the user, the second and the session, here his nth request.
Ranges == (1..MaxHuge) \X (1..RangesPerPage)
Pages  == 1..(2 + Cardinality(Ranges))
Uuids  == Users \X (1..MaxEvents)
FirstRange(n) == <<0, n>>       \* what the initialiser put on page 1 of set n
Keys   == (Ranges \cup {FirstRange(n) : n \in Sets}) \X (1..KeysPerPage)

NoUuid == <<NoKey, 0>>
Account == [cas: Nat, locked: BOOLEAN, balance: Nat,
            state: {"NoKey", "GettingKey", "HaveKey"},
            key: Keys \cup {NoKey},                          \* of HaveKey
            set: Sets \cup {NoKey}, page: Pages \cup {0}, uuid: Uuids \cup {NoUuid}]
\* from = 0: the set is not locked for filling its next page.
Current == [cas: Nat, page: Pages, from: 0..(MaxHuge + 1)]
\* A page is only ever added to: it is its own CAS.
KeyPage == [range: Ranges \cup {FirstRange(n) : n \in Sets}, claims: Seq(Uuids)]
ASSUME NoPageAssumption == NoPage \notin KeyPage
Tab == [user: Users \cup {NoUser},
        pc: {"closed", "key", "analyze", "lockAccount", "getPage", "claimKey",
             "unlockAccount", "getNextPage", "getHugeCur", "lockSet", "getHugePage",
             "changeHugeCur", "claimRange", "relockSet", "addPage", "unlockSet", "credit"},
        pay: Keys \cup {NoKey},   \* m_CurrentBitcoinKeyForPayments
        doc: Account,             \* m_UserAccountJson..., and its CAS
        again: BOOLEAN,           \* ...DoingGettingKeyRecoverySoAccountLocked
        set: Sets \cup {NoKey}, page: Pages \cup {0}, uuid: Uuids \cup {NoUuid},
        cas: Nat,                 \* m_BitcoinKeySetCurrentPageCAS...
        z: 0..(MaxHuge + 1), z0: 0..(MaxHuge + 1),    \* PageZ, ..._NON_CHANGING
        fromCur: BOOLEAN,         \* m_PageZisFromCurrentPageInDb...
        hugeCas: Nat,
        seen: Seq(Uuids) \cup Seq(Sets \X Pages),     \* the page to be stored
        key: Keys \cup {NoKey}, range: Ranges \cup {NoPage}]

NewAccount == [cas |-> 1, locked |-> FALSE, balance |-> 0, state |-> "NoKey",
               key |-> NoKey, set |-> NoKey, page |-> 0, uuid |-> NoUuid]
NewTab == [user |-> NoUser, pc |-> "closed", pay |-> NoKey,
           doc |-> NewAccount, again |-> FALSE, set |-> NoKey, page |-> 0,
           uuid |-> NoUuid, cas |-> 0, z |-> 0, z0 |-> 0, fromCur |-> FALSE, hugeCas |-> 0,
           seen |-> <<>>, key |-> NoKey, range |-> NoPage]

Init ==
  /\ account = [u \in Users |-> NewAccount]
  /\ cur = [n \in Sets |-> [cas |-> 1, page |-> 1, from |-> 0]]
  /\ page = [n \in Sets |-> [y \in Pages |->
       IF y = 1 THEN [range |-> FirstRange(n), claims |-> <<>>] ELSE NoPage]]
  /\ huge = << <<>> >>
  /\ hugeCur = [cas |-> 1, page |-> 1]
  /\ tab = [s \in Tabs |-> NewTab]
  /\ requests = [u \in Users |-> 0]
  /\ events = MaxEvents
  /\ credited = {} /\ ledger = [u \in Users |-> 0] /\ jumped = {}

-----------------------------------------------------------------------------
(* A tab waits for one request at a time, and nobody can click meanwhile:   *)
(* an action is a request with the handler of its answer.  Members that are *)
(* set again before they are next read are reset once it is idle.           *)

Mine(s) == tab[s].user

Become(s, t) == tab' = [tab EXCEPT ![s] = t]

\* Rendering is resumed.  A tab that shows a message, or the button that asks
\* for a key, is as good as closed: a click on the button gets the account anew.
ShowKey(s, u, key) ==
  Become(s, [NewTab EXCEPT !.user = u, !.pc = "key", !.pay = key])
Nothing(s) == Become(s, NewTab)

CasMatches(cas, doc) == cas = doc.cas

\* An interrupted request is taken up with all that the account says of it.
\* Broken: only the most recent page is looked on.
RecoveringOnCurrent(u, a) ==
  [NewTab EXCEPT !.user = u, !.pc = "analyze", !.doc = a, !.again = TRUE,
                 !.set = a.set, !.uuid = a.uuid]
Recovering(u, a) ==
  [NewTab EXCEPT !.user = u, !.pc = "analyze", !.doc = a, !.again = TRUE,
                 !.set = a.set, !.page = a.page, !.uuid = a.uuid]

\* The tab is opened: it shows the key the account has.
determineBitcoinState(s, u) ==
  /\ tab[s].pc = "closed" /\ account[u].state = "HaveKey"
  /\ ShowKey(s, u, account[u].key)
  /\ UNCHANGED <<docs, rest>>

\* The button is clicked and the account got, or the tab is opened on an account
\* that is already getting a key.  A locked account is let alone.
checkNotAttemptingThenTransition(s, u) ==
  LET a == account[u] IN
  /\ tab[s].pc = "closed" /\ ~a.locked
  /\ \/ /\ a.state = "GettingKey"
        /\ Become(s, Recovering(u, a))
        /\ UNCHANGED <<requests, events>>
     \/ /\ a.state = "NoKey" /\ events > 0
        /\ requests' = [requests EXCEPT ![u] = @ + 1] /\ events' = events - 1
        /\ \E n \in Sets :
             Become(s, [NewTab EXCEPT !.user = u, !.pc = "analyze", !.doc = a,
                                      !.set = n, !.uuid = <<u, requests[u] + 1>>])
  /\ UNCHANGED <<docs, hist>>

\* proceedTo...AfterLockingUserAccount..._UnlessUserAccountAlreadyLocked
Proceeding(t) == [t EXCEPT !.pc = IF t.again THEN "getPage" ELSE "lockAccount"]

\* Broken: the lock is not looked for.
NeverFilling(c) == FALSE
FillingNext(c) == c.from > 0

\* Whoever finds the set locked for filling its next page fills it, and goes on
\* with that page.
analyzeCurrentPage(s) ==
  LET t == tab[s]
      c == cur[t.set]
  IN
  /\ t.pc = "analyze"
  /\ IF FillingNext(c)
     THEN /\ Become(s, [t EXCEPT !.pc = "getHugePage", !.cas = c.cas, !.page = c.page,
                                 !.z = c.from, !.z0 = c.from, !.fromCur = FALSE])
          /\ jumped' = IF t.page \in {0, c.page} THEN jumped ELSE jumped \cup {t.uuid}
     ELSE /\ Become(s, Proceeding([t EXCEPT !.cas = c.cas,
                                            !.page = IF @ = 0 THEN c.page ELSE @]))
          /\ UNCHANGED jumped
  /\ UNCHANGED <<docs, requests, events, credited, ledger>>

lockAccount(s) ==
  LET t == tab[s]
      u == Mine(s)
      locked == [t.doc EXCEPT !.cas = account[u].cas + 1, !.state = "GettingKey",
                              !.set = t.set, !.page = t.page, !.uuid = t.uuid]
  IN
  /\ t.pc = "lockAccount"
  /\ IF CasMatches(t.doc.cas, account[u])
     THEN /\ account' = [account EXCEPT ![u] = locked]
          /\ Become(s, [t EXCEPT !.pc = "getPage", !.doc.cas = locked.cas])
     ELSE Nothing(s) /\ UNCHANGED account
  /\ UNCHANGED <<cur, page, huge, hugeCur, rest>>

\* Broken: off by one.
HasRoomForOneMore(p) == Len(p.claims) <= KeysPerPage
HasRoom(p) == Len(p.claims) < KeysPerPage

\* Where on a page a uuid has claimed something.
\* Broken: it is not looked for.
Overlooked(claims, uuid) == {}
ClaimedFor(claims, uuid) == {i \in DOMAIN claims : claims[i] = uuid}

\* What is on a page: a key already claimed for this request, or else the first
\* unclaimed one, or else the next page is looked at.
LookedAt(t, p) ==
  LET found == ClaimedFor(p.claims, t.uuid) IN
  CASE found # {} ->
         [t EXCEPT !.pc = "unlockAccount", !.key = <<p.range, Min(found)>>]
    [] found = {} /\ HasRoom(p) ->
         [t EXCEPT !.pc = "claimKey", !.seen = p.claims, !.key = <<p.range, Len(p.claims) + 1>>]
    [] OTHER ->
         [t EXCEPT !.pc = "getNextPage", !.page = @ + 1]

getPage(s) ==
  LET t == tab[s]
      p == page[t.set][t.page]
  IN
  /\ t.pc = "getPage"
  /\ IF p = NoPage THEN Nothing(s) ELSE Become(s, LookedAt(t, p))
  /\ UNCHANGED <<docs, rest>>

getNextPage(s) ==
  LET t == tab[s]
      p == page[t.set][t.page]
  IN
  /\ t.pc = "getNextPage"
  /\ Become(s, IF p = NoPage THEN [t EXCEPT !.pc = "getHugeCur"] ELSE LookedAt(t, p))
  /\ UNCHANGED <<docs, rest>>

\* A page is stored if it is as it was seen.
\* Broken: whatever is on it now.
StorePageRegardless(seen, now) == TRUE
Unchanged(seen, now) == seen = now

claimKey(s) ==
  LET t == tab[s] IN
  /\ t.pc = "claimKey"
  /\ IF Unchanged(t.seen, page[t.set][t.page].claims)
     THEN /\ page' = [page EXCEPT ![t.set][t.page].claims = Append(t.seen, t.uuid)]
          /\ Become(s, [t EXCEPT !.pc = "unlockAccount", !.seen = <<>>])
     ELSE /\ Become(s, [t EXCEPT !.pc = "getPage", !.seen = <<>>])
          /\ UNCHANGED page
  /\ UNCHANGED <<account, cur, huge, hugeCur, rest>>

\* GettingKey -> HaveKey
unlockAccount(s) ==
  LET t == tab[s]
      u == Mine(s)
  IN
  /\ t.pc = "unlockAccount"
  /\ IF CasMatches(t.doc.cas, account[u])
     THEN /\ account' = [account EXCEPT ![u] =
               [t.doc EXCEPT !.cas = account[u].cas + 1, !.state = "HaveKey", !.key = t.key,
                             !.set = NoKey, !.page = 0, !.uuid = NoUuid]]
          /\ ShowKey(s, u, t.key)
     ELSE Nothing(s) /\ UNCHANGED account
  /\ UNCHANGED <<cur, page, huge, hugeCur, rest>>

-----------------------------------------------------------------------------
(* Filling the next page of a set.                                          *)

hugeCurrentPageGetComplete(s) ==
  LET t == tab[s] IN
  /\ t.pc = "getHugeCur"
  /\ Become(s, [t EXCEPT !.pc = "lockSet", !.fromCur = TRUE, !.hugeCas = hugeCur.cas,
                         !.z = hugeCur.page, !.z0 = hugeCur.page])
  /\ UNCHANGED <<docs, rest>>

lockSet(s) ==
  LET t == tab[s]
      c == cur[t.set]
  IN
  /\ t.pc = "lockSet"
  /\ IF CasMatches(t.cas, c)
     THEN /\ cur' = [cur EXCEPT ![t.set] = [cas |-> c.cas + 1, page |-> t.page, from |-> t.z]]
          /\ Become(s, [t EXCEPT !.pc = "getHugePage", !.cas = c.cas + 1])
     ELSE Nothing(s) /\ UNCHANGED cur
  /\ UNCHANGED <<account, page, huge, hugeCur, rest>>

Fill(t) == <<t.set, t.page>>

\* The range already claimed for this fill, or else the first unclaimed one, or
\* else the next page.  Out of keys: the set stays locked, from the page missing.
getHugePage(s) ==
  LET t == tab[s]
      ranges == huge[t.z]
      found == ClaimedFor(ranges, Fill(t))
      room == Len(ranges) < RangesPerPage
  IN
  /\ t.pc = "getHugePage"
  /\ IF t.z \notin DOMAIN huge
     THEN IF t.z # t.z0 THEN Become(s, [t EXCEPT !.pc = "relockSet"]) ELSE Nothing(s)
     ELSE Become(s,
       CASE found # {} -> [t EXCEPT !.pc = "addPage", !.range = <<t.z, Min(found)>>]
         [] found = {} /\ room -> [t EXCEPT !.pc = "claimRange", !.seen = ranges,
                                            !.range = <<t.z, Len(ranges) + 1>>]
         [] OTHER -> [t EXCEPT !.pc = IF t.fromCur THEN "changeHugeCur" ELSE @, !.z = @ + 1])
  /\ UNCHANGED <<docs, rest>>

changeHugeCur(s) ==
  LET t == tab[s] IN
  /\ t.pc = "changeHugeCur"
  /\ hugeCur' = IF CasMatches(t.hugeCas, hugeCur)
                THEN [cas |-> hugeCur.cas + 1, page |-> t.z] ELSE hugeCur
  /\ Become(s, [t EXCEPT !.pc = "getHugePage"])
  /\ UNCHANGED <<account, cur, page, huge, rest>>

claimRange(s) ==
  LET t == tab[s] IN
  /\ t.pc = "claimRange"
  /\ IF Unchanged(t.seen, huge[t.z])
     THEN /\ huge' = [huge EXCEPT ![t.z] = Append(t.seen, Fill(t))]
          /\ Become(s, [t EXCEPT !.pc = "addPage", !.seen = <<>>])
     ELSE /\ Become(s, [t EXCEPT !.pc = "getHugePage", !.seen = <<>>])
          /\ UNCHANGED huge
  /\ UNCHANGED <<account, cur, page, hugeCur, rest>>

relockSet(s) ==
  LET t == tab[s]
      c == cur[t.set]
  IN
  /\ t.pc = "relockSet"
  /\ cur' = IF CasMatches(t.cas, c)
            THEN [cur EXCEPT ![t.set] = [cas |-> c.cas + 1, page |-> t.page, from |-> t.z]]
            ELSE cur
  /\ Nothing(s)
  /\ UNCHANGED <<account, page, huge, hugeCur, rest>>

\* LCB_ADD: a neighbour would have made the exact same page.

addPage(s) ==
  LET t == tab[s] IN
  /\ t.pc = "addPage"
  /\ page' = IF page[t.set][t.page] = NoPage
             THEN [page EXCEPT ![t.set][t.page] = [range |-> t.range, claims |-> <<>>]]
             ELSE page
  /\ Become(s, [t EXCEPT !.pc = "unlockSet", !.range = NoPage])
  /\ UNCHANGED <<account, cur, huge, hugeCur, rest>>

unlockSet(s) ==
  LET t == tab[s]
      c == cur[t.set]
  IN
  /\ t.pc = "unlockSet"
  /\ IF CasMatches(t.cas, c)
     THEN /\ cur' = [cur EXCEPT ![t.set] = [cas |-> c.cas + 1, page |-> t.page, from |-> 0]]
          /\ Become(s, Proceeding(t))
     ELSE /\ Become(s, [t EXCEPT !.pc = "analyze"])
          /\ UNCHANGED cur
  /\ UNCHANGED <<account, page, huge, hugeCur, rest>>

-----------------------------------------------------------------------------
(* Crediting.                                                               *)

\* Broken: it is not asked whose key the account has now.
AnyKey(a, key) == ~a.locked
MayCredit(a, key) == ~a.locked /\ a.state = "HaveKey" /\ a.key = key

\* "Done With This Address" can be clicked once a check has shown a payment
\* confirmed, which may be at any time, and for good.
doneSendingBitcoins(s) ==
  LET t == tab[s]
      a == account[Mine(s)]
  IN
  /\ t.pc = "key"
  /\ IF MayCredit(a, t.pay)
     THEN Become(s, [t EXCEPT !.pc = "credit", !.doc = a])
     ELSE UNCHANGED tab
  /\ UNCHANGED <<docs, rest>>

creditConfirmedBitcoinAmount(s) ==
  LET t == tab[s]
      u == Mine(s)
  IN
  /\ t.pc = "credit"
  /\ IF CasMatches(t.doc.cas, account[u])
     THEN /\ account' = [account EXCEPT ![u] =
               [t.doc EXCEPT !.cas = account[u].cas + 1, !.balance = @ + 1,
                             !.state = "NoKey", !.key = NoKey]]
          /\ credited' = credited \cup {t.pay}
          /\ Nothing(s)
     ELSE ShowKey(s, u, t.pay) /\ UNCHANGED <<account, credited>>
  /\ UNCHANGED <<cur, page, huge, hugeCur, requests, events, ledger, jumped>>

-----------------------------------------------------------------------------
\* The tab is closed, or left for another.
Close(s) ==
  /\ tab[s].pc = "key"
  /\ Become(s, NewTab)
  /\ UNCHANGED <<docs, rest>>

\* The process dies, or a request ends in a database error; the last store may
\* have been made.
Crash(s) ==
  /\ tab[s].pc \notin {"closed", "key"} /\ events > 0
  /\ events' = events - 1
  /\ Become(s, NewTab)
  /\ UNCHANGED <<docs, requests, hist>>

\* A purchase, a withdrawal or the creditor locks the account, and gives it
\* back, perhaps with a changed balance.
OtherLock(u) ==
  /\ ~account[u].locked /\ events > 0
  /\ events' = events - 1
  /\ account' = [account EXCEPT ![u].locked = TRUE, ![u].cas = @ + 1]
  /\ UNCHANGED <<cur, page, huge, hugeCur, tab, requests, hist>>

OtherUnlock(u) ==
  /\ account[u].locked
  /\ \E more \in {0, 1} :
       /\ account' = [account EXCEPT ![u].locked = FALSE, ![u].cas = @ + 1,
                                     ![u].balance = @ + more]
       /\ ledger' = [ledger EXCEPT ![u] = @ + more]
  /\ UNCHANGED <<cur, page, huge, hugeCur, tab, requests, events,
                 credited, jumped>>

\* The page adder: the administrator refills the huge list.
addHugeBitcoinKeyListPage ==
  /\ Len(huge) < MaxHuge
  /\ huge' = Append(huge, <<>>)
  /\ UNCHANGED <<account, cur, page, hugeCur, tab, rest>>

-----------------------------------------------------------------------------
TabStep(s) ==
  \/ \E u \in Users : determineBitcoinState(s, u) \/ checkNotAttemptingThenTransition(s, u)
  \/ analyzeCurrentPage(s) \/ lockAccount(s) \/ getPage(s) \/ getNextPage(s)
  \/ claimKey(s) \/ unlockAccount(s)
  \/ hugeCurrentPageGetComplete(s) \/ lockSet(s) \/ getHugePage(s)
  \/ changeHugeCur(s) \/ claimRange(s) \/ relockSet(s) \/ addPage(s) \/ unlockSet(s)
  \/ doneSendingBitcoins(s) \/ creditConfirmedBitcoinAmount(s)
  \/ Close(s) \/ Crash(s)

Next ==
  \/ \E s \in Tabs : TabStep(s)
  \/ \E u \in Users : OtherLock(u) \/ OtherUnlock(u)
  \/ addHugeBitcoinKeyListPage

Spec == Init /\ [][Next]_vars

-----------------------------------------------------------------------------
(* Properties                                                               *)

\* Every variable stays in its type.
TypeOK ==
  /\ account \in [Users -> Account]
  /\ cur \in [Sets -> Current]
  /\ page \in [Sets -> [Pages -> KeyPage \cup {NoPage}]]
  /\ huge \in Seq(Seq(Sets \X Pages))
  /\ hugeCur \in [cas: Nat, page: 1..(MaxHuge + 1)]
  /\ tab \in [Tabs -> Tab]
  /\ credited \subseteq Keys
  /\ requests \in [Users -> Nat]
  /\ events \in 0..MaxEvents
  /\ ledger \in [Users -> Nat] /\ jumped \subseteq Uuids

\* No tab is ever sent to a page that is not there: the code calls it a total
\* system failure (addfundsaccounttabbody.cpp:361).
PagesAreThere ==
  \A s \in Tabs : tab[s].pc = "getPage" => page[tab[s].set][tab[s].page] # NoPage

\* A fill claims one range, however many tabs make it and wherever they start
\* looking, and the page it adds has the keys of that range: no keys are on two
\* pages, and no range is lost.
OneRangePerPage ==
  \A n \in Sets, y \in Pages \ {1} :
    LET claims == {r \in Ranges : r[1] \in DOMAIN huge /\ r[2] \in DOMAIN huge[r[1]]
                                  /\ huge[r[1]][r[2]] = <<n, y>>}
    IN /\ Cardinality(claims) <= 1
       /\ page[n][y] # NoPage => claims = {page[n][y].range}

ClaimsOf(uuid) ==        \* the keys claimed for a request
  UNION {{<<page[p[1]][p[2]].range, i>> : i \in {j \in DOMAIN page[p[1]][p[2]].claims :
                                                   page[p[1]][p[2]].claims[j] = uuid}} :
         p \in {p \in Sets \X Pages : page[p[1]][p[2]] # NoPage}}

KeysOf(u) == UNION {ClaimsOf(<<u, i>>) : i \in 1..MaxEvents}

\* The key an account has is claimed on its page for a request of that user, and
\* was never credited before: what is paid to it is his.
KeysAreExclusive ==
  \A u \in Users :
    account[u].state = "HaveKey" => account[u].key \in KeysOf(u) \ credited

\* A request that recoveries take up again has one key claimed for it, unless it
\* met its set locked for filling and was moved to the new page.
OneKeyPerRequest ==
  \A uuid \in Uuids \ jumped : Cardinality(ClaimsOf(uuid)) <= 1

\* Each key is credited once, and nothing that others do to the balance is lost.
CreditedOnce ==
  \A u \in Users :
    account[u].balance = ledger[u] + Cardinality(credited \cap KeysOf(u))
==============================================================================
