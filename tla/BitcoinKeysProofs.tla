-------------------------- MODULE BitcoinKeysProofs --------------------------
(***************************************************************************)
(* Theorems about BitcoinKeys.  Documents only grow: ranges and keys are    *)
(* claimed one after the other and never given back.  What a tab has seen   *)
(* full stays full, so that whoever takes up a fill again looks where the   *)
(* first one looked and finds what the first one claimed.  Two pages have   *)
(* then no key in common, and a claim has one owner; the CAS of the account *)
(* tells a tab that its request, or its key, is still what it was.          *)
(* All that goes on for a request goes on in one set, where nobody passes a *)
(* page that has room.                                                      *)
(***************************************************************************)
EXTENDS BitcoinKeys, FiniteSetTheorems, SequenceTheorems, WellFoundedInduction, TLAPS

Walking == {"lockAccount", "getPage", "claimKey", "unlockAccount", "getNextPage",
            "getHugeCur", "lockSet"}
Filling == {"getHugePage", "changeHugeCur", "claimRange", "relockSet", "addPage",
            "unlockSet"}
Getting == Walking \cup Filling \cup {"analyze"}

-----------------------------------------------------------------------------
(* Types: which members of a tab have a value at which request.             *)

Wired(t) ==
  /\ t.pc # "closed" => t.user \in Users
  /\ t.pc \in {"key", "credit"} => t.pay \in Keys
  /\ t.pc \in Getting => t.set \in Sets /\ t.uuid \in Uuids /\ t.uuid[1] = t.user
  /\ t.pc \in Walking \cup Filling => t.page \in Pages
  /\ t.pc = "claimKey" => t.seen \in Seq(Uuids) /\ Len(t.seen) < KeysPerPage
  /\ t.pc \in {"claimKey", "unlockAccount"} => t.key \in Keys
  /\ t.pc \in {"lockSet"} \cup Filling => t.z \in 1..(MaxHuge + 1)
  /\ t.pc = "claimRange" =>
       /\ t.seen \in Seq(Sets \X Pages) /\ Len(t.seen) < RangesPerPage
       /\ t.z \in 1..Len(huge) /\ t.range = <<t.z, Len(t.seen) + 1>>
  /\ t.pc = "addPage" => t.range \in Ranges

AccountWired(u) ==
  LET a == account[u] IN
  /\ a.state = "HaveKey" => a.key \in Keys
  /\ a.state = "GettingKey" =>
       a.set \in Sets /\ a.page \in Pages /\ a.uuid \in Uuids /\ a.uuid[1] = u

Exists(n, y) == page[n][y] # NoPage

\* Nothing holds more than it has room for.
SizesOK ==
  /\ \A u \in Users : requests[u] + events <= MaxEvents
  /\ Len(huge) \in 1..MaxHuge
  /\ \A z \in 1..Len(huge) : Len(huge[z]) <= RangesPerPage
  /\ \A n \in Sets, y \in Pages : Exists(n, y) => Len(page[n][y].claims) <= KeysPerPage

TypeInv ==
  /\ TypeOK
  /\ SizesOK
  /\ \A u \in Users : AccountWired(u)
  /\ \A s \in Tabs : Wired(tab[s])

-----------------------------------------------------------------------------
(* Pages and ranges.                                                        *)

\* Range i of page z of the huge list is claimed for fill f.
At(z, i, f) ==
  z \in 1..Len(huge) /\ i \in 1..Len(huge[z]) /\ huge[z][i] = f

Full(z)         == z \in 1..Len(huge) /\ Len(huge[z]) = RangesPerPage
FullBelow(z)    == \A w \in 1..(z - 1) : Full(w)
NoneBelow(z, f) == \A w \in 1..MaxHuge, i \in 1..RangesPerPage : At(w, i, f) => w >= z

Unclaimed(f)    == \A w \in 1..MaxHuge, i \in 1..RangesPerPage : ~At(w, i, f)

\* The huge list is used up from its first page on, one range for a fill.
HugeInv ==
  /\ \A z \in 1..Len(huge) : huge[z] # <<>> => FullBelow(z)
  /\ FullBelow(hugeCur.page)
  /\ \A f \in Sets \X Pages : \A w, z \in 1..MaxHuge, i, j \in 1..RangesPerPage :
       At(w, i, f) /\ At(z, j, f) => w = z /\ i = j

\* A set has the pages up to its current one, without that one while it is
\* locked for filling it.  No range below the place it is to be filled from has
\* been claimed for it.
HasPages(n) ==
  \A y \in Pages : y < cur[n].page \/ (y = cur[n].page /\ cur[n].from = 0) => Exists(n, y)
NoneBeyond(n) ==
  \A y \in Pages : y > cur[n].page => ~Exists(n, y) /\ Unclaimed(<<n, y>>)
RangesAreClaimed(n) ==
  \A y \in Pages : Exists(n, y) =>
    IF y = 1 THEN page[n][y].range = FirstRange(n)
    ELSE /\ page[n][y].range \in Ranges
         /\ At(page[n][y].range[1], page[n][y].range[2], <<n, y>>)
FillStarts(n) ==
  cur[n].from > 0 =>
    cur[n].page > 1 /\ FullBelow(cur[n].from) /\ NoneBelow(cur[n].from, <<n, cur[n].page>>)

SetInv(n) == HasPages(n) /\ NoneBeyond(n) /\ RangesAreClaimed(n) /\ FillStarts(n)

\* What a tab knows of the set and of the page it is at.
Knows(t) ==
  LET c == cur[t.set] IN
  /\ t.pc \in Walking \cup Filling => t.cas <= c.cas
  /\ t.pc \in Walking /\ t.cas = c.cas => c.from = 0
  /\ t.pc = "analyze" => t.page = 0 \/ Exists(t.set, t.page)
  /\ t.pc \in {"lockAccount", "getPage", "claimKey", "unlockAccount", "unlockSet"} =>
       Exists(t.set, t.page)
  /\ t.pc \in {"getNextPage", "getHugeCur", "lockSet"} =>
       t.page > 1 /\ Exists(t.set, t.page - 1)
  /\ t.pc \in {"getHugeCur", "lockSet"} /\ t.cas = c.cas => t.page = c.page + 1
  /\ t.pc = "lockSet" => FullBelow(t.z)
  /\ t.pc \in Filling =>
       /\ 1 < t.page /\ t.page <= c.page
       /\ t.cas = c.cas => c.from > 0 /\ t.page = c.page
       /\ FullBelow(t.z) /\ NoneBelow(t.z, Fill(t))
  /\ t.pc = "claimRange" => \A i \in 1..Len(t.seen) : t.seen[i] # Fill(t)
  /\ t.pc = "addPage" => At(t.range[1], t.range[2], Fill(t))

AccountKnows(u) ==
  account[u].state = "GettingKey" => Exists(account[u].set, account[u].page)

FillInv ==
  /\ HugeInv
  /\ \A n \in Sets : SetInv(n)
  /\ \A s \in Tabs : Knows(tab[s])
  /\ \A u \in Users : AccountKnows(u)

PagesInv == TypeInv /\ FillInv

-----------------------------------------------------------------------------
(* Lemmas about the operators.                                              *)

LEMMA Bounds ==
  /\ KeysPerPage \in Nat /\ KeysPerPage > 0
  /\ RangesPerPage \in Nat /\ RangesPerPage > 0
  /\ MaxHuge \in Nat /\ MaxHuge > 0
  /\ MaxEvents \in Nat
  BY BitcoinKeysAssumption DEF BitcoinKeysAssumption

LEMMA MinIsIn ==
  ASSUME NEW S \in SUBSET Nat, S # {}
  PROVE  Min(S) \in S /\ \A x \in S : Min(S) <= x
  <1> DEFINE R == {p \in Nat \X Nat : p[1] < p[2]}
  <1>0. IsWellFoundedOn(R, Nat)
    BY NatLessThanWellFounded, Zenon DEF OpToRel
  <1>1. PICK m \in S : \A y \in S : ~(<<y, m>> \in R)
    <2> HIDE DEF R
    <2> QED BY <1>0, WFMin
  <1>2. \A x, y \in Nat : <<x, y>> \in R <=> x < y
    OBVIOUS
  <1>3. \A y \in S : m <= y
    <2> HIDE DEF R
    <2> SUFFICES ASSUME NEW y \in S PROVE m <= y
      OBVIOUS
    <2>1. y \in Nat /\ m \in Nat
      OBVIOUS
    <2>2. ~(y < m)
      BY <1>1, <1>2, <2>1, Zenon
    <2> QED BY <2>1, <2>2
  <1> QED BY <1>3 DEF Min

LEMMA ClaimedForIsIn ==
  ASSUME NEW X, NEW c \in Seq(X), NEW x
  PROVE  /\ ClaimedFor(c, x) \subseteq 1..Len(c)
         /\ ClaimedFor(c, x) # {} => /\ Min(ClaimedFor(c, x)) \in 1..Len(c)
                                     /\ c[Min(ClaimedFor(c, x))] = x
  <1>1. ClaimedFor(c, x) \in SUBSET Nat /\ ClaimedFor(c, x) \subseteq 1..Len(c)
    BY DEF ClaimedFor
  <1>2. ClaimedFor(c, x) # {} => Min(ClaimedFor(c, x)) \in ClaimedFor(c, x)
    BY <1>1, MinIsIn
  <1> QED BY <1>1, <1>2 DEF ClaimedFor

LEMMA RangesAreFinite ==
  IsFiniteSet(Ranges) /\ Cardinality(Ranges) \in Nat
  <1>1. IsFiniteSet(1..MaxHuge) /\ IsFiniteSet(1..RangesPerPage)
    BY FS_Interval, Bounds
  <1> QED BY <1>1, FS_Product, FS_CardinalityType DEF Ranges

LEMMA PagesAreNumbers ==
  /\ Pages \subseteq Nat \ {0}
  /\ 1 \in Pages
  /\ \A x \in Nat : x <= Cardinality(Ranges) + 1 => x + 1 \in Pages
  BY RangesAreFinite DEF Pages

\* Every page but the first uses up a range of its own.
LEMMA PageBound ==
  ASSUME PagesInv, NEW n \in Sets, NEW y \in Pages, Exists(n, y)
  PROVE  y + 1 \in Pages
  <1> DEFINE c == cur[n]
             f == [x \in 2..y |-> page[n][x].range]
  <1>1. y \in Nat /\ y # 0 /\ c.page \in Pages /\ c.page \in Nat
    BY PagesAreNumbers DEF PagesInv, TypeInv, TypeOK, Current
  <1>2. \A x \in 2..y : x \in Pages
    BY RangesAreFinite DEF Pages
  <1>3. SetInv(n)
    BY DEF PagesInv, FillInv
  <1>4. y <= c.page
    <2>1. ~(y > c.page)
      BY <1>3, Zenon DEF SetInv, NoneBeyond
    <2> QED BY <1>1, <2>1
  <1>5. \A x \in 2..y : Exists(n, x)
    BY <1>1, <1>2, <1>3, <1>4 DEF SetInv, HasPages
  <1>6. \A x \in 2..y : f[x] \in Ranges /\ At(f[x][1], f[x][2], <<n, x>>)
    BY <1>2, <1>3, <1>5 DEF SetInv, RangesAreClaimed
  <1>7. \A x, w \in 2..y : f[x] = f[w] => x = w
    <2> HIDE DEF f
    <2> QED BY <1>6 DEF At
  <1>8. f \in Injection(2..y, Ranges)
    BY <1>6, <1>7, Zenon DEF Injection, IsInjective
  <1>9. Cardinality(2..y) <= Cardinality(Ranges)
    <2> HIDE DEF f
    <2> QED BY <1>8, RangesAreFinite, FS_Injection
  <1>10. Cardinality(2..y) = IF 2 > y THEN 0 ELSE y - 1
    BY <1>1, FS_Interval
  <1> HIDE DEF f, c
  <1> QED BY <1>1, <1>9, <1>10, PagesAreNumbers, RangesAreFinite

-----------------------------------------------------------------------------
(* TypeInv is inductive, with PageBound.                                    *)

\* What TypeInv says of the documents.
DocTypes ==
  /\ account \in [Users -> Account]
  /\ cur \in [Sets -> Current]
  /\ page \in [Sets -> [Pages -> KeyPage \cup {NoPage}]]
  /\ huge \in Seq(Seq(Sets \X Pages))
  /\ hugeCur \in [cas: Nat, page: 1..(MaxHuge + 1)]
  /\ credited \subseteq Keys
  /\ requests \in [Users -> Nat]
  /\ events \in 0..MaxEvents
  /\ ledger \in [Users -> Nat] /\ jumped \subseteq Uuids
  /\ SizesOK
  /\ \A u \in Users : AccountWired(u)

LEMMA TypeParts ==
  TypeInv => /\ DocTypes
             /\ \A s \in Tabs : tab[s] \in Tab /\ Wired(tab[s])
  BY DEF TypeInv, TypeOK, DocTypes

LEMMA TabStepType ==
  ASSUME TypeInv, NEW s \in Tabs, NEW t \in Tab, tab' = [tab EXCEPT ![s] = t],
         Wired(t), DocTypes', Len(huge) <= Len(huge')
  PROVE  TypeInv'
  <1>1. tab' \in [Tabs -> Tab]
    BY DEF TypeInv, TypeOK
  <1>2. \A q \in Tabs : Wired(tab'[q])
    BY DEF TypeInv, TypeOK
  <1>3. Len(huge) \in Nat /\ Len(huge') \in Nat /\ Len(huge) <= Len(huge')
    BY DEF TypeInv, TypeOK, DocTypes
  <1>4. \A q \in Tabs : Wired(tab[q])'
    <2> SUFFICES ASSUME NEW q \in Tabs PROVE Wired(tab[q])'
      OBVIOUS
    <2>1. PICK r : r = tab'[q]
      OBVIOUS
    <2>2. Wired(r)
      BY <1>2, <2>1
    <2>3. Wired(r)'
      BY <1>3, <2>2 DEF Wired
    <2> QED BY <2>1, <2>3
  <1> QED BY <1>1, <1>4 DEF TypeInv, TypeOK, DocTypes

LEMMA DocsSameType ==
  TypeInv /\ UNCHANGED <<docs, rest>> => DocTypes' /\ Len(huge) <= Len(huge')
  <1> SUFFICES ASSUME TypeInv, UNCHANGED <<docs, rest>>
               PROVE  DocTypes' /\ Len(huge) <= Len(huge')
    OBVIOUS
  <1>1. UNCHANGED <<account, cur, page, huge, hugeCur, requests, events, credited, ledger, jumped>>
    BY DEF docs, rest, hist
  <1>2. Len(huge) \in Nat
    BY DEF TypeInv, TypeOK
  <1> QED
    BY <1>1, <1>2, TypeParts DEF DocTypes, SizesOK, AccountWired, Exists

LEMMA NewTabType == NewTab \in Tab /\ Wired(NewTab)
  BY Bounds DEF NewTab, NewAccount, Tab, Account, NoUuid, Wired, Walking, Filling, Getting

\* A tab is closed, shows a key, or is taken up where the account says.
LEMMA ShowKeyType ==
  ASSUME NEW u \in Users, NEW k \in Keys
  PROVE  LET t == [NewTab EXCEPT !.user = u, !.pc = "key", !.pay = k]
         IN  t \in Tab /\ Wired(t)
  <1> DEFINE t == [NewTab EXCEPT !.user = u, !.pc = "key", !.pay = k]
  <1>1. t \in Tab
    BY NewTabType DEF Tab
  <1>2. t.pc = "key" /\ t.user = u /\ t.pay = k
    BY NewTabType DEF Tab
  <1>3. Wired(t)
    <2> HIDE DEF t
    <2> QED BY <1>2 DEF Wired, Walking, Filling, Getting
  <1> QED BY <1>1, <1>3

LEMMA OpenedType ==
  ASSUME TypeInv, NEW s \in Tabs, NEW u \in Users, determineBitcoinState(s, u)
  PROVE  TypeInv'
  <1>1. account[u].key \in Keys
    BY TypeParts DEF DocTypes, AccountWired, determineBitcoinState
  <1> DEFINE t == [NewTab EXCEPT !.user = u, !.pc = "key", !.pay = account[u].key]
  <1>2. t \in Tab /\ Wired(t)
    BY <1>1, ShowKeyType
  <1>3. tab' = [tab EXCEPT ![s] = t] /\ UNCHANGED <<docs, rest>>
    BY DEF determineBitcoinState, ShowKey, Become
  <1> HIDE DEF t
  <1> QED BY <1>2, <1>3, DocsSameType, TabStepType

LEMMA RecoveringType ==
  ASSUME TypeInv, NEW u \in Users, account[u].state = "GettingKey"
  PROVE  Recovering(u, account[u]) \in Tab /\ Wired(Recovering(u, account[u]))
  <1> DEFINE a == account[u]
             t == Recovering(u, a)
  <1>1. a \in Account /\ AccountWired(u)
    BY TypeParts DEF DocTypes
  <1>2. t \in Tab
    BY <1>1, NewTabType DEF Recovering, Tab, Account
  <1>3. t.pc = "analyze" /\ t.user = u /\ t.set = a.set /\ t.uuid = a.uuid
    BY NewTabType DEF Recovering, Tab
  <1>4. a.set \in Sets /\ a.uuid \in Uuids /\ a.uuid[1] = u
    BY <1>1 DEF AccountWired
  <1>5. Wired(t)
    <2> HIDE DEF t, a
    <2> QED BY <1>3, <1>4 DEF Wired, Walking, Filling, Getting
  <1> QED BY <1>2, <1>5

LEMMA CheckedType ==
  ASSUME TypeInv, NEW s \in Tabs, NEW u \in Users, checkNotAttemptingThenTransition(s, u)
  PROVE  TypeInv'
  <1>1. CASE account[u].state = "GettingKey"
    <2> DEFINE t == Recovering(u, account[u])
    <2>1. tab' = [tab EXCEPT ![s] = t] /\ UNCHANGED <<docs, rest>>
      BY <1>1 DEF checkNotAttemptingThenTransition, Become, rest, hist
    <2>2. t \in Tab /\ Wired(t)
      BY <1>1, RecoveringType
    <2> HIDE DEF t
    <2> QED BY <2>1, <2>2, DocsSameType, TabStepType
  <1>2. CASE account[u].state # "GettingKey"
    <2>1. PICK n \in Sets :
            tab' = [tab EXCEPT ![s] = [NewTab EXCEPT !.user = u, !.pc = "analyze", !.doc = account[u],
                                      !.set = n, !.uuid = <<u, requests[u] + 1>>]]
      BY <1>2 DEF checkNotAttemptingThenTransition, Become
    <2> DEFINE t == [NewTab EXCEPT !.user = u, !.pc = "analyze", !.doc = account[u],
                                      !.set = n, !.uuid = <<u, requests[u] + 1>>]
    <2>2. /\ events > 0 /\ events' = events - 1
          /\ requests' = [requests EXCEPT ![u] = @ + 1]
          /\ UNCHANGED <<account, cur, page, huge, hugeCur, credited, ledger, jumped>>
      BY <1>2 DEF checkNotAttemptingThenTransition, docs, hist
    <2>3. /\ account[u] \in Account /\ requests \in [Users -> Nat] /\ events \in Nat
          /\ \A v \in Users : requests[v] + events <= MaxEvents
          /\ events <= MaxEvents
      BY Bounds, TypeParts DEF DocTypes, SizesOK
    <2>4. <<u, requests[u] + 1>> \in Uuids
      BY <2>2, <2>3, Bounds DEF Uuids
    <2>5. t \in Tab /\ Wired(t)
      <3>1. t \in Tab
        BY <2>3, <2>4, NewTabType DEF Tab
      <3>2. t.pc = "analyze" /\ t.user = u /\ t.set = n /\ t.uuid = <<u, requests[u] + 1>>
        BY NewTabType DEF Tab
      <3>3. t.uuid[1] = u
        BY <3>2
      <3> HIDE DEF t
      <3>4. Wired(t)
        BY <2>4, <3>2, <3>3 DEF Wired, Walking, Filling, Getting
      <3> QED BY <3>1, <3>4
    <2>6. /\ requests' \in [Users -> Nat] /\ events' \in 0..MaxEvents
          /\ \A v \in Users : requests'[v] + events' <= MaxEvents
      BY <2>2, <2>3, Bounds
    <2>7. DocTypes'
      BY <2>2, <2>6, TypeParts DEF DocTypes, SizesOK, AccountWired, Exists
    <2>8. Len(huge) <= Len(huge')
      BY <2>2 DEF TypeInv, TypeOK
    <2> HIDE DEF t
    <2> QED BY <2>1, <2>5, <2>7, <2>8, TabStepType DEF t
  <1> QED BY <1>1, <1>2

LEMMA AnalyzeType ==
  ASSUME TypeInv, NEW s \in Tabs, analyzeCurrentPage(s)
  PROVE  TypeInv'
  <1> DEFINE t == tab[s]
             c == cur[t.set]
             fill == [t EXCEPT !.pc = "getHugePage", !.cas = c.cas, !.page = c.page,
                               !.z = c.from, !.z0 = c.from, !.fromCur = FALSE]
             go == Proceeding([t EXCEPT !.cas = c.cas, !.page = IF @ = 0 THEN c.page ELSE @])
  <1>1. t \in Tab /\ Wired(t) /\ t.pc = "analyze"
    BY TypeParts DEF analyzeCurrentPage
  <1>2. t.set \in Sets /\ t.uuid \in Uuids /\ t.uuid[1] = t.user /\ t.user \in Users
    BY <1>1 DEF Wired, Getting
  <1>3. c \in Current
    BY <1>2, TypeParts DEF DocTypes
  <1>4. /\ UNCHANGED <<account, cur, page, huge, hugeCur, requests, events, credited, ledger>>
        /\ jumped' = jumped \/ jumped' = jumped \cup {t.uuid}
    BY DEF analyzeCurrentPage, docs
  <1>5. DocTypes'
    BY <1>2, <1>4, TypeParts DEF DocTypes, SizesOK, AccountWired, Exists
  <1>6. Len(huge) <= Len(huge')
    BY <1>4 DEF TypeInv, TypeOK
  <1>7. CASE FillingNext(c)
    <2>1. tab' = [tab EXCEPT ![s] = fill]
      BY <1>7 DEF analyzeCurrentPage, Become
    <2>2. fill \in Tab
      BY <1>1, <1>3 DEF Tab, Current
    <2>3. /\ fill.pc = "getHugePage" /\ fill.page = c.page /\ fill.z = c.from
          /\ fill.set = t.set /\ fill.uuid = t.uuid /\ fill.user = t.user
      BY <1>1 DEF Tab
    <2>4. c.page \in Pages /\ c.from \in 1..(MaxHuge + 1)
      BY <1>3, <1>7, Bounds DEF Current, FillingNext
    <2> HIDE DEF fill, c, t
    <2>5. Wired(fill)
      BY <1>2, <2>3, <2>4 DEF Wired, Walking, Filling, Getting
    <2> QED BY <1>5, <1>6, <2>1, <2>2, <2>5, TabStepType
  <1>8. CASE ~FillingNext(c)
    <2>1. tab' = [tab EXCEPT ![s] = go]
      BY <1>8 DEF analyzeCurrentPage, Become
    <2>2. go \in Tab
      <3> DEFINE mid == [t EXCEPT !.cas = c.cas, !.page = IF @ = 0 THEN c.page ELSE @]
      <3>1. mid \in Tab
        <4>1. c.cas \in Nat /\ (IF t.page = 0 THEN c.page ELSE t.page) \in Pages \cup {0}
          BY <1>1, <1>3 DEF Tab, Current
        <4>2. mid = [t EXCEPT !.cas = c.cas, !.page = IF t.page = 0 THEN c.page ELSE t.page]
          BY <1>1 DEF Tab
        <4> HIDE DEF mid, c, t
        <4> QED BY <1>1, <4>1, <4>2 DEF Tab
      <3>2. go = [mid EXCEPT !.pc = IF mid.again THEN "getPage" ELSE "lockAccount"]
        BY DEF Proceeding
      <3> HIDE DEF mid, go
      <3> QED BY <3>1, <3>2 DEF Tab
    <2>3. /\ go.pc \in {"getPage", "lockAccount"} /\ go.page = IF t.page = 0 THEN c.page ELSE t.page
          /\ go.set = t.set /\ go.uuid = t.uuid /\ go.user = t.user
      BY <1>1 DEF Tab, Proceeding
    <2>4. go.page \in Pages
      BY <1>1, <1>3, <2>3 DEF Tab, Current
    <2> HIDE DEF go, c, t
    <2>5. Wired(go)
      BY <1>2, <2>3, <2>4 DEF Wired, Walking, Filling, Getting
    <2> QED BY <1>5, <1>6, <2>1, <2>2, <2>5, TabStepType
  <1> QED BY <1>7, <1>8

\* A step that changes an account and no other document.
LEMMA AccountTypes ==
  ASSUME TypeInv, NEW u \in Users, NEW a \in Account, account' = [account EXCEPT ![u] = a],
         a.state = "HaveKey" => a.key \in Keys,
         a.state = "GettingKey" =>
           a.set \in Sets /\ a.page \in Pages /\ a.uuid \in Uuids /\ a.uuid[1] = u,
         UNCHANGED <<cur, page, huge, hugeCur, requests, jumped>>,
         credited' \subseteq Keys, ledger' \in [Users -> Nat],
         events' \in Nat, events' <= events
  PROVE  DocTypes' /\ Len(huge) <= Len(huge')
  <1>1. account' \in [Users -> Account]
    BY TypeParts DEF DocTypes
  <1>2. \A v \in Users : AccountWired(v)'
    BY TypeParts DEF DocTypes, AccountWired
  <1>3. events' \in 0..MaxEvents /\ \A v \in Users : requests[v] + events' <= MaxEvents
    <2>1. /\ events \in Nat /\ events <= MaxEvents /\ requests \in [Users -> Nat]
          /\ \A v \in Users : requests[v] + events <= MaxEvents
      BY TypeParts, Bounds DEF DocTypes, SizesOK
    <2> QED BY <2>1, Bounds
  <1>4. Len(huge) \in Nat
    BY DEF TypeInv, TypeOK
  <1>5. SizesOK'
    BY <1>3, TypeParts DEF DocTypes, SizesOK, Exists
  <1> QED BY <1>1, <1>2, <1>3, <1>4, <1>5, TypeParts DEF DocTypes

LEMMA NothingType ==
  ASSUME TypeInv, NEW s \in Tabs, Nothing(s), DocTypes', Len(huge) <= Len(huge')
  PROVE  TypeInv'
  BY NewTabType, TabStepType DEF Nothing, Become

LEMMA LockAccountType ==
  ASSUME TypeInv, NEW s \in Tabs, lockAccount(s)
  PROVE  TypeInv'
  <1> DEFINE t == tab[s]
             u == Mine(s)
             locked == [t.doc EXCEPT !.cas = account[u].cas + 1, !.state = "GettingKey",
                                     !.set = t.set, !.page = t.page, !.uuid = t.uuid]
             r == [t EXCEPT !.pc = "getPage", !.doc.cas = locked.cas]
  <1>1. t \in Tab /\ Wired(t) /\ t.pc = "lockAccount"
    BY TypeParts DEF lockAccount
  <1>2. /\ t.set \in Sets /\ t.uuid \in Uuids /\ t.uuid[1] = t.user /\ t.user \in Users
        /\ t.page \in Pages /\ u = t.user
    BY <1>1 DEF Wired, Getting, Walking, Mine
  <1>3. account[u] \in Account
    BY <1>2, TypeParts DEF DocTypes
  <1>4. UNCHANGED <<cur, page, huge, hugeCur, requests, events, credited, ledger, jumped>>
    BY DEF lockAccount, rest, hist
  <1>5. events \in Nat /\ credited \subseteq Keys /\ ledger \in [Users -> Nat]
    BY TypeParts, Bounds DEF DocTypes
  <1>6. CASE CasMatches(t.doc.cas, account[u])
    <2>1. account' = [account EXCEPT ![u] = locked] /\ tab' = [tab EXCEPT ![s] = r]
      BY <1>6 DEF lockAccount, Become
    <2>2. locked \in Account /\ r \in Tab
      <3>1. t.doc \in Account /\ account[u].cas + 1 \in Nat
        BY <1>1, <1>3 DEF Tab, Account
      <3>2. locked \in Account
        BY <1>2, <3>1 DEF Account
      <3>3. locked.cas \in Nat
        BY <3>2 DEF Account
      <3>4. [t.doc EXCEPT !.cas = locked.cas] \in Account
        <4> HIDE DEF locked
        <4> QED BY <3>1, <3>3 DEF Account
      <3>5. r = [t EXCEPT !.pc = "getPage", !.doc = [t.doc EXCEPT !.cas = locked.cas]]
        <4> HIDE DEF locked
        <4> QED BY <1>1 DEF Tab
      <3> HIDE DEF locked, r
      <3> QED BY <1>1, <3>2, <3>4, <3>5 DEF Tab
    <2>3. /\ locked.state = "GettingKey" /\ locked.set = t.set /\ locked.page = t.page
          /\ locked.uuid = t.uuid
      BY <1>1 DEF Tab, Account
    <2>4. /\ r.pc = "getPage" /\ r.user = t.user /\ r.set = t.set /\ r.page = t.page
          /\ r.uuid = t.uuid
      BY <1>1 DEF Tab
    <2> HIDE DEF locked, r
    <2>5. DocTypes' /\ Len(huge) <= Len(huge')
      <3>1. /\ locked.state # "HaveKey"
            /\ locked.set \in Sets /\ locked.page \in Pages /\ locked.uuid \in Uuids
            /\ locked.uuid[1] = u
        BY <1>2, <2>3
      <3>2. credited' \subseteq Keys /\ ledger' \in [Users -> Nat] /\ events' \in Nat /\ events' <= events
        BY <1>4, <1>5
      <3> QED BY <1>2, <1>4, <2>1, <2>2, <3>1, <3>2, AccountTypes
    <2>6. Wired(r)
      BY <1>2, <2>4 DEF Wired, Walking, Filling, Getting
    <2> QED BY <2>1, <2>2, <2>5, <2>6, TabStepType
  <1>7. CASE ~CasMatches(t.doc.cas, account[u])
    <2>1. Nothing(s) /\ UNCHANGED <<docs, rest>>
      BY <1>4, <1>7 DEF lockAccount, docs, rest, hist
    <2> QED BY <2>1, DocsSameType, NothingType
  <1> QED BY <1>6, <1>7

\* A request that has looked at page p, and goes on as LookedAt says.
LEMMA LookedAtType ==
  ASSUME TypeInv, NEW t \in Tab, Wired(t), t.pc \in {"getPage", "getNextPage"},
         NEW p \in KeyPage, Len(p.claims) <= KeysPerPage, t.page + 1 \in Pages
  PROVE  LookedAt(t, p) \in Tab /\ Wired(LookedAt(t, p))
  <1> DEFINE found == ClaimedFor(p.claims, t.uuid)
             r1 == [t EXCEPT !.pc = "unlockAccount", !.key = <<p.range, Min(found)>>]
             r2 == [t EXCEPT !.pc = "claimKey", !.seen = p.claims,
                             !.key = <<p.range, Len(p.claims) + 1>>]
             r3 == [t EXCEPT !.pc = "getNextPage", !.page = @ + 1]
  <1>1. /\ t.set \in Sets /\ t.uuid \in Uuids /\ t.uuid[1] = t.user /\ t.user \in Users
        /\ t.page \in Pages
    BY DEF Wired, Getting, Walking
  <1>2. /\ p.range \in Ranges \cup {FirstRange(n) : n \in Sets}
        /\ p.claims \in Seq(Uuids) /\ Len(p.claims) \in Nat
    BY DEF KeyPage
  <1>3. CASE found # {}
    <2>1. Min(found) \in 1..KeysPerPage
      BY <1>2, <1>3, ClaimedForIsIn, Bounds
    <2>2. LookedAt(t, p) = r1
      BY <1>3 DEF LookedAt
    <2>3. <<p.range, Min(found)>> \in Keys
      BY <1>2, <2>1 DEF Keys
    <2>4. r1 \in Tab /\ r1.pc = "unlockAccount" /\ r1.key \in Keys
      BY <2>3 DEF Tab
    <2>5. r1.set = t.set /\ r1.uuid = t.uuid /\ r1.user = t.user /\ r1.page = t.page
      BY DEF Tab
    <2> HIDE DEF r1
    <2>6. Wired(r1)
      BY <1>1, <2>4, <2>5 DEF Wired, Walking, Filling, Getting
    <2> QED BY <2>2, <2>4, <2>6
  <1>4. CASE found = {} /\ HasRoom(p)
    <2>1. Len(p.claims) < KeysPerPage /\ Len(p.claims) + 1 \in 1..KeysPerPage
      BY <1>2, <1>4, Bounds DEF HasRoom
    <2>2. LookedAt(t, p) = r2
      BY <1>4 DEF LookedAt
    <2>3. <<p.range, Len(p.claims) + 1>> \in Keys
      BY <1>2, <2>1 DEF Keys
    <2>4. r2 \in Tab /\ r2.pc = "claimKey" /\ r2.key \in Keys /\ r2.seen = p.claims
      BY <1>2, <2>3 DEF Tab
    <2>5. r2.set = t.set /\ r2.uuid = t.uuid /\ r2.user = t.user /\ r2.page = t.page
      BY DEF Tab
    <2> HIDE DEF r2
    <2>6. Wired(r2)
      BY <1>1, <1>2, <2>1, <2>4, <2>5 DEF Wired, Walking, Filling, Getting
    <2> QED BY <2>2, <2>4, <2>6
  <1>5. CASE found = {} /\ ~HasRoom(p)
    <2>1. LookedAt(t, p) = r3
      BY <1>5 DEF LookedAt
    <2>2. r3 \in Tab /\ r3.pc = "getNextPage" /\ r3.page = t.page + 1
      BY <1>1 DEF Tab
    <2>3. r3.set = t.set /\ r3.uuid = t.uuid /\ r3.user = t.user
      BY DEF Tab
    <2> HIDE DEF r3
    <2>4. Wired(r3)
      BY <1>1, <2>2, <2>3 DEF Wired, Walking, Filling, Getting
    <2> QED BY <2>1, <2>2, <2>4
  <1> QED BY <1>3, <1>4, <1>5

\* The page a request finds, and that there may be one after it.
LEMMA FoundPageType ==
  ASSUME PagesInv, NEW n \in Sets, NEW y \in Pages, Exists(n, y)
  PROVE  /\ page[n][y] \in KeyPage /\ Len(page[n][y].claims) <= KeysPerPage
         /\ y + 1 \in Pages
  BY TypeParts, PageBound DEF PagesInv, DocTypes, SizesOK, Exists

LEMMA GetPageType ==
  ASSUME PagesInv, NEW s \in Tabs, getPage(s) \/ getNextPage(s)
  PROVE  TypeInv'
  <1> DEFINE t == tab[s]
             p == page[t.set][t.page]
             r == [t EXCEPT !.pc = "getHugeCur"]
  <1>1. TypeInv /\ t \in Tab /\ Wired(t) /\ t.pc \in {"getPage", "getNextPage"}
    BY TypeParts DEF getPage, getNextPage, PagesInv
  <1>2. /\ t.set \in Sets /\ t.uuid \in Uuids /\ t.uuid[1] = t.user /\ t.user \in Users
        /\ t.page \in Pages
    BY <1>1 DEF Wired, Getting, Walking
  <1>3. UNCHANGED <<docs, rest>>
    BY DEF getPage, getNextPage
  <1>4. CASE p = NoPage
    <2>1. Nothing(s) \/ tab' = [tab EXCEPT ![s] = r]
      BY <1>4 DEF getPage, getNextPage, Become
    <2>2. r \in Tab
      BY <1>1 DEF Tab
    <2>3. /\ r.pc = "getHugeCur" /\ r.user = t.user /\ r.set = t.set /\ r.page = t.page
          /\ r.uuid = t.uuid
      BY <1>1 DEF Tab
    <2> HIDE DEF r
    <2>4. Wired(r)
      BY <1>2, <2>3 DEF Wired, Walking, Filling, Getting
    <2> QED BY <1>1, <1>3, <2>1, <2>2, <2>4, DocsSameType, NothingType, TabStepType
  <1>5. CASE p # NoPage
    <2>1. tab' = [tab EXCEPT ![s] = LookedAt(t, p)]
      BY <1>5 DEF getPage, getNextPage, Become
    <2>2. p \in KeyPage /\ Len(p.claims) <= KeysPerPage /\ t.page + 1 \in Pages
      BY <1>2, <1>5, FoundPageType DEF Exists
    <2>3. LookedAt(t, p) \in Tab /\ Wired(LookedAt(t, p))
      BY <1>1, <2>2, LookedAtType
    <2> QED BY <1>1, <1>3, <2>1, <2>3, DocsSameType, TabStepType
  <1> QED BY <1>4, <1>5

\* Steps that change a page, the current page of a set, or the huge list.
LEMMA PageTypes ==
  ASSUME TypeInv, NEW n \in Sets, NEW y \in Pages, NEW p \in KeyPage, Len(p.claims) <= KeysPerPage,
         page' = [page EXCEPT ![n][y] = p],
         UNCHANGED <<account, cur, huge, hugeCur, rest>>
  PROVE  DocTypes' /\ Len(huge) <= Len(huge')
  <1>1. page \in [Sets -> [Pages -> KeyPage \cup {NoPage}]]
    BY TypeParts DEF DocTypes
  <1>2. page' \in [Sets -> [Pages -> KeyPage \cup {NoPage}]]
    BY <1>1
  <1>3. \A m \in Sets, x \in Pages :
          page'[m][x] = IF m = n /\ x = y THEN p ELSE page[m][x]
    BY <1>1
  <1>4. \A m \in Sets, x \in Pages :
          page'[m][x] # NoPage => Len(page'[m][x].claims) <= KeysPerPage
    BY <1>3, TypeParts DEF DocTypes, SizesOK, Exists
  <1>5. UNCHANGED <<account, cur, huge, hugeCur, requests, events, credited, ledger, jumped>>
    BY DEF rest, hist
  <1>6. Len(huge) \in Nat
    BY DEF TypeInv, TypeOK
  <1>7. SizesOK'
    BY <1>4, <1>5, TypeParts DEF DocTypes, SizesOK, Exists
  <1> QED BY <1>2, <1>5, <1>6, <1>7, TypeParts DEF DocTypes, AccountWired

LEMMA CurTypes ==
  ASSUME TypeInv, NEW n \in Sets, NEW c \in Current, cur' = [cur EXCEPT ![n] = c],
         UNCHANGED <<account, page, huge, hugeCur, rest>>
  PROVE  DocTypes' /\ Len(huge) <= Len(huge')
  <1>1. cur' \in [Sets -> Current]
    BY TypeParts DEF DocTypes
  <1>2. UNCHANGED <<account, page, huge, hugeCur, requests, events, credited, ledger, jumped>>
    BY DEF rest, hist
  <1>3. Len(huge) \in Nat
    BY DEF TypeInv, TypeOK
  <1> QED BY <1>1, <1>2, <1>3, TypeParts DEF DocTypes, AccountWired, SizesOK, Exists

LEMMA HugeTypes ==
  ASSUME TypeInv, huge' \in Seq(Seq(Sets \X Pages)), Len(huge') <= MaxHuge, Len(huge) <= Len(huge'),
         \A z \in 1..Len(huge') : Len(huge'[z]) <= RangesPerPage,
         hugeCur' \in [cas: Nat, page: 1..(MaxHuge + 1)],
         UNCHANGED <<account, cur, page, rest>>
  PROVE  DocTypes'
  <1>1. UNCHANGED <<account, cur, page, requests, events, credited, ledger, jumped>>
    BY DEF rest, hist
  <1>2. Len(huge') \in 1..MaxHuge
    <2>1. Len(huge) \in 1..MaxHuge /\ Len(huge') \in Nat
      BY TypeParts DEF DocTypes, SizesOK
    <2> QED BY <2>1, Bounds
  <1> QED BY <1>1, <1>2, TypeParts DEF DocTypes, AccountWired, SizesOK, Exists

LEMMA ClaimKeyType ==
  ASSUME PagesInv, NEW s \in Tabs, claimKey(s)
  PROVE  TypeInv'
  <1>0. PICK e \in Seq(Uuids) \cup Seq(Sets \X Pages) : e = <<>>
    BY EmptySeq
  <1> DEFINE t == tab[s]
             old == page[t.set][t.page]
             new == [old EXCEPT !.claims = Append(t.seen, t.uuid)]
             r1 == [t EXCEPT !.pc = "unlockAccount", !.seen = e]
             r2 == [t EXCEPT !.pc = "getPage", !.seen = e]
  <1>1. TypeInv /\ t \in Tab /\ Wired(t) /\ t.pc = "claimKey"
    BY TypeParts DEF claimKey, PagesInv
  <1>2. /\ t.set \in Sets /\ t.uuid \in Uuids /\ t.uuid[1] = t.user /\ t.user \in Users
        /\ t.page \in Pages /\ t.key \in Keys /\ t.seen \in Seq(Uuids) /\ Len(t.seen) < KeysPerPage
    BY <1>1 DEF Wired, Getting, Walking
  <1>3. Exists(t.set, t.page)
    BY <1>1 DEF PagesInv, FillInv, Knows
  <1>4. /\ r1 \in Tab /\ r1.pc = "unlockAccount" /\ r1.user = t.user /\ r1.set = t.set
        /\ r1.page = t.page /\ r1.uuid = t.uuid /\ r1.key = t.key
    BY <1>1, <1>2 DEF Tab
  <1>5. /\ r2 \in Tab /\ r2.pc = "getPage" /\ r2.user = t.user /\ r2.set = t.set
        /\ r2.page = t.page /\ r2.uuid = t.uuid
    BY <1>1, <1>2 DEF Tab
  <1>6. CASE Unchanged(t.seen, old.claims)
    <2>1. tab' = [tab EXCEPT ![s] = r1] /\ UNCHANGED <<account, cur, huge, hugeCur, rest>>
      BY <1>0, <1>6 DEF claimKey, Become
    <2>2. page' = [page EXCEPT ![t.set][t.page] = new]
      BY <1>6 DEF claimKey
    <2>3. old \in KeyPage
      BY <1>1, <1>2, <1>3, FoundPageType
    <2>4. Append(t.seen, t.uuid) \in Seq(Uuids) /\ Len(Append(t.seen, t.uuid)) <= KeysPerPage
      BY <1>2, Bounds
    <2>5. new \in KeyPage /\ Len(new.claims) <= KeysPerPage
      BY <2>3, <2>4 DEF KeyPage
    <2> HIDE DEF new, r1
    <2>6. DocTypes' /\ Len(huge) <= Len(huge')
      BY <1>1, <1>2, <2>1, <2>2, <2>5, PageTypes
    <2>7. Wired(r1)
      BY <1>2, <1>4 DEF Wired, Walking, Filling, Getting
    <2> QED BY <1>1, <1>4, <2>1, <2>6, <2>7, TabStepType
  <1>7. CASE ~Unchanged(t.seen, old.claims)
    <2>1. tab' = [tab EXCEPT ![s] = r2] /\ UNCHANGED <<docs, rest>>
      BY <1>0, <1>7 DEF claimKey, Become, docs
    <2> HIDE DEF r2
    <2>2. Wired(r2)
      BY <1>2, <1>5 DEF Wired, Walking, Filling, Getting
    <2> QED BY <1>1, <1>5, <2>1, <2>2, DocsSameType, TabStepType
  <1> QED BY <1>6, <1>7

LEMMA UnlockAccountType ==
  ASSUME TypeInv, NEW s \in Tabs, unlockAccount(s)
  PROVE  TypeInv'
  <1> DEFINE t == tab[s]
             u == Mine(s)
             a == [t.doc EXCEPT !.cas = account[u].cas + 1, !.state = "HaveKey", !.key = t.key,
                                !.set = NoKey, !.page = 0, !.uuid = NoUuid]
             r == [NewTab EXCEPT !.user = u, !.pc = "key", !.pay = t.key]
  <1>1. t \in Tab /\ Wired(t) /\ t.pc = "unlockAccount"
    BY TypeParts DEF unlockAccount
  <1>2. t.user \in Users /\ u = t.user /\ t.key \in Keys
    BY <1>1 DEF Wired, Mine
  <1>3. account[u] \in Account
    BY <1>2, TypeParts DEF DocTypes
  <1>4. UNCHANGED <<cur, page, huge, hugeCur, requests, events, credited, ledger, jumped>>
    BY DEF unlockAccount, rest, hist
  <1>5. events \in Nat /\ credited \subseteq Keys /\ ledger \in [Users -> Nat]
    BY TypeParts, Bounds DEF DocTypes
  <1>6. CASE CasMatches(t.doc.cas, account[u])
    <2>1. account' = [account EXCEPT ![u] = a] /\ tab' = [tab EXCEPT ![s] = r]
      BY <1>6 DEF unlockAccount, Become, ShowKey
    <2>2. t.doc \in Account /\ account[u].cas + 1 \in Nat
      BY <1>1, <1>3 DEF Tab, Account
    <2>3. a \in Account /\ a.state = "HaveKey" /\ a.key = t.key
      BY <1>2, <2>2 DEF Account
    <2>4. r \in Tab /\ Wired(r)
      BY <1>2, ShowKeyType
    <2> HIDE DEF a, r
    <2>5. DocTypes' /\ Len(huge) <= Len(huge')
      <3>1. a.key \in Keys /\ a.state # "GettingKey"
        BY <1>2, <2>3
      <3>2. credited' \subseteq Keys /\ ledger' \in [Users -> Nat] /\ events' \in Nat /\ events' <= events
        BY <1>4, <1>5
      <3> QED BY <1>2, <1>4, <2>1, <2>3, <3>1, <3>2, AccountTypes
    <2> QED BY <2>1, <2>4, <2>5, TabStepType
  <1>7. CASE ~CasMatches(t.doc.cas, account[u])
    <2>1. Nothing(s) /\ UNCHANGED <<docs, rest>>
      BY <1>4, <1>7 DEF unlockAccount, docs, rest, hist
    <2> QED BY <2>1, DocsSameType, NothingType
  <1> QED BY <1>6, <1>7

LEMMA GetHugeCurType ==
  ASSUME TypeInv, NEW s \in Tabs, hugeCurrentPageGetComplete(s)
  PROVE  TypeInv'
  <1> DEFINE t == tab[s]
             r == [t EXCEPT !.pc = "lockSet", !.fromCur = TRUE, !.hugeCas = hugeCur.cas,
                            !.z = hugeCur.page, !.z0 = hugeCur.page]
  <1>1. t \in Tab /\ Wired(t) /\ t.pc = "getHugeCur"
    BY TypeParts DEF hugeCurrentPageGetComplete
  <1>2. /\ t.set \in Sets /\ t.uuid \in Uuids /\ t.uuid[1] = t.user /\ t.user \in Users
        /\ t.page \in Pages
    BY <1>1 DEF Wired, Getting, Walking
  <1>3. /\ hugeCur.cas \in Nat /\ hugeCur.page \in 1..(MaxHuge + 1)
        /\ hugeCur.page \in 0..(MaxHuge + 1)
    BY TypeParts, Bounds DEF DocTypes
  <1>4. /\ r \in Tab /\ r.pc = "lockSet" /\ r.user = t.user /\ r.set = t.set
        /\ r.page = t.page /\ r.uuid = t.uuid /\ r.z = hugeCur.page
    BY <1>1, <1>3 DEF Tab
  <1>5. tab' = [tab EXCEPT ![s] = r] /\ UNCHANGED <<docs, rest>>
    BY DEF hugeCurrentPageGetComplete, Become
  <1> HIDE DEF r
  <1>6. Wired(r)
    BY <1>2, <1>3, <1>4 DEF Wired, Walking, Filling, Getting
  <1> QED BY <1>4, <1>5, <1>6, DocsSameType, TabStepType

\* What the steps of a fill know of its tab.
LEMMA FillingType ==
  ASSUME TypeInv, NEW s \in Tabs, tab[s].pc \in {"lockSet"} \cup Filling
  PROVE  /\ tab[s] \in Tab /\ Wired(tab[s])
         /\ tab[s].set \in Sets /\ tab[s].uuid \in Uuids /\ tab[s].uuid[1] = tab[s].user
         /\ tab[s].user \in Users /\ tab[s].page \in Pages
         /\ tab[s].z \in 1..(MaxHuge + 1) /\ tab[s].z \in 0..(MaxHuge + 1) /\ tab[s].z \in Nat
         /\ cur[tab[s].set] \in Current /\ cur[tab[s].set].cas + 1 \in Nat
         /\ Fill(tab[s]) \in Sets \X Pages
  <1>1. tab[s] \in Tab /\ Wired(tab[s])
    BY TypeParts
  <1>2. /\ tab[s].set \in Sets /\ tab[s].uuid \in Uuids /\ tab[s].uuid[1] = tab[s].user
        /\ tab[s].user \in Users /\ tab[s].page \in Pages /\ tab[s].z \in 1..(MaxHuge + 1)
    BY <1>1 DEF Wired, Getting, Walking, Filling
  <1>3. tab[s].z \in 0..(MaxHuge + 1) /\ tab[s].z \in Nat
    BY <1>2, Bounds
  <1>4. cur[tab[s].set] \in Current
    BY <1>2, TypeParts DEF DocTypes
  <1>5. cur[tab[s].set].cas + 1 \in Nat
    BY <1>4 DEF Current
  <1> QED BY <1>1, <1>2, <1>3, <1>4, <1>5 DEF Fill

\* The current page of a set is stored under its CAS.
StoredCur(t, from) == [cas |-> cur[t.set].cas + 1, page |-> t.page, from |-> from]

LEMMA LockSetType ==
  ASSUME TypeInv, NEW s \in Tabs, lockSet(s)
  PROVE  TypeInv'
  <1> DEFINE t == tab[s]
             c == StoredCur(t, t.z)
             r == [t EXCEPT !.pc = "getHugePage", !.cas = cur[t.set].cas + 1]
  <1>1. t.pc = "lockSet" /\ UNCHANGED <<account, page, huge, hugeCur, rest>>
    BY DEF lockSet
  <1>2. /\ t \in Tab /\ t.set \in Sets /\ t.uuid \in Uuids /\ t.uuid[1] = t.user
        /\ t.user \in Users /\ t.page \in Pages /\ t.z \in 1..(MaxHuge + 1)
        /\ t.z \in 0..(MaxHuge + 1) /\ cur[t.set].cas + 1 \in Nat
    BY <1>1, FillingType
  <1>3. CASE CasMatches(t.cas, cur[t.set])
    <2>1. cur' = [cur EXCEPT ![t.set] = c] /\ tab' = [tab EXCEPT ![s] = r]
      BY <1>3 DEF lockSet, Become, StoredCur
    <2>2. c \in Current
      BY <1>2 DEF Current, StoredCur
    <2>3. /\ r \in Tab /\ r.pc = "getHugePage" /\ r.user = t.user /\ r.set = t.set
          /\ r.page = t.page /\ r.uuid = t.uuid /\ r.z = t.z
      BY <1>2 DEF Tab
    <2> HIDE DEF r, c
    <2>4. Wired(r)
      BY <1>2, <2>3 DEF Wired, Walking, Filling, Getting
    <2> QED BY <1>1, <1>2, <2>1, <2>2, <2>3, <2>4, CurTypes, TabStepType
  <1>4. CASE ~CasMatches(t.cas, cur[t.set])
    <2>1. Nothing(s) /\ UNCHANGED <<docs, rest>>
      BY <1>1, <1>4 DEF lockSet, docs
    <2> QED BY <2>1, DocsSameType, NothingType
  <1> QED BY <1>3, <1>4

LEMMA RelockSetType ==
  ASSUME TypeInv, NEW s \in Tabs, relockSet(s)
  PROVE  TypeInv'
  <1> DEFINE t == tab[s]
             c == StoredCur(t, t.z)
  <1>1. t.pc = "relockSet" /\ Nothing(s) /\ UNCHANGED <<account, page, huge, hugeCur, rest>>
    BY DEF relockSet
  <1>2. /\ t.set \in Sets /\ t.page \in Pages /\ t.z \in 0..(MaxHuge + 1)
        /\ cur[t.set].cas + 1 \in Nat
    BY <1>1, FillingType DEF Filling
  <1>3. cur' = [cur EXCEPT ![t.set] = c] \/ UNCHANGED <<docs, rest>>
    BY <1>1 DEF relockSet, StoredCur, docs
  <1>4. c \in Current
    BY <1>2 DEF Current, StoredCur
  <1> HIDE DEF c
  <1> QED BY <1>1, <1>2, <1>3, <1>4, CurTypes, DocsSameType, NothingType

LEMMA UnlockSetType ==
  ASSUME TypeInv, NEW s \in Tabs, unlockSet(s)
  PROVE  TypeInv'
  <1> DEFINE t == tab[s]
             c == StoredCur(t, 0)
             go == [t EXCEPT !.pc = IF t.again THEN "getPage" ELSE "lockAccount"]
             back == [t EXCEPT !.pc = "analyze"]
  <1>1. t.pc = "unlockSet" /\ UNCHANGED <<account, page, huge, hugeCur, rest>>
    BY DEF unlockSet
  <1>2. /\ t \in Tab /\ t.set \in Sets /\ t.uuid \in Uuids /\ t.uuid[1] = t.user
        /\ t.user \in Users /\ t.page \in Pages /\ cur[t.set].cas + 1 \in Nat
    BY <1>1, FillingType DEF Filling
  <1>3. CASE CasMatches(t.cas, cur[t.set])
    <2>1. cur' = [cur EXCEPT ![t.set] = c] /\ tab' = [tab EXCEPT ![s] = go]
      BY <1>3 DEF unlockSet, Become, StoredCur, Proceeding
    <2>2. c \in Current
      BY <1>2, Bounds DEF Current, StoredCur
    <2>3. /\ go \in Tab /\ go.pc \in {"getPage", "lockAccount"} /\ go.user = t.user
          /\ go.set = t.set /\ go.page = t.page /\ go.uuid = t.uuid
      BY <1>2 DEF Tab
    <2> HIDE DEF go, c
    <2>4. Wired(go)
      BY <1>2, <2>3 DEF Wired, Walking, Filling, Getting
    <2> QED BY <1>1, <1>2, <2>1, <2>2, <2>3, <2>4, CurTypes, TabStepType
  <1>4. CASE ~CasMatches(t.cas, cur[t.set])
    <2>1. tab' = [tab EXCEPT ![s] = back] /\ UNCHANGED <<docs, rest>>
      BY <1>1, <1>4 DEF unlockSet, docs, Become
    <2>2. /\ back \in Tab /\ back.pc = "analyze" /\ back.user = t.user /\ back.set = t.set
          /\ back.uuid = t.uuid
      BY <1>2 DEF Tab
    <2> HIDE DEF back
    <2>3. Wired(back)
      BY <1>2, <2>2 DEF Wired, Walking, Filling, Getting
    <2> QED BY <2>1, <2>2, <2>3, DocsSameType, TabStepType
  <1> QED BY <1>3, <1>4

LEMMA GetHugePageType ==
  ASSUME TypeInv, NEW s \in Tabs, getHugePage(s)
  PROVE  TypeInv'
  <1> DEFINE t == tab[s]
             ranges == huge[t.z]
             found == ClaimedFor(ranges, Fill(t))
             r0 == [t EXCEPT !.pc = "relockSet"]
             r1 == [t EXCEPT !.pc = "addPage", !.range = <<t.z, Min(found)>>]
             r2 == [t EXCEPT !.pc = "claimRange", !.seen = ranges,
                             !.range = <<t.z, Len(ranges) + 1>>]
             r3 == [t EXCEPT !.pc = IF t.fromCur THEN "changeHugeCur" ELSE @, !.z = @ + 1]
  <1>1. t.pc = "getHugePage" /\ UNCHANGED <<docs, rest>>
    BY DEF getHugePage
  <1>2. /\ t \in Tab /\ t.set \in Sets /\ t.uuid \in Uuids /\ t.uuid[1] = t.user
        /\ t.user \in Users /\ t.page \in Pages /\ t.z \in 1..(MaxHuge + 1) /\ t.z \in Nat
    BY <1>1, FillingType DEF Filling
  <1>3. CASE t.z \notin DOMAIN huge
    <2>1. Nothing(s) \/ tab' = [tab EXCEPT ![s] = r0]
      BY <1>3 DEF getHugePage, Become
    <2>2. /\ r0 \in Tab /\ r0.pc = "relockSet" /\ r0.user = t.user /\ r0.set = t.set
          /\ r0.page = t.page /\ r0.uuid = t.uuid /\ r0.z = t.z
      BY <1>2 DEF Tab
    <2> HIDE DEF r0
    <2>3. Wired(r0)
      BY <1>2, <2>2 DEF Wired, Walking, Filling, Getting
    <2> QED BY <1>1, <2>1, <2>2, <2>3, DocsSameType, NothingType, TabStepType
  <1>4. CASE t.z \in DOMAIN huge
    <2>1. /\ huge \in Seq(Seq(Sets \X Pages)) /\ Len(huge) \in 1..MaxHuge
          /\ \A z \in 1..Len(huge) : Len(huge[z]) <= RangesPerPage
      BY TypeParts DEF DocTypes, SizesOK
    <2>2. t.z \in 1..Len(huge) /\ t.z \in 1..MaxHuge /\ t.z + 1 \in 1..(MaxHuge + 1)
      BY <1>4, <2>1, Bounds
    <2>3. ranges \in Seq(Sets \X Pages) /\ Len(ranges) \in Nat /\ Len(ranges) <= RangesPerPage
      BY <2>1, <2>2
    <2>4. CASE found # {}
      <3>1. tab' = [tab EXCEPT ![s] = r1]
        BY <1>4, <2>4 DEF getHugePage, Become
      <3>2. Min(found) \in 1..RangesPerPage
        BY <2>3, <2>4, ClaimedForIsIn, Bounds
      <3>3. <<t.z, Min(found)>> \in Ranges
        BY <2>2, <3>2 DEF Ranges
      <3>4. /\ r1 \in Tab /\ r1.pc = "addPage" /\ r1.user = t.user /\ r1.set = t.set
            /\ r1.page = t.page /\ r1.uuid = t.uuid /\ r1.z = t.z /\ r1.range \in Ranges
        BY <1>2, <3>3 DEF Tab
      <3> HIDE DEF r1
      <3>5. Wired(r1)
        BY <1>2, <3>4 DEF Wired, Walking, Filling, Getting
      <3> QED BY <1>1, <3>1, <3>4, <3>5, DocsSameType, TabStepType
    <2>5. CASE found = {} /\ Len(ranges) < RangesPerPage
      <3>1. tab' = [tab EXCEPT ![s] = r2]
        BY <1>4, <2>5 DEF getHugePage, Become
      <3>2. <<t.z, Len(ranges) + 1>> \in Ranges
        BY <2>2, <2>3, <2>5, Bounds DEF Ranges
      <3>3. /\ r2 \in Tab /\ r2.pc = "claimRange" /\ r2.user = t.user /\ r2.set = t.set
            /\ r2.page = t.page /\ r2.uuid = t.uuid /\ r2.z = t.z /\ r2.seen = ranges
            /\ r2.range = <<t.z, Len(ranges) + 1>>
        BY <1>2, <2>3, <3>2 DEF Tab
      <3> HIDE DEF r2, ranges
      <3>4. r2.range = <<r2.z, Len(r2.seen) + 1>>
        BY <3>3
      <3>5. Wired(r2)
        BY <1>2, <2>2, <2>3, <2>5, <3>3, <3>4 DEF Wired, Walking, Filling, Getting
      <3> QED BY <1>1, <3>1, <3>3, <3>5, DocsSameType, TabStepType
    <2>6. CASE found = {} /\ ~(Len(ranges) < RangesPerPage)
      <3>1. tab' = [tab EXCEPT ![s] = r3]
        BY <1>4, <2>6 DEF getHugePage, Become
      <3>2. /\ r3 \in Tab /\ r3.pc \in {"changeHugeCur", "getHugePage"} /\ r3.user = t.user
            /\ r3.set = t.set /\ r3.page = t.page /\ r3.uuid = t.uuid /\ r3.z = t.z + 1
        <4>1. t.z + 1 \in 0..(MaxHuge + 1)
          BY <2>2, Bounds
        <4>2. PICK pc \in {"changeHugeCur", "getHugePage"} :
                pc = IF t.fromCur THEN "changeHugeCur" ELSE t.pc
          BY <1>1
        <4>3. r3 = [t EXCEPT !.pc = pc, !.z = t.z + 1]
          BY <1>2, <4>2 DEF Tab
        <4> HIDE DEF r3, t
        <4> QED BY <1>2, <4>1, <4>3 DEF Tab
      <3> HIDE DEF r3
      <3>3. Wired(r3)
        BY <1>2, <2>2, <3>2 DEF Wired, Walking, Filling, Getting
      <3> QED BY <1>1, <3>1, <3>2, <3>3, DocsSameType, TabStepType
    <2> QED BY <2>4, <2>5, <2>6
  <1> QED BY <1>3, <1>4

LEMMA ChangeHugeCurType ==
  ASSUME TypeInv, NEW s \in Tabs, changeHugeCur(s)
  PROVE  TypeInv'
  <1> DEFINE t == tab[s]
             r == [t EXCEPT !.pc = "getHugePage"]
  <1>1. /\ t.pc = "changeHugeCur" /\ tab' = [tab EXCEPT ![s] = r]
        /\ UNCHANGED <<account, cur, page, huge, rest>>
        /\ hugeCur' = hugeCur \/ hugeCur' = [cas |-> hugeCur.cas + 1, page |-> t.z]
    BY DEF changeHugeCur, Become
  <1>2. /\ t \in Tab /\ t.set \in Sets /\ t.uuid \in Uuids /\ t.uuid[1] = t.user
        /\ t.user \in Users /\ t.page \in Pages /\ t.z \in 1..(MaxHuge + 1)
    BY <1>1, FillingType DEF Filling
  <1>3. hugeCur' \in [cas: Nat, page: 1..(MaxHuge + 1)]
    BY <1>1, <1>2, TypeParts DEF DocTypes
  <1>4. /\ huge' \in Seq(Seq(Sets \X Pages)) /\ Len(huge') <= MaxHuge /\ Len(huge) <= Len(huge')
        /\ \A z \in 1..Len(huge') : Len(huge'[z]) <= RangesPerPage
    BY <1>1, TypeParts, Bounds DEF DocTypes, SizesOK
  <1>5. DocTypes'
    BY <1>1, <1>3, <1>4, HugeTypes
  <1>6. /\ r \in Tab /\ r.pc = "getHugePage" /\ r.user = t.user /\ r.set = t.set
        /\ r.page = t.page /\ r.uuid = t.uuid /\ r.z = t.z
    BY <1>2 DEF Tab
  <1> HIDE DEF r
  <1>7. Wired(r)
    BY <1>2, <1>6 DEF Wired, Walking, Filling, Getting
  <1> QED BY <1>1, <1>4, <1>5, <1>6, <1>7, TabStepType

LEMMA ClaimRangeType ==
  ASSUME TypeInv, NEW s \in Tabs, claimRange(s)
  PROVE  TypeInv'
  <1>0. PICK e \in Seq(Uuids) \cup Seq(Sets \X Pages) : e = <<>>
    BY EmptySeq
  <1> DEFINE t == tab[s]
             more == Append(t.seen, Fill(t))
             r1 == [t EXCEPT !.pc = "addPage", !.seen = e]
             r2 == [t EXCEPT !.pc = "getHugePage", !.seen = e]
  <1>1. t.pc = "claimRange" /\ UNCHANGED <<account, cur, page, hugeCur, rest>>
    BY DEF claimRange
  <1>2. /\ t \in Tab /\ Wired(t) /\ t.set \in Sets /\ t.uuid \in Uuids /\ t.uuid[1] = t.user
        /\ t.user \in Users /\ t.page \in Pages /\ t.z \in 1..(MaxHuge + 1)
        /\ Fill(t) \in Sets \X Pages
    BY <1>1, FillingType DEF Filling
  <1>3. /\ t.seen \in Seq(Sets \X Pages) /\ Len(t.seen) < RangesPerPage /\ Len(t.seen) \in Nat
        /\ t.z \in 1..Len(huge) /\ t.range = <<t.z, Len(t.seen) + 1>>
    BY <1>1, <1>2 DEF Wired
  <1>4. /\ huge \in Seq(Seq(Sets \X Pages)) /\ Len(huge) \in 1..MaxHuge
        /\ \A z \in 1..Len(huge) : Len(huge[z]) <= RangesPerPage
    BY TypeParts DEF DocTypes, SizesOK
  <1>5. /\ r2 \in Tab /\ r2.pc = "getHugePage" /\ r2.user = t.user /\ r2.set = t.set
        /\ r2.page = t.page /\ r2.uuid = t.uuid /\ r2.z = t.z
    BY <1>2 DEF Tab
  <1>6. CASE Unchanged(t.seen, huge[t.z])
    <2>1. /\ tab' = [tab EXCEPT ![s] = r1] /\ huge' = [huge EXCEPT ![t.z] = more]
          /\ hugeCur' = hugeCur
      BY <1>0, <1>6 DEF claimRange, Become
    <2>2. more \in Seq(Sets \X Pages) /\ Len(more) <= RangesPerPage
      BY <1>2, <1>3, Bounds
    <2>3. t.range \in Ranges
      BY <1>3, <1>4, Bounds DEF Ranges
    <2>4. /\ r1 \in Tab /\ r1.pc = "addPage" /\ r1.user = t.user /\ r1.set = t.set
          /\ r1.page = t.page /\ r1.uuid = t.uuid /\ r1.z = t.z /\ r1.range = t.range
      BY <1>2 DEF Tab
    <2> HIDE DEF r1, more
    <2>5. /\ huge' \in Seq(Seq(Sets \X Pages)) /\ Len(huge') = Len(huge)
          /\ \A z \in 1..Len(huge') : Len(huge'[z]) <= RangesPerPage
      BY <1>3, <1>4, <2>1, <2>2
    <2>6. DocTypes' /\ Len(huge) <= Len(huge')
      <3>1. hugeCur' \in [cas: Nat, page: 1..(MaxHuge + 1)]
        BY <2>1, TypeParts DEF DocTypes
      <3>2. Len(huge') <= MaxHuge /\ Len(huge) <= Len(huge')
        BY <1>4, <2>5, Bounds
      <3> QED BY <1>1, <2>5, <3>1, <3>2, HugeTypes
    <2>7. Wired(r1)
      BY <1>2, <2>3, <2>4 DEF Wired, Walking, Filling, Getting
    <2> QED BY <2>1, <2>4, <2>6, <2>7, TabStepType
  <1>7. CASE ~Unchanged(t.seen, huge[t.z])
    <2>1. tab' = [tab EXCEPT ![s] = r2] /\ UNCHANGED <<docs, rest>>
      BY <1>0, <1>1, <1>7 DEF claimRange, Become, docs
    <2> HIDE DEF r2
    <2>2. Wired(r2)
      BY <1>2, <1>5 DEF Wired, Walking, Filling, Getting
    <2> QED BY <1>5, <2>1, <2>2, DocsSameType, TabStepType
  <1> QED BY <1>6, <1>7

LEMMA AddPageType ==
  ASSUME TypeInv, NEW s \in Tabs, addPage(s)
  PROVE  TypeInv'
  <1> DEFINE t == tab[s]
             p == [range |-> t.range, claims |-> <<>>]
             r == [t EXCEPT !.pc = "unlockSet", !.range = NoPage]
  <1>1. /\ t.pc = "addPage" /\ UNCHANGED <<account, cur, huge, hugeCur, rest>>
        /\ tab' = [tab EXCEPT ![s] = r]
    BY DEF addPage, Become
  <1>2. /\ t \in Tab /\ Wired(t) /\ t.set \in Sets /\ t.uuid \in Uuids /\ t.uuid[1] = t.user
        /\ t.user \in Users /\ t.page \in Pages /\ t.z \in 1..(MaxHuge + 1)
    BY <1>1, FillingType DEF Filling
  <1>3. t.range \in Ranges
    BY <1>1, <1>2 DEF Wired
  <1>4. page' = [page EXCEPT ![t.set][t.page] = p] \/ page' = page
    BY DEF addPage
  <1>5. p \in KeyPage /\ Len(p.claims) <= KeysPerPage
    BY <1>3, EmptySeq, Bounds DEF KeyPage
  <1>6. /\ r \in Tab /\ r.pc = "unlockSet" /\ r.user = t.user /\ r.set = t.set
        /\ r.page = t.page /\ r.uuid = t.uuid /\ r.z = t.z
    BY <1>2 DEF Tab
  <1> HIDE DEF r, p
  <1>7. Wired(r)
    BY <1>2, <1>6 DEF Wired, Walking, Filling, Getting
  <1>8. DocTypes' /\ Len(huge) <= Len(huge')
    <2>1. CASE page' = [page EXCEPT ![t.set][t.page] = p]
      BY <1>1, <1>2, <1>5, <2>1, PageTypes
    <2>2. CASE page' = page
      <3>1. UNCHANGED <<docs, rest>>
        BY <1>1, <2>2 DEF docs
      <3> QED BY <3>1, DocsSameType
    <2> QED BY <1>4, <2>1, <2>2
  <1> QED BY <1>1, <1>6, <1>7, <1>8, TabStepType

LEMMA DoneSendingType ==
  ASSUME TypeInv, NEW s \in Tabs, doneSendingBitcoins(s)
  PROVE  TypeInv'
  <1> DEFINE t == tab[s]
             a == account[Mine(s)]
             r == [t EXCEPT !.pc = "credit", !.doc = a]
  <1>1. t.pc = "key" /\ UNCHANGED <<docs, rest>>
    BY DEF doneSendingBitcoins
  <1>2. t \in Tab /\ t.user \in Users /\ t.pay \in Keys
    BY <1>1, TypeParts DEF Wired
  <1>3. a \in Account
    BY <1>2, TypeParts DEF DocTypes, Mine
  <1>4. /\ r \in Tab /\ r.pc = "credit" /\ r.user = t.user /\ r.pay = t.pay
    BY <1>2, <1>3 DEF Tab
  <1>5. tab' = [tab EXCEPT ![s] = r] \/ tab' = tab
    BY DEF doneSendingBitcoins, Become
  <1> HIDE DEF r
  <1>6. Wired(r)
    BY <1>2, <1>4 DEF Wired, Walking, Filling, Getting
  <1>7. CASE tab' = [tab EXCEPT ![s] = r]
    BY <1>1, <1>4, <1>6, <1>7, DocsSameType, TabStepType
  <1>8. CASE tab' = tab
    <2>1. tab' = [tab EXCEPT ![s] = t]
      BY <1>8 DEF TypeInv, TypeOK
    <2>2. Wired(t)
      BY TypeParts
    <2> QED BY <1>1, <1>2, <2>1, <2>2, DocsSameType, TabStepType
  <1> QED BY <1>5, <1>7, <1>8

LEMMA CreditType ==
  ASSUME TypeInv, NEW s \in Tabs, creditConfirmedBitcoinAmount(s)
  PROVE  TypeInv'
  <1> DEFINE t == tab[s]
             u == Mine(s)
             a == [t.doc EXCEPT !.cas = account[u].cas + 1, !.balance = @ + 1,
                                !.state = "NoKey", !.key = NoKey]
             r == [NewTab EXCEPT !.user = u, !.pc = "key", !.pay = t.pay]
  <1>1. t \in Tab /\ Wired(t) /\ t.pc = "credit"
    BY TypeParts DEF creditConfirmedBitcoinAmount
  <1>2. t.user \in Users /\ u = t.user /\ t.pay \in Keys
    BY <1>1 DEF Wired, Mine
  <1>3. account[u] \in Account
    BY <1>2, TypeParts DEF DocTypes
  <1>4. UNCHANGED <<cur, page, huge, hugeCur, requests, events, ledger, jumped>>
    BY DEF creditConfirmedBitcoinAmount
  <1>5. events \in Nat /\ credited \subseteq Keys /\ ledger \in [Users -> Nat]
    BY TypeParts, Bounds DEF DocTypes
  <1>6. CASE CasMatches(t.doc.cas, account[u])
    <2>1. /\ account' = [account EXCEPT ![u] = a] /\ Nothing(s)
          /\ credited' = credited \cup {t.pay}
      BY <1>6 DEF creditConfirmedBitcoinAmount
    <2>2. t.doc \in Account /\ account[u].cas + 1 \in Nat /\ t.doc.balance + 1 \in Nat
      BY <1>1, <1>3 DEF Tab, Account
    <2>3. a \in Account /\ a.state = "NoKey"
      BY <2>2 DEF Account
    <2> HIDE DEF a
    <2>4. DocTypes' /\ Len(huge) <= Len(huge')
      <3>1. a.state # "HaveKey" /\ a.state # "GettingKey"
        BY <2>3
      <3>2. credited' \subseteq Keys /\ ledger' \in [Users -> Nat] /\ events' \in Nat /\ events' <= events
        BY <1>2, <1>4, <1>5, <2>1
      <3> QED BY <1>2, <1>4, <2>1, <2>3, <3>1, <3>2, AccountTypes
    <2> QED BY <2>1, <2>4, NothingType
  <1>7. CASE ~CasMatches(t.doc.cas, account[u])
    <2>1. tab' = [tab EXCEPT ![s] = r] /\ UNCHANGED <<docs, rest>>
      BY <1>4, <1>7 DEF creditConfirmedBitcoinAmount, docs, rest, hist, ShowKey, Become
    <2>2. r \in Tab /\ Wired(r)
      BY <1>2, ShowKeyType
    <2> HIDE DEF r
    <2> QED BY <2>1, <2>2, DocsSameType, TabStepType
  <1> QED BY <1>6, <1>7

LEMMA CloseType ==
  ASSUME TypeInv, NEW s \in Tabs, Close(s) \/ Crash(s)
  PROVE  TypeInv'
  <1>1. /\ Nothing(s) /\ UNCHANGED <<account, cur, page, huge, hugeCur, requests, credited, ledger, jumped>>
        /\ events' = events \/ (events > 0 /\ events' = events - 1)
    BY DEF Close, Crash, Nothing, docs, rest, hist
  <1>2. /\ events \in 0..MaxEvents /\ events \in Nat /\ requests \in [Users -> Nat]
        /\ \A u \in Users : requests[u] + events <= MaxEvents
    BY TypeParts, Bounds DEF DocTypes, SizesOK
  <1>3. events' \in 0..MaxEvents /\ \A u \in Users : requests[u] + events' <= MaxEvents
    BY <1>1, <1>2, Bounds
  <1>4. DocTypes'
    BY <1>1, <1>3, TypeParts DEF DocTypes, SizesOK, AccountWired, Exists
  <1>5. Len(huge) <= Len(huge')
    BY <1>1 DEF TypeInv, TypeOK
  <1> QED BY <1>1, <1>4, <1>5, NothingType

\* A step of no tab.
LEMMA NoTabType ==
  ASSUME TypeInv, tab' = tab, DocTypes', Len(huge) <= Len(huge')
  PROVE  TypeInv'
  <1>1. Len(huge) \in Nat /\ Len(huge') \in Nat
    BY DEF TypeInv, TypeOK, DocTypes
  <1>2. \A s \in Tabs : Wired(tab[s])'
    BY <1>1, TypeParts DEF Wired
  <1> QED BY <1>2, TypeParts DEF TypeInv, TypeOK, DocTypes

LEMMA OthersType ==
  ASSUME TypeInv, NEW u \in Users, OtherLock(u) \/ OtherUnlock(u)
  PROVE  TypeInv'
  <1>1. account[u] \in Account /\ AccountWired(u) /\ events \in Nat /\ credited \subseteq Keys
        /\ ledger \in [Users -> Nat]
    BY TypeParts, Bounds DEF DocTypes
  <1>2. /\ UNCHANGED <<cur, page, huge, hugeCur, tab, requests, credited, jumped>>
        /\ events' = events \/ (events > 0 /\ events' = events - 1)
    BY DEF OtherLock, OtherUnlock, hist
  <1>3. ledger' \in [Users -> Nat]
    <2>1. CASE OtherLock(u)
      BY <1>1, <2>1 DEF OtherLock, hist
    <2>2. CASE OtherUnlock(u)
      BY <1>1, <2>2 DEF OtherUnlock
    <2> QED BY <2>1, <2>2
  <1>4. PICK a : /\ account' = [account EXCEPT ![u] = a] /\ a \in Account
                 /\ a.state = account[u].state /\ a.key = account[u].key
                 /\ a.set = account[u].set /\ a.page = account[u].page
                 /\ a.uuid = account[u].uuid
    <2>1. CASE OtherLock(u)
      <3> DEFINE b == [account[u] EXCEPT !.locked = TRUE, !.cas = @ + 1]
      <3>1. account' = [account EXCEPT ![u] = b]
        BY <2>1, TypeParts DEF OtherLock, DocTypes
      <3>2. b \in Account /\ b.state = account[u].state /\ b.key = account[u].key
            /\ b.set = account[u].set /\ b.page = account[u].page /\ b.uuid = account[u].uuid
        <4>1. PICK d : d = account[u] /\ d \in Account
          BY <1>1
        <4>2. b = [d EXCEPT !.locked = TRUE, !.cas = @ + 1]
          BY <4>1
        <4>3. d.cas + 1 \in Nat
          BY <4>1 DEF Account
        <4> HIDE DEF b
        <4>4. b \in Account
          BY <4>1, <4>2, <4>3 DEF Account
        <4>5. b.state = d.state /\ b.key = d.key /\ b.set = d.set /\ b.page = d.page /\ b.uuid = d.uuid
          BY <4>1, <4>2 DEF Account
        <4> QED BY <4>1, <4>4, <4>5
      <3> QED BY <3>1, <3>2
    <2>2. CASE OtherUnlock(u)
      <3>0. PICK more \in {0, 1} :
               account' = [account EXCEPT ![u].locked = FALSE, ![u].cas = @ + 1,
                                          ![u].balance = @ + more]
        BY <2>2 DEF OtherUnlock
      <3> DEFINE b == [account[u] EXCEPT !.locked = FALSE, !.cas = @ + 1, !.balance = @ + more]
      <3>1. account' = [account EXCEPT ![u] = b]
        BY <3>0, TypeParts DEF DocTypes
      <3>2. b \in Account /\ b.state = account[u].state /\ b.key = account[u].key
            /\ b.set = account[u].set /\ b.page = account[u].page /\ b.uuid = account[u].uuid
        <4>1. PICK d : d = account[u] /\ d \in Account
          BY <1>1
        <4>2. b = [d EXCEPT !.locked = FALSE, !.cas = @ + 1, !.balance = @ + more]
          BY <4>1
        <4>3. d.cas + 1 \in Nat /\ d.balance + more \in Nat
          BY <4>1 DEF Account
        <4> HIDE DEF b
        <4>4. b \in Account
          BY <4>1, <4>2, <4>3 DEF Account
        <4>5. b.state = d.state /\ b.key = d.key /\ b.set = d.set /\ b.page = d.page /\ b.uuid = d.uuid
          BY <4>1, <4>2 DEF Account
        <4> QED BY <4>1, <4>4, <4>5
      <3> QED BY <3>1, <3>2
    <2> QED BY <2>1, <2>2
  <1>5. /\ a.state = "HaveKey" => a.key \in Keys
        /\ a.state = "GettingKey" =>
             a.set \in Sets /\ a.page \in Pages /\ a.uuid \in Uuids /\ a.uuid[1] = u
    BY <1>1, <1>4 DEF AccountWired
  <1>6. credited' \subseteq Keys /\ events' \in Nat /\ events' <= events
    BY <1>1, <1>2
  <1> QED BY <1>2, <1>3, <1>4, <1>5, <1>6, AccountTypes, NoTabType

LEMMA AdderType ==
  ASSUME TypeInv, addHugeBitcoinKeyListPage
  PROVE  TypeInv'
  <1>1. /\ Len(huge) < MaxHuge /\ huge' = Append(huge, <<>>)
        /\ UNCHANGED <<account, cur, page, hugeCur, tab, rest>>
    BY DEF addHugeBitcoinKeyListPage
  <1>2. /\ huge \in Seq(Seq(Sets \X Pages)) /\ Len(huge) \in Nat
        /\ \A z \in 1..Len(huge) : Len(huge[z]) <= RangesPerPage
        /\ hugeCur \in [cas: Nat, page: 1..(MaxHuge + 1)]
    BY TypeParts DEF DocTypes, SizesOK
  <1>3. PICK e \in Seq(Sets \X Pages) : e = <<>> /\ Len(e) = 0
    BY EmptySeq
  <1>4. /\ huge' \in Seq(Seq(Sets \X Pages)) /\ Len(huge') = Len(huge) + 1
        /\ \A z \in 1..Len(huge') : huge'[z] = IF z = Len(huge) + 1 THEN e ELSE huge[z]
    BY <1>1, <1>2, <1>3
  <1>5. Len(huge') <= MaxHuge /\ Len(huge) <= Len(huge')
    BY <1>1, <1>2, <1>4, Bounds
  <1>6. \A z \in 1..Len(huge') : Len(huge'[z]) <= RangesPerPage
    <2> SUFFICES ASSUME NEW z \in 1..Len(huge') PROVE Len(huge'[z]) <= RangesPerPage
      OBVIOUS
    <2>1. CASE z = Len(huge) + 1
      BY <1>3, <1>4, <2>1, Bounds
    <2>2. CASE z # Len(huge) + 1
      <3>1. z \in 1..Len(huge) /\ huge'[z] = huge[z]
        BY <1>2, <1>4, <2>2
      <3> QED BY <1>2, <3>1
    <2> QED BY <2>1, <2>2
  <1>7. DocTypes'
    <2>1. UNCHANGED <<account, cur, page, rest>> /\ hugeCur' \in [cas: Nat, page: 1..(MaxHuge + 1)]
      BY <1>1, <1>2
    <2> QED BY <1>4, <1>5, <1>6, <2>1, HugeTypes
  <1> QED BY <1>1, <1>5, <1>7, NoTabType

LEMMA InitType == Init => TypeInv
  <1> SUFFICES ASSUME Init PROVE TypeInv
    OBVIOUS
  <1>1. tab \in [Tabs -> Tab] /\ \A s \in Tabs : Wired(tab[s])
    BY NewTabType DEF Init
  <1>2. account \in [Users -> Account] /\ \A u \in Users : AccountWired(u)
    BY NewTabType DEF Init, AccountWired, NewTab, Tab, NewAccount
  <1>3. cur \in [Sets -> Current]
    BY PagesAreNumbers, Bounds DEF Init, Current
  <1>4. page \in [Sets -> [Pages -> KeyPage \cup {NoPage}]]
    BY EmptySeq DEF Init, KeyPage
  <1>5. \A n \in Sets, y \in Pages : Exists(n, y) => Len(page[n][y].claims) <= KeysPerPage
    BY EmptySeq, Bounds DEF Init, Exists
  <1>6. /\ huge \in Seq(Seq(Sets \X Pages)) /\ Len(huge) = 1
        /\ \A z \in 1..Len(huge) : Len(huge[z]) <= RangesPerPage
    <2>1. PICK e \in Seq(Sets \X Pages) : e = <<>> /\ Len(e) = 0
      BY EmptySeq
    <2>2. huge = <<e>>
      BY <2>1 DEF Init
    <2> QED BY <2>1, <2>2, Bounds
  <1>7. hugeCur \in [cas: Nat, page: 1..(MaxHuge + 1)]
    BY Bounds DEF Init
  <1>8. SizesOK
    BY <1>5, <1>6, Bounds DEF Init, SizesOK
  <1>9. /\ requests \in [Users -> Nat] /\ ledger \in [Users -> Nat]
        /\ events \in 0..MaxEvents /\ credited \subseteq Keys /\ jumped \subseteq Uuids
    BY Bounds DEF Init
  <1> QED
    BY <1>1, <1>2, <1>3, <1>4, <1>6, <1>7, <1>8, <1>9 DEF TypeInv, TypeOK

LEMMA NextType == PagesInv /\ [Next]_vars => TypeInv'
  <1> SUFFICES ASSUME PagesInv, [Next]_vars PROVE TypeInv'
    OBVIOUS
  <1>0. TypeInv
    BY DEF PagesInv
  <1>1. ASSUME NEW s \in Tabs, TabStep(s) PROVE TypeInv'
    BY <1>0, <1>1, OpenedType, CheckedType, AnalyzeType, LockAccountType, GetPageType, ClaimKeyType,
       UnlockAccountType, GetHugeCurType, LockSetType, GetHugePageType, ChangeHugeCurType,
       ClaimRangeType, RelockSetType, AddPageType, UnlockSetType, DoneSendingType, CreditType,
       CloseType DEF TabStep
  <1>2. ASSUME UNCHANGED vars PROVE TypeInv'
    <2>1. tab' = tab /\ UNCHANGED <<docs, rest>>
      BY <1>2 DEF vars
    <2> QED BY <1>0, <2>1, DocsSameType, NoTabType
  <1> QED BY <1>0, <1>1, <1>2, OthersType, AdderType DEF Next

-----------------------------------------------------------------------------
(* FillInv is inductive.  Every step lets the documents grow, and what was  *)
(* known of them stays true of documents that have grown.                  *)

\* A page is added only up to the current one, with a range claimed for it; a
\* range is claimed only on a page of the huge list that is not full, and for no
\* page beyond the current one.
PagesGrow ==
  /\ \A n \in Sets, y \in Pages :
       Exists(n, y) => Exists(n, y)' /\ page'[n][y].range = page[n][y].range
  /\ \A n \in Sets, y \in Pages : \A r \in {page'[n][y].range} :
       Exists(n, y)' /\ ~Exists(n, y) =>
         1 < y /\ y <= cur[n].page /\ r \in Ranges /\ At(r[1], r[2], <<n, y>>)
RangesGrow ==
  /\ \A z \in 1..MaxHuge : Full(z) => Full(z)'
  /\ \A z \in 1..MaxHuge, i \in 1..RangesPerPage, f \in Sets \X Pages :
       /\ At(z, i, f) => At(z, i, f)'
       /\ At(z, i, f)' /\ ~At(z, i, f) => ~Full(z) /\ f[2] <= cur[f[1]].page
CurGrows(n) ==
  cur'[n] = cur[n] \/ (cur'[n].cas > cur[n].cas /\ cur'[n].page >= cur[n].page)
Grows == PagesGrow /\ RangesGrow /\ \A n \in Sets : CurGrows(n)

LEMMA FullBelowGrows ==
  ASSUME TypeInv, Grows, NEW z, FullBelow(z)
  PROVE  FullBelow(z)'
  <1>1. Len(huge) \in 1..MaxHuge
    BY DEF TypeInv, SizesOK
  <1>2. \A w \in 1..(z - 1) : Full(w) /\ w \in 1..MaxHuge
    BY <1>1, Bounds DEF FullBelow, Full
  <1>3. \A w \in 1..(z - 1) : Full(w)'
    BY <1>2, Zenon DEF Grows, RangesGrow
  <1> QED BY <1>3 DEF FullBelow

LEMMA NoneBelowGrows ==
  ASSUME TypeInv, Grows, NEW z \in Nat, NEW f \in Sets \X Pages, FullBelow(z), NoneBelow(z, f)
  PROVE  NoneBelow(z, f)'
  <1> SUFFICES ASSUME NEW w \in 1..MaxHuge, NEW i \in 1..RangesPerPage, At(w, i, f)'
               PROVE  w >= z
    BY DEF NoneBelow
  <1>1. CASE At(w, i, f)
    BY <1>1 DEF NoneBelow
  <1>2. CASE ~At(w, i, f)
    <2>1. ~Full(w)
      BY <1>2 DEF Grows, RangesGrow
    <2>2. ~(w \in 1..(z - 1))
      BY <2>1 DEF FullBelow
    <2> QED BY <2>2, Bounds
  <1> QED BY <1>1, <1>2

LEMMA KnowsGrows ==
  ASSUME TypeInv, TypeInv', Grows, NEW t \in Tab, Wired(t), Knows(t)
  PROVE  Knows(t)'
  <1>1. CASE t.pc \notin Getting
    BY <1>1 DEF Knows, Getting, Walking, Filling
  <1>2. CASE t.pc \in Getting
    <2> DEFINE c == cur[t.set]
               d == cur'[t.set]
    <2>0. t.set \in Sets
      BY <1>2 DEF Wired
    <2>1. c \in Current /\ d \in Current /\ t.cas \in Nat
      BY <2>0 DEF TypeInv, TypeOK, Tab
    <2>2. CurGrows(t.set)
      BY <2>0 DEF Grows
    <2>3. c.cas \in Nat /\ c.page \in Nat /\ d.cas \in Nat /\ d.page \in Nat
      <3> HIDE DEF c, d
      <3> QED BY <2>1, PagesAreNumbers DEF Current
    <2>4. d = c \/ (d.cas > c.cas /\ d.page >= c.page)
      BY <2>2 DEF CurGrows
    <2>5. t.pc \in Walking \cup Filling => t.page \in Pages /\ t.page \in Nat /\ t.cas <= c.cas
      BY PagesAreNumbers DEF Knows, Wired
    <2>6. \A y \in Pages : Exists(t.set, y) => Exists(t.set, y)'
      BY <2>0 DEF Grows, PagesGrow
    <2>7. t.pc \in Filling => t.z \in Nat /\ Fill(t) \in Sets \X Pages
      BY <2>0, <2>5, Bounds DEF Wired, Fill
    <2>8. t.pc = "analyze" => t.page = 0 \/ t.page \in Pages
      BY DEF Tab
    <2>9. t.pc = "analyze" => t.page = 0 \/ Exists(t.set, t.page)'
      BY <2>6, <2>8 DEF Knows
    <2>10. t.pc \in {"lockAccount", "getPage", "claimKey", "unlockAccount", "unlockSet"} =>
             Exists(t.set, t.page)'
      BY <2>5, <2>6 DEF Knows, Walking, Filling
    <2>11. t.pc \in {"getNextPage", "getHugeCur", "lockSet"} =>
             t.page > 1 /\ Exists(t.set, t.page - 1)'
      <3> SUFFICES ASSUME t.pc \in {"getNextPage", "getHugeCur", "lockSet"}
                   PROVE  t.page > 1 /\ Exists(t.set, t.page - 1)'
        OBVIOUS
      <3>1. t.page > 1 /\ Exists(t.set, t.page - 1) /\ t.page \in Pages
        BY <2>5 DEF Knows, Walking
      <3>2. t.page - 1 \in Pages
        BY <3>1, RangesAreFinite DEF Pages
      <3> QED BY <2>6, <3>1, <3>2
    <2>12. t.pc = "lockSet" => FullBelow(t.z)'
      BY FullBelowGrows DEF Knows
    <2>13. t.pc \in Filling => FullBelow(t.z)' /\ NoneBelow(t.z, Fill(t))'
      BY <2>7, FullBelowGrows, NoneBelowGrows DEF Knows
    <2>14. t.pc \in Walking \cup Filling => t.cas <= d.cas /\ (t.cas = d.cas => d = c)
      <3> HIDE DEF c, d
      <3> QED BY <2>1, <2>3, <2>4, <2>5
    <2>15. t.pc \in Walking /\ t.cas = d.cas => d.from = 0
      BY <2>14 DEF Knows
    <2>16. t.pc \in {"getHugeCur", "lockSet"} /\ t.cas = d.cas => t.page = d.page + 1
      BY <2>14 DEF Knows, Walking
    <2>17. t.pc \in Filling => /\ 1 < t.page /\ t.page <= d.page
                               /\ t.cas = d.cas => d.from > 0 /\ t.page = d.page
      <3> SUFFICES ASSUME t.pc \in Filling
                   PROVE  /\ 1 < t.page /\ t.page <= d.page
                          /\ t.cas = d.cas => d.from > 0 /\ t.page = d.page
        OBVIOUS
      <3>1. 1 < t.page /\ t.page <= c.page /\ (t.cas = c.cas => c.from > 0 /\ t.page = c.page)
        BY DEF Knows
      <3>2. t.cas = d.cas => d = c
        BY <2>14
      <3>3. t.page \in Nat
        BY <2>5
      <3>4. t.page <= d.page
        <4> HIDE DEF c, d
        <4> QED BY <2>3, <2>4, <3>1, <3>3
      <3> QED BY <3>1, <3>2, <3>4
    <2>18. t.pc = "addPage" => At(t.range[1], t.range[2], Fill(t))'
      <3> SUFFICES ASSUME t.pc = "addPage" PROVE At(t.range[1], t.range[2], Fill(t))'
        OBVIOUS
      <3>1. t.range \in Ranges /\ At(t.range[1], t.range[2], Fill(t)) /\ Fill(t) \in Sets \X Pages
        BY <2>7 DEF Wired, Knows, Filling
      <3>2. t.range[1] \in 1..MaxHuge /\ t.range[2] \in 1..RangesPerPage
        BY <3>1 DEF Ranges
      <3>3. At(t.range[1], t.range[2], Fill(t))'
        BY <3>1, <3>2, Zenon DEF Grows, RangesGrow
      <3> QED BY <3>3
    <2> HIDE DEF c
    <2>19. t.pc = "claimRange" => \A i \in 1..Len(t.seen) : t.seen[i] # Fill(t)
      BY DEF Knows
    <2> QED
      BY <2>9, <2>10, <2>11, <2>12, <2>13, <2>14, <2>15, <2>16, <2>17, <2>18, <2>19, Zenon
      DEF Knows, Fill
  <1> QED BY <1>1, <1>2

LEMMA BeyondGrows ==
  ASSUME TypeInv, TypeInv', Grows, NEW n \in Sets, SetInv(n)
  PROVE  NoneBeyond(n)' /\ RangesAreClaimed(n)'
  <1>1. PICK c, d : c = cur[n] /\ d = cur'[n]
    OBVIOUS
  <1>2. c.page \in Nat /\ d.page \in Nat /\ c.cas \in Nat /\ d.cas \in Nat
    <2>1. c \in Current /\ d \in Current
      BY <1>1 DEF TypeInv, TypeOK
    <2> QED BY <2>1, PagesAreNumbers DEF Current
  <1>3. c.page <= d.page
    <2>1. CurGrows(n)
      BY DEF Grows
    <2> QED BY <1>1, <1>2, <2>1 DEF CurGrows
  <1>4. NoneBeyond(n)'
    <2> SUFFICES ASSUME NEW y \in Pages, y > d.page
                 PROVE  ~Exists(n, y)' /\ Unclaimed(<<n, y>>)'
      BY <1>1, Zenon DEF NoneBeyond
    <2>1. y > c.page /\ ~(y <= c.page)
      BY <1>2, <1>3, PagesAreNumbers
    <2>2. ~Exists(n, y) /\ Unclaimed(<<n, y>>)
      BY <1>1, <2>1 DEF SetInv, NoneBeyond
    <2>3. ~Exists(n, y)'
      BY <1>1, <2>1, <2>2 DEF Grows, PagesGrow
    <2>4. <<n, y>> \in Sets \X Pages /\ <<n, y>>[1] = n /\ <<n, y>>[2] = y
      OBVIOUS
    <2>5. ASSUME NEW w \in 1..MaxHuge, NEW i \in 1..RangesPerPage
          PROVE  ~At(w, i, <<n, y>>)'
      <3>1. ~At(w, i, <<n, y>>)
        BY <2>2 DEF Unclaimed
      <3> DEFINE f == <<n, y>>
      <3>2. ~(f[2] <= cur[f[1]].page)
        BY <1>1, <2>1, <2>4
      <3> HIDE DEF f
      <3>3. f \in Sets \X Pages
        BY <2>4 DEF f
      <3>4. ~At(w, i, f)
        BY <3>1 DEF f
      <3>5. ~At(w, i, f)'
        BY <3>2, <3>3, <3>4, Zenon DEF Grows, RangesGrow
      <3> QED BY <3>5 DEF f
    <2> QED BY <2>3, <2>5 DEF Unclaimed
  <1>5. RangesAreClaimed(n)'
    <2> SUFFICES ASSUME NEW y \in Pages, Exists(n, y)', NEW r, r = page'[n][y].range
                 PROVE  IF y = 1 THEN r = FirstRange(n)
                        ELSE r \in Ranges /\ At(r[1], r[2], <<n, y>>)'
      BY Zenon DEF RangesAreClaimed
    <2>1. <<n, y>> \in Sets \X Pages
      OBVIOUS
    <2>2. r \in Ranges /\ At(r[1], r[2], <<n, y>>) => At(r[1], r[2], <<n, y>>)'
      <3> SUFFICES ASSUME r \in Ranges, At(r[1], r[2], <<n, y>>)
                   PROVE  At(r[1], r[2], <<n, y>>)'
        OBVIOUS
      <3>1. r[1] \in 1..MaxHuge /\ r[2] \in 1..RangesPerPage
        BY DEF Ranges
      <3> QED BY <2>1, <3>1, Zenon DEF Grows, RangesGrow
    <2>3. CASE Exists(n, y)
      <3>1. page[n][y].range = r
        BY <2>3 DEF Grows, PagesGrow
      <3> QED BY <2>2, <2>3, <3>1 DEF SetInv, RangesAreClaimed
    <2>4. CASE ~Exists(n, y)
      <3>1. 1 < y /\ r \in Ranges /\ At(r[1], r[2], <<n, y>>)
        BY <2>4 DEF Grows, PagesGrow
      <3> QED BY <2>2, <3>1
    <2> QED BY <2>3, <2>4
  <1> QED BY <1>4, <1>5

\* Of a set whose current page stays what it was.
LEMMA SetGrows ==
  ASSUME TypeInv, TypeInv', Grows, NEW n \in Sets, SetInv(n), cur'[n] = cur[n]
  PROVE  SetInv(n)'
  <1>1. NoneBeyond(n)' /\ RangesAreClaimed(n)'
    BY BeyondGrows
  <1>2. HasPages(n)'
    <2> SUFFICES ASSUME NEW y \in Pages, y < cur[n].page \/ (y = cur[n].page /\ cur[n].from = 0)
                 PROVE  Exists(n, y)'
      BY DEF HasPages
    <2>1. Exists(n, y)
      BY DEF SetInv, HasPages
    <2> QED BY <2>1 DEF Grows, PagesGrow
  <1>3. FillStarts(n)'
    <2> SUFFICES ASSUME cur[n].from > 0
                 PROVE  /\ cur[n].page > 1 /\ FullBelow(cur[n].from)'
                        /\ NoneBelow(cur[n].from, <<n, cur[n].page>>)'
      BY DEF FillStarts, FullBelow, NoneBelow
    <2>1. /\ cur[n].page > 1 /\ FullBelow(cur[n].from)
          /\ NoneBelow(cur[n].from, <<n, cur[n].page>>)
      BY DEF SetInv, FillStarts
    <2>2. cur[n] \in Current
      BY DEF TypeInv, TypeOK
    <2>3. cur[n].from \in Nat /\ <<n, cur[n].page>> \in Sets \X Pages
      BY <2>2, Bounds DEF Current
    <2>4. PICK z, f : z = cur[n].from /\ f = <<n, cur[n].page>>
      OBVIOUS
    <2>5. FullBelow(z)' /\ NoneBelow(z, f)'
      BY <2>1, <2>3, <2>4, FullBelowGrows, NoneBelowGrows
    <2> QED BY <2>1, <2>4, <2>5 DEF FullBelow, NoneBelow
  <1> QED BY <1>1, <1>2, <1>3 DEF SetInv

LEMMA SameGrows ==
  ASSUME TypeInv, UNCHANGED <<page, huge>>, \A n \in Sets : CurGrows(n)
  PROVE  Grows
  BY DEF Grows, PagesGrow, RangesGrow, Exists, Full, At

\* What the tabs know survives a step of one of them.
LEMMA TabsKnow ==
  ASSUME PagesInv, TypeInv', Grows, NEW s \in Tabs, NEW t,
         tab' = [tab EXCEPT ![s] = t], Knows(t)'
  PROVE  \A q \in Tabs : Knows(tab[q])'
  <1> SUFFICES ASSUME NEW q \in Tabs PROVE Knows(tab[q])'
    OBVIOUS
  <1>0. tab \in [Tabs -> Tab] /\ Wired(tab[q]) /\ Knows(tab[q]) /\ TypeInv
    BY DEF PagesInv, TypeInv, TypeOK, FillInv
  <1>1. PICK r : r = tab'[q]
    OBVIOUS
  <1>2. r = IF q = s THEN t ELSE tab[q]
    BY <1>0, <1>1
  <1>3. Knows(r)'
    <2>1. CASE q = s
      BY <1>2, <2>1
    <2>2. CASE q # s
      <3>1. PICK k : k = tab[q]
        OBVIOUS
      <3>2. Knows(k)'
        BY <1>0, <3>1, KnowsGrows
      <3> QED BY <1>2, <2>2, <3>1, <3>2
    <2> QED BY <2>1, <2>2
  <1> QED BY <1>1, <1>3 DEF Knows

\* The accounts that get a key get it on pages that are there.
AccountsKnow ==
  \A u \in Users : \A a \in {account'[u]} :
    \/ a.state # "GettingKey"
    \/ a.state = account[u].state /\ a.set = account[u].set /\ a.page = account[u].page
    \/ a.set \in Sets /\ a.page \in Pages /\ Exists(a.set, a.page)

LEMMA AccountsKnowOn ==
  ASSUME PagesInv, TypeInv', Grows, AccountsKnow
  PROVE  \A u \in Users : AccountKnows(u)'
  <1> SUFFICES ASSUME NEW u \in Users, NEW a, a = account'[u], a.state = "GettingKey"
               PROVE  Exists(a.set, a.page)'
    BY Zenon DEF AccountKnows
  <1>1. a.set \in Sets /\ a.page \in Pages /\ Exists(a.set, a.page)
    <2>1. AccountWired(u) /\ AccountKnows(u)
      BY DEF PagesInv, TypeInv, FillInv
    <2> QED BY <2>1 DEF AccountsKnow, AccountWired, AccountKnows
  <1>2. PICK n, y : n = a.set /\ y = a.page
    OBVIOUS
  <1>3. Exists(n, y)'
    BY <1>1, <1>2 DEF Grows, PagesGrow
  <1> QED BY <1>2, <1>3 DEF Exists

\* A step that stores at most an account.
LEMMA QuietStep ==
  ASSUME PagesInv, TypeInv', NEW s \in Tabs, NEW t,
         tab' = [tab EXCEPT ![s] = t], Knows(t), AccountsKnow,
         UNCHANGED <<cur, page, huge, hugeCur>>
  PROVE  FillInv'
  <1>0. TypeInv /\ tab' \in [Tabs -> Tab]
    BY DEF PagesInv, TypeInv, TypeOK
  <1>1. Grows
    <2>1. \A n \in Sets : CurGrows(n)
      BY DEF CurGrows
    <2> QED BY <1>0, <2>1, SameGrows
  <1>2. HugeInv'
    BY DEF PagesInv, FillInv, HugeInv, At, FullBelow, Full
  <1>3. \A n \in Sets : SetInv(n)'
    BY <1>0, <1>1, SetGrows DEF PagesInv, FillInv
  <1>4. Knows(t)'
    BY DEF Knows, Exists, FullBelow, Full, NoneBelow, At, Fill
  <1>5. \A q \in Tabs : Knows(tab[q])'
    BY <1>1, <1>4, TabsKnow
  <1> QED BY <1>1, <1>2, <1>3, <1>5, AccountsKnowOn DEF FillInv

LEMMA PagesParts ==
  PagesInv => /\ TypeInv /\ HugeInv
              /\ \A n \in Sets : SetInv(n)
              /\ \A s \in Tabs : tab[s] \in Tab /\ Wired(tab[s]) /\ Knows(tab[s])
              /\ \A u \in Users : AccountKnows(u)
  BY TypeParts DEF PagesInv, FillInv

LEMMA IdleKnows ==
  ASSUME NEW t, t.pc \in {"closed", "key", "credit"}
  PROVE  Knows(t)
  BY DEF Knows, Walking, Filling

LEMMA NewTabKnows == NewTab.pc = "closed" /\ Knows(NewTab)
  BY IdleKnows DEF NewTab

LEMMA SameAccounts == UNCHANGED account => AccountsKnow
  BY DEF AccountsKnow

LEMMA CloseFill ==
  ASSUME PagesInv, TypeInv', NEW s \in Tabs, Nothing(s), AccountsKnow,
         UNCHANGED <<cur, page, huge, hugeCur>>
  PROVE  FillInv'
  BY NewTabKnows, QuietStep DEF Nothing, Become

LEMMA ShowKeyFill ==
  ASSUME PagesInv, TypeInv', NEW s \in Tabs, NEW u, NEW k, ShowKey(s, u, k), AccountsKnow,
         UNCHANGED <<cur, page, huge, hugeCur>>
  PROVE  FillInv'
  <1> DEFINE t == [NewTab EXCEPT !.user = u, !.pc = "key", !.pay = k]
  <1>1. tab' = [tab EXCEPT ![s] = t] /\ t.pc = "key"
    BY DEF ShowKey, Become, NewTab
  <1> HIDE DEF t
  <1>2. Knows(t)
    BY <1>1, IdleKnows
  <1> QED BY <1>1, <1>2, QuietStep

LEMMA CheckedFill ==
  ASSUME PagesInv, TypeInv', NEW s \in Tabs, NEW u \in Users, checkNotAttemptingThenTransition(s, u)
  PROVE  FillInv'
  <1>0. UNCHANGED <<account, cur, page, huge, hugeCur>>
    BY Zenon DEF checkNotAttemptingThenTransition, docs
  <1>1. CASE account[u].state = "GettingKey"
    <2> DEFINE t == Recovering(u, account[u])
    <2>1. tab' = [tab EXCEPT ![s] = t]
      BY <1>1 DEF checkNotAttemptingThenTransition, Become
    <2>2. t.pc = "analyze" /\ t.page = account[u].page /\ t.set = account[u].set
      BY NewTabType DEF Recovering, Tab
    <2>3. Exists(account[u].set, account[u].page)
      BY <1>1, PagesParts DEF AccountKnows
    <2> HIDE DEF t
    <2>4. Knows(t)
      BY <2>2, <2>3 DEF Knows, Walking, Filling
    <2> QED BY <1>0, <2>1, <2>4, QuietStep, SameAccounts
  <1>2. CASE account[u].state # "GettingKey"
    <2>1. PICK n \in Sets :
            tab' = [tab EXCEPT ![s] = [NewTab EXCEPT !.user = u, !.pc = "analyze", !.doc = account[u],
                                      !.set = n, !.uuid = <<u, requests[u] + 1>>]]
      BY <1>2, Zenon DEF checkNotAttemptingThenTransition, Become
    <2> DEFINE t == [NewTab EXCEPT !.user = u, !.pc = "analyze", !.doc = account[u],
                                      !.set = n, !.uuid = <<u, requests[u] + 1>>]
    <2>2. t.pc = "analyze" /\ t.page = 0
      BY DEF NewTab
    <2>3. tab' = [tab EXCEPT ![s] = t]
      BY <2>1
    <2> HIDE DEF t
    <2>4. Knows(t)
      BY <2>2 DEF Knows, Walking, Filling
    <2> QED BY <1>0, <2>3, <2>4, QuietStep, SameAccounts
  <1> QED BY <1>1, <1>2

LEMMA AnalyzeFill ==
  ASSUME PagesInv, TypeInv', NEW s \in Tabs, analyzeCurrentPage(s)
  PROVE  FillInv'
  <1> DEFINE t == tab[s]
             c == cur[t.set]
             fill == [t EXCEPT !.pc = "getHugePage", !.cas = c.cas, !.page = c.page,
                               !.z = c.from, !.z0 = c.from, !.fromCur = FALSE]
             mid == [t EXCEPT !.cas = c.cas, !.page = IF @ = 0 THEN c.page ELSE @]
             go == Proceeding(mid)
  <1>1. t \in Tab /\ Wired(t) /\ Knows(t) /\ t.pc = "analyze" /\ TypeInv
    BY PagesParts DEF analyzeCurrentPage
  <1>2. t.set \in Sets
    BY <1>1 DEF Wired, Getting
  <1>3. c \in Current /\ SetInv(t.set)
    BY <1>2, PagesParts DEF TypeInv, TypeOK
  <1>4. UNCHANGED <<account, cur, page, huge, hugeCur>>
    BY DEF analyzeCurrentPage, docs
  <1>5. c.page \in Pages /\ c.page \in Nat /\ c.page # 0 /\ c.from \in 0..(MaxHuge + 1) /\ c.cas \in Nat
    <2> HIDE DEF c
    <2> QED BY <1>3, PagesAreNumbers DEF Current
  <1>6. CASE FillingNext(c)
    <2>1. tab' = [tab EXCEPT ![s] = fill]
      BY <1>6 DEF analyzeCurrentPage, Become
    <2>2. /\ fill.pc = "getHugePage" /\ fill.page = c.page /\ fill.z = c.from
          /\ fill.set = t.set /\ fill.cas = c.cas /\ Fill(fill) = <<t.set, c.page>>
      BY <1>1 DEF Tab, Fill
    <2>3. c.page > 1 /\ FullBelow(c.from) /\ NoneBelow(c.from, <<t.set, c.page>>) /\ c.from > 0
      BY <1>3, <1>6 DEF SetInv, FillStarts, FillingNext
    <2>4. PICK d : d = c
      OBVIOUS
    <2> HIDE DEF fill
    <2>5. cur[fill.set] = d
      BY <2>2, <2>4
    <2> HIDE DEF c, t
    <2>6. fill.cas <= d.cas /\ 1 < fill.page /\ fill.page <= d.page
          /\ FullBelow(fill.z) /\ NoneBelow(fill.z, Fill(fill))
          /\ d.from > 0 /\ fill.page = d.page
      BY <1>5, <2>2, <2>3, <2>4
    <2>7. Knows(fill)
      BY <2>2, <2>5, <2>6 DEF Knows, Walking, Filling
    <2> QED BY <1>4, <2>1, <2>7, QuietStep, SameAccounts
  <1>7. CASE ~FillingNext(c)
    <2>1. tab' = [tab EXCEPT ![s] = go]
      BY <1>7 DEF analyzeCurrentPage, Become
    <2>2. /\ go.pc \in {"getPage", "lockAccount"} /\ go.page = IF t.page = 0 THEN c.page ELSE t.page
          /\ go.set = t.set /\ go.cas = c.cas
      BY <1>1 DEF Tab, Proceeding
    <2>3. c.from = 0
      BY <1>5, <1>7, Bounds DEF FillingNext
    <2>4. Exists(t.set, c.page)
      BY <1>3, <1>5, <2>3 DEF SetInv, HasPages
    <2>5. Exists(go.set, go.page)
      BY <1>1, <2>2, <2>4 DEF Knows
    <2>6. PICK d : d = c
      OBVIOUS
    <2> HIDE DEF go
    <2>7. cur[go.set] = d
      BY <2>2, <2>6
    <2> HIDE DEF c, t
    <2>8. go.cas <= d.cas /\ d.from = 0
      BY <1>5, <2>2, <2>3, <2>6
    <2>9. Knows(go)
      BY <2>2, <2>5, <2>7, <2>8 DEF Knows, Walking, Filling
    <2> QED BY <1>4, <2>1, <2>9, QuietStep, SameAccounts
  <1> QED BY <1>6, <1>7

LEMMA LockAccountFill ==
  ASSUME PagesInv, TypeInv', NEW s \in Tabs, lockAccount(s)
  PROVE  FillInv'
  <1> DEFINE t == tab[s]
             u == Mine(s)
             locked == [t.doc EXCEPT !.cas = account[u].cas + 1, !.state = "GettingKey",
                                     !.set = t.set, !.page = t.page, !.uuid = t.uuid]
             r == [t EXCEPT !.pc = "getPage", !.doc.cas = locked.cas]
  <1>1. t \in Tab /\ Wired(t) /\ Knows(t) /\ t.pc = "lockAccount" /\ TypeInv
    BY PagesParts DEF lockAccount
  <1>2. t.set \in Sets /\ t.page \in Pages /\ t.user \in Users /\ u = t.user
    BY <1>1 DEF Wired, Getting, Walking, Mine
  <1>3. UNCHANGED <<cur, page, huge, hugeCur>>
    BY DEF lockAccount
  <1>4. CASE CasMatches(t.doc.cas, account[u])
    <2>1. account' = [account EXCEPT ![u] = locked] /\ tab' = [tab EXCEPT ![s] = r]
      BY <1>4 DEF lockAccount, Become
    <2>2. /\ r.pc = "getPage" /\ r.set = t.set /\ r.page = t.page /\ r.cas = t.cas
      BY <1>1 DEF Tab
    <2>3. locked.set = t.set /\ locked.page = t.page
      BY <1>1 DEF Tab, Account
    <2> HIDE DEF r, locked
    <2>4. Knows(r)
      BY <1>1, <2>2 DEF Knows, Walking, Filling
    <2>5. AccountsKnow
      <3>1. Exists(t.set, t.page) /\ account \in [Users -> Account]
        BY <1>1 DEF Knows, TypeInv, TypeOK
      <3> QED BY <1>2, <2>1, <2>3, <3>1 DEF AccountsKnow
    <2> QED BY <1>3, <2>1, <2>4, <2>5, QuietStep
  <1>5. CASE ~CasMatches(t.doc.cas, account[u])
    <2>1. Nothing(s) /\ UNCHANGED account
      BY <1>5 DEF lockAccount
    <2> QED BY <1>3, <2>1, CloseFill, SameAccounts
  <1> QED BY <1>4, <1>5

LEMMA LookedAtMembers ==
  ASSUME NEW t \in Tab, NEW p, NEW k, k = LookedAt(t, p)
  PROVE  /\ k.set = t.set /\ k.cas = t.cas /\ k.uuid = t.uuid /\ k.user = t.user /\ k.doc = t.doc
         /\ \/ k.pc \in {"unlockAccount", "claimKey"} /\ k.page = t.page
            \/ k.pc = "getNextPage" /\ k.page = t.page + 1
  <1> DEFINE r1 == [t EXCEPT !.pc = "unlockAccount", !.key = <<p.range, Min(ClaimedFor(p.claims, t.uuid))>>]
             r2 == [t EXCEPT !.pc = "claimKey", !.seen = p.claims,
                             !.key = <<p.range, Len(p.claims) + 1>>]
             r3 == [t EXCEPT !.pc = "getNextPage", !.page = @ + 1]
  <1>1. k = r1 \/ k = r2 \/ k = r3
    BY Zenon DEF LookedAt
  <1>2. /\ r1.set = t.set /\ r1.cas = t.cas /\ r1.uuid = t.uuid /\ r1.user = t.user
        /\ r1.doc = t.doc /\ r1.pc = "unlockAccount" /\ r1.page = t.page
    BY DEF Tab
  <1>3. /\ r2.set = t.set /\ r2.cas = t.cas /\ r2.uuid = t.uuid /\ r2.user = t.user
        /\ r2.doc = t.doc /\ r2.pc = "claimKey" /\ r2.page = t.page
    BY DEF Tab
  <1>4. /\ r3.set = t.set /\ r3.cas = t.cas /\ r3.uuid = t.uuid /\ r3.user = t.user
        /\ r3.doc = t.doc /\ r3.pc = "getNextPage" /\ r3.page = t.page + 1
    BY DEF Tab
  <1> HIDE DEF r1, r2, r3
  <1> QED BY <1>1, <1>2, <1>3, <1>4, Zenon

LEMMA GetPageFill ==
  ASSUME PagesInv, TypeInv', NEW s \in Tabs, getPage(s) \/ getNextPage(s)
  PROVE  FillInv'
  <1> DEFINE t == tab[s]
             p == page[t.set][t.page]
             r == [t EXCEPT !.pc = "getHugeCur"]
             k == LookedAt(t, p)
  <1>1. t \in Tab /\ Wired(t) /\ Knows(t) /\ t.pc \in {"getPage", "getNextPage"} /\ TypeInv
    BY PagesParts DEF getPage, getNextPage
  <1>2. t.set \in Sets /\ t.page \in Pages
    BY <1>1 DEF Wired, Getting, Walking
  <1>3. UNCHANGED <<account, cur, page, huge, hugeCur>>
    BY DEF getPage, getNextPage, docs
  <1>4. CASE p = NoPage
    <2>1. t.pc = "getNextPage"
      BY <1>1, <1>4 DEF Knows, Exists
    <2>2. tab' = [tab EXCEPT ![s] = r]
      BY <1>4, <2>1 DEF getPage, getNextPage, Become
    <2>3. r.pc = "getHugeCur" /\ r.set = t.set /\ r.page = t.page /\ r.cas = t.cas
      BY <1>1 DEF Tab
    <2>4. t.page > 1 /\ Exists(t.set, t.page - 1)
      BY <1>1, <2>1 DEF Knows
    <2>5. PICK c : c = cur[t.set] /\ c \in Current
      BY <1>1, <1>2 DEF TypeInv, TypeOK
    <2>6. c.cas \in Nat /\ c.page \in Nat /\ t.page \in Nat /\ c.from \in 0..(MaxHuge + 1)
      BY <1>2, <2>5, PagesAreNumbers DEF Current
    <2>7. t.cas = c.cas => t.page = c.page + 1
      <3> SUFFICES ASSUME t.cas = c.cas PROVE t.page = c.page + 1
        OBVIOUS
      <3>1. c.from = 0
        BY <1>1, <2>1, <2>5 DEF Knows, Walking
      <3>2. ~(t.page < c.page) /\ t.page # c.page
        BY <1>2, <1>4, <2>5, <3>1, PagesParts DEF SetInv, HasPages, Exists
      <3>3. t.page - 1 \in Pages /\ t.page - 1 \in Nat
        BY <1>2, <2>4, <2>6, RangesAreFinite DEF Pages
      <3>4. ~(t.page - 1 > c.page)
        BY <1>2, <2>4, <2>5, <3>3, PagesParts DEF SetInv, NoneBeyond
      <3> QED BY <2>6, <3>2, <3>4
    <2> HIDE DEF r
    <2>8. t.cas <= c.cas /\ (t.cas = c.cas => c.from = 0)
      BY <1>1, <2>1, <2>5 DEF Knows, Walking
    <2>9. Knows(r)
      BY <2>3, <2>4, <2>5, <2>7, <2>8 DEF Knows, Walking, Filling
    <2> QED BY <1>3, <2>2, <2>9, QuietStep, SameAccounts
  <1>5. CASE p # NoPage
    <2>1. tab' = [tab EXCEPT ![s] = k]
      BY <1>5 DEF getPage, getNextPage, Become
    <2>2. \/ k.pc \in {"unlockAccount", "claimKey"} /\ k.page = t.page
          \/ k.pc = "getNextPage" /\ k.page = t.page + 1
      BY <1>1, LookedAtMembers
    <2>3. k.set = t.set /\ k.cas = t.cas
      BY <1>1, LookedAtMembers
    <2>4. Exists(t.set, t.page) /\ t.page \in Nat /\ t.page # 0
      BY <1>2, <1>5, PagesAreNumbers DEF Exists
    <2>5. k.pc = "getNextPage" => k.page > 1 /\ k.page - 1 = t.page
      BY <2>2, <2>4
    <2>6. t.cas <= cur[t.set].cas /\ (t.cas = cur[t.set].cas => cur[t.set].from = 0)
      BY <1>1 DEF Knows, Walking
    <2> HIDE DEF k
    <2>7. Knows(k)
      BY <2>2, <2>3, <2>4, <2>5, <2>6 DEF Knows, Walking, Filling
    <2> QED BY <1>3, <2>1, <2>7, QuietStep, SameAccounts
  <1> QED BY <1>4, <1>5

LEMMA UnlockAccountFill ==
  ASSUME PagesInv, TypeInv', NEW s \in Tabs, unlockAccount(s)
  PROVE  FillInv'
  <1> DEFINE t == tab[s]
             u == Mine(s)
             a == [t.doc EXCEPT !.cas = account[u].cas + 1, !.state = "HaveKey", !.key = t.key,
                                !.set = NoKey, !.page = 0, !.uuid = NoUuid]
  <1>1. UNCHANGED <<cur, page, huge, hugeCur>>
    BY DEF unlockAccount
  <1>2. t \in Tab /\ account \in [Users -> Account]
    BY PagesParts DEF TypeInv, TypeOK
  <1>3. CASE CasMatches(t.doc.cas, account[u])
    <2>1. account' = [account EXCEPT ![u] = a] /\ ShowKey(s, u, t.key)
      BY <1>3 DEF unlockAccount
    <2>2. a.state # "GettingKey"
      BY <1>2 DEF Tab, Account
    <2> HIDE DEF a
    <2>3. AccountsKnow
      BY <1>2, <2>1, <2>2 DEF AccountsKnow
    <2> QED BY <1>1, <2>1, <2>3, ShowKeyFill
  <1>4. CASE ~CasMatches(t.doc.cas, account[u])
    <2>1. Nothing(s) /\ UNCHANGED account
      BY <1>4 DEF unlockAccount
    <2> QED BY <1>1, <2>1, CloseFill, SameAccounts
  <1> QED BY <1>3, <1>4

LEMMA CreditFill ==
  ASSUME PagesInv, TypeInv', NEW s \in Tabs, creditConfirmedBitcoinAmount(s)
  PROVE  FillInv'
  <1> DEFINE t == tab[s]
             u == Mine(s)
             a == [t.doc EXCEPT !.cas = account[u].cas + 1, !.balance = @ + 1,
                                !.state = "NoKey", !.key = NoKey]
  <1>1. UNCHANGED <<cur, page, huge, hugeCur>>
    BY DEF creditConfirmedBitcoinAmount
  <1>2. t \in Tab /\ account \in [Users -> Account]
    BY PagesParts DEF TypeInv, TypeOK
  <1>3. CASE CasMatches(t.doc.cas, account[u])
    <2>1. account' = [account EXCEPT ![u] = a] /\ Nothing(s)
      BY <1>3 DEF creditConfirmedBitcoinAmount
    <2>2. a.state # "GettingKey"
      BY <1>2 DEF Tab, Account
    <2> HIDE DEF a
    <2>3. AccountsKnow
      BY <1>2, <2>1, <2>2 DEF AccountsKnow
    <2> QED BY <1>1, <2>1, <2>3, CloseFill
  <1>4. CASE ~CasMatches(t.doc.cas, account[u])
    <2>1. ShowKey(s, u, t.pay) /\ UNCHANGED account
      BY <1>4 DEF creditConfirmedBitcoinAmount
    <2> QED BY <1>1, <2>1, ShowKeyFill, SameAccounts
  <1> QED BY <1>3, <1>4

LEMMA DoneSendingFill ==
  ASSUME PagesInv, TypeInv', NEW s \in Tabs, doneSendingBitcoins(s)
  PROVE  FillInv'
  <1> DEFINE t == tab[s]
             r == [t EXCEPT !.pc = "credit", !.doc = account[Mine(s)]]
  <1>1. UNCHANGED <<account, cur, page, huge, hugeCur>>
    BY DEF doneSendingBitcoins, docs
  <1>2. t \in Tab /\ Knows(t) /\ tab \in [Tabs -> Tab]
    BY PagesParts DEF TypeInv, TypeOK
  <1>3. r.pc = "credit"
    BY <1>2 DEF Tab
  <1>4. tab' = [tab EXCEPT ![s] = r] \/ tab' = [tab EXCEPT ![s] = t]
    BY <1>2 DEF doneSendingBitcoins, Become
  <1> HIDE DEF r
  <1>5. Knows(r)
    BY <1>3, IdleKnows
  <1> QED BY <1>1, <1>2, <1>4, <1>5, QuietStep, SameAccounts

\* A fill goes on.
LEMMA FillOn ==
  ASSUME NEW t, t.pc \in Filling, Knows(t), NEW r, r.pc \in Filling,
         r.set = t.set, r.page = t.page, r.cas = t.cas,
         FullBelow(r.z), NoneBelow(r.z, Fill(r)),
         r.pc = "claimRange" => \A i \in 1..Len(r.seen) : r.seen[i] # Fill(r),
         r.pc = "addPage" => At(r.range[1], r.range[2], Fill(r)),
         r.pc = "unlockSet" => Exists(r.set, r.page)
  PROVE  Knows(r)
  BY DEF Knows, Walking, Filling

LEMMA FillingKnows ==
  ASSUME NEW t, t.pc \in Filling, Knows(t)
  PROVE  /\ t.cas <= cur[t.set].cas /\ 1 < t.page /\ t.page <= cur[t.set].page
         /\ t.cas = cur[t.set].cas => cur[t.set].from > 0 /\ t.page = cur[t.set].page
         /\ FullBelow(t.z) /\ NoneBelow(t.z, Fill(t))
         /\ t.pc = "claimRange" => \A i \in 1..Len(t.seen) : t.seen[i] # Fill(t)
         /\ t.pc = "addPage" => At(t.range[1], t.range[2], Fill(t))
         /\ t.pc = "unlockSet" => Exists(t.set, t.page)
  BY DEF Knows, Filling

LEMMA GetHugeCurFill ==
  ASSUME PagesInv, TypeInv', NEW s \in Tabs, hugeCurrentPageGetComplete(s)
  PROVE  FillInv'
  <1> DEFINE t == tab[s]
             r == [t EXCEPT !.pc = "lockSet", !.fromCur = TRUE, !.hugeCas = hugeCur.cas,
                            !.z = hugeCur.page, !.z0 = hugeCur.page]
  <1>1. t \in Tab /\ Knows(t) /\ t.pc = "getHugeCur"
    BY PagesParts DEF hugeCurrentPageGetComplete
  <1>2. /\ r.pc = "lockSet" /\ r.set = t.set /\ r.page = t.page /\ r.cas = t.cas
        /\ r.z = hugeCur.page
    BY <1>1 DEF Tab
  <1>3. tab' = [tab EXCEPT ![s] = r] /\ UNCHANGED <<account, cur, page, huge, hugeCur>>
    BY DEF hugeCurrentPageGetComplete, Become, docs
  <1>4. FullBelow(hugeCur.page)
    BY PagesParts DEF HugeInv
  <1> HIDE DEF r
  <1>5. Knows(r)
    BY <1>1, <1>2, <1>4 DEF Knows, Walking, Filling
  <1> QED BY <1>3, <1>5, QuietStep, SameAccounts

LEMMA GetHugePageFill ==
  ASSUME PagesInv, TypeInv', NEW s \in Tabs, getHugePage(s)
  PROVE  FillInv'
  <1> DEFINE t == tab[s]
             ranges == huge[t.z]
             found == ClaimedFor(ranges, Fill(t))
             r0 == [t EXCEPT !.pc = "relockSet"]
             r1 == [t EXCEPT !.pc = "addPage", !.range = <<t.z, Min(found)>>]
             r2 == [t EXCEPT !.pc = "claimRange", !.seen = ranges,
                             !.range = <<t.z, Len(ranges) + 1>>]
             r3 == [t EXCEPT !.pc = IF t.fromCur THEN "changeHugeCur" ELSE @, !.z = @ + 1]
  <1>1. t.pc = "getHugePage" /\ t.pc \in Filling /\ UNCHANGED <<account, cur, page, huge, hugeCur>>
    BY DEF getHugePage, docs, Filling
  <1>2. TypeInv /\ t \in Tab /\ Knows(t)
    BY PagesParts
  <1>3. t.z \in 1..(MaxHuge + 1) /\ t.z \in Nat /\ Fill(t) \in Sets \X Pages
    BY <1>1, <1>2, FillingType
  <1>4. FullBelow(t.z) /\ NoneBelow(t.z, Fill(t))
    BY <1>1, <1>2, FillingKnows
  <1>5. CASE t.z \notin DOMAIN huge
    <2>1. Nothing(s) \/ tab' = [tab EXCEPT ![s] = r0]
      BY <1>5 DEF getHugePage, Become
    <2>2. /\ r0.pc = "relockSet" /\ r0.set = t.set /\ r0.page = t.page
          /\ r0.cas = t.cas /\ r0.z = t.z /\ Fill(r0) = Fill(t)
      BY <1>2 DEF Tab, Fill
    <2> HIDE DEF r0
    <2>3. r0.pc \in Filling
      BY <2>2 DEF Filling
    <2>4. FullBelow(r0.z) /\ NoneBelow(r0.z, Fill(r0))
      BY <1>4, <2>2
    <2>5. Knows(r0)
      BY <1>1, <1>2, <2>2, <2>3, <2>4, FillOn
    <2> QED BY <1>1, <2>1, <2>5, QuietStep, CloseFill, SameAccounts
  <1>6. CASE t.z \in DOMAIN huge
    <2>1. /\ huge \in Seq(Seq(Sets \X Pages)) /\ Len(huge) \in 1..MaxHuge
          /\ \A z \in 1..Len(huge) : Len(huge[z]) <= RangesPerPage
      BY <1>2 DEF TypeInv, TypeOK, SizesOK
    <2>2. t.z \in 1..Len(huge) /\ t.z \in 1..MaxHuge
      BY <1>6, <2>1, Bounds
    <2>3. ranges \in Seq(Sets \X Pages) /\ Len(ranges) \in Nat /\ Len(ranges) <= RangesPerPage
      BY <2>1, <2>2
    <2>4. CASE found # {}
      <3>1. tab' = [tab EXCEPT ![s] = r1]
        BY <1>6, <2>4 DEF getHugePage, Become
      <3>2. Min(found) \in 1..Len(ranges) /\ ranges[Min(found)] = Fill(t)
        BY <2>3, <2>4, ClaimedForIsIn
      <3>3. At(t.z, Min(found), Fill(t))
        BY <2>2, <3>2 DEF At
      <3>4. /\ r1.pc = "addPage" /\ r1.set = t.set /\ r1.page = t.page
            /\ r1.cas = t.cas /\ r1.z = t.z /\ Fill(r1) = Fill(t)
            /\ r1.range[1] = t.z /\ r1.range[2] = Min(found)
        BY <1>2 DEF Tab, Fill
      <3> HIDE DEF r1, found, ranges
      <3>5. /\ FullBelow(r1.z) /\ NoneBelow(r1.z, Fill(r1)) /\ r1.pc \in Filling
            /\ At(r1.range[1], r1.range[2], Fill(r1))
        BY <1>4, <3>3, <3>4 DEF Filling
      <3>6. Knows(r1)
        BY <1>1, <1>2, <3>4, <3>5, FillOn
      <3> QED BY <1>1, <3>1, <3>6, QuietStep, SameAccounts
    <2>5. CASE found = {} /\ Len(ranges) < RangesPerPage
      <3>1. tab' = [tab EXCEPT ![s] = r2]
        BY <1>6, <2>5 DEF getHugePage, Become
      <3>2. \A i \in 1..Len(ranges) : ranges[i] # Fill(t)
        BY <2>3, <2>5 DEF ClaimedFor
      <3>3. /\ r2.pc = "claimRange" /\ r2.set = t.set /\ r2.page = t.page
            /\ r2.cas = t.cas /\ r2.z = t.z /\ r2.seen = ranges /\ Fill(r2) = Fill(t)
        BY <1>2 DEF Tab, Fill
      <3> HIDE DEF r2, ranges
      <3>4. /\ FullBelow(r2.z) /\ NoneBelow(r2.z, Fill(r2)) /\ r2.pc \in Filling
            /\ \A i \in 1..Len(r2.seen) : r2.seen[i] # Fill(r2)
        BY <1>4, <3>2, <3>3 DEF Filling
      <3>5. Knows(r2)
        BY <1>1, <1>2, <3>3, <3>4, FillOn
      <3> QED BY <1>1, <3>1, <3>5, QuietStep, SameAccounts
    <2>6. CASE found = {} /\ ~(Len(ranges) < RangesPerPage)
      <3>1. tab' = [tab EXCEPT ![s] = r3]
        BY <1>6, <2>6 DEF getHugePage, Become
      <3>2. Full(t.z)
        BY <2>2, <2>3, <2>6, Bounds DEF Full
      <3>3. FullBelow(t.z + 1)
        <4> SUFFICES ASSUME NEW w \in 1..t.z PROVE Full(w)
          BY <1>3 DEF FullBelow
        <4>1. w = t.z \/ w \in 1..(t.z - 1)
          BY <1>3
        <4> QED BY <1>4, <3>2, <4>1 DEF FullBelow
      <3>4. NoneBelow(t.z + 1, Fill(t))
        <4> SUFFICES ASSUME NEW w \in 1..MaxHuge, NEW i \in 1..RangesPerPage, At(w, i, Fill(t))
                     PROVE  w >= t.z + 1
          BY DEF NoneBelow
        <4>1. w >= t.z
          BY <1>4 DEF NoneBelow
        <4>2. w # t.z
          <5> SUFFICES ASSUME w = t.z PROVE FALSE
            OBVIOUS
          <5>1. i \in DOMAIN ranges /\ ranges[i] = Fill(t)
            BY <2>3 DEF At
          <5> QED BY <2>6, <5>1 DEF ClaimedFor
        <4> QED BY <1>3, <4>1, <4>2, Bounds
      <3>5. /\ r3.pc \in {"changeHugeCur", "getHugePage"} /\ r3.set = t.set /\ r3.page = t.page
            /\ r3.cas = t.cas /\ r3.z = t.z + 1 /\ Fill(r3) = Fill(t)
        BY <1>1, <1>2 DEF Tab, Fill
      <3> HIDE DEF r3
      <3>6. FullBelow(r3.z) /\ NoneBelow(r3.z, Fill(r3)) /\ r3.pc \in Filling
        BY <3>3, <3>4, <3>5 DEF Filling
      <3>7. Knows(r3)
        BY <1>1, <1>2, <3>5, <3>6, FillOn
      <3> QED BY <1>1, <3>1, <3>7, QuietStep, SameAccounts
    <2> QED BY <2>4, <2>5, <2>6
  <1> QED BY <1>5, <1>6

\* A step that stores the current page of a set.
LEMMA CurStep ==
  ASSUME PagesInv, TypeInv', NEW s \in Tabs, NEW t, tab' = [tab EXCEPT ![s] = t], Knows(t)',
         NEW n \in Sets, NEW c \in Current, cur' = [cur EXCEPT ![n] = c],
         c.cas = cur[n].cas + 1, c.page >= cur[n].page, HasPages(n)', FillStarts(n)',
         UNCHANGED <<account, page, huge, hugeCur>>
  PROVE  FillInv'
  <1>0. TypeInv /\ cur \in [Sets -> Current]
    BY DEF PagesInv, TypeInv, TypeOK
  <1>1. cur[n].cas \in Nat /\ cur'[n] = c /\ \A m \in Sets : m # n => cur'[m] = cur[m]
    BY <1>0 DEF Current
  <1>2. \A m \in Sets : CurGrows(m)
    <2>1. CurGrows(n)
      <3>1. c.cas > cur[n].cas
        BY <1>1
      <3> QED BY <1>1, <3>1 DEF CurGrows
    <2>2. ASSUME NEW m \in Sets, m # n PROVE CurGrows(m)
      BY <1>1, <2>2 DEF CurGrows
    <2> QED BY <2>1, <2>2
  <1>3. Grows
    BY <1>0, <1>2, SameGrows
  <1>4. HugeInv'
    BY DEF PagesInv, FillInv, HugeInv, At, FullBelow, Full
  <1>5. \A m \in Sets : SetInv(m)'
    <2> SUFFICES ASSUME NEW m \in Sets PROVE SetInv(m)'
      OBVIOUS
    <2>1. SetInv(m)
      BY PagesParts
    <2>2. CASE m = n
      BY <1>0, <1>3, <2>1, <2>2, BeyondGrows DEF SetInv
    <2>3. CASE m # n
      BY <1>0, <1>1, <1>3, <2>1, <2>3, SetGrows
    <2> QED BY <2>2, <2>3
  <1>6. \A q \in Tabs : Knows(tab[q])'
    BY <1>3, TabsKnow
  <1> QED BY <1>3, <1>4, <1>5, <1>6, SameAccounts, AccountsKnowOn DEF FillInv

LEMMA CurrentIs ==
  ASSUME NEW k \in Current
  PROVE  /\ k.cas \in Nat /\ k.cas + 1 \in Nat /\ k.page \in Pages /\ k.page \in Nat
         /\ k.from \in 0..(MaxHuge + 1)
  <1>1. k.cas \in Nat /\ k.page \in Pages /\ k.from \in 0..(MaxHuge + 1)
    BY DEF Current
  <1>2. k.page \in Nat
    BY <1>1, PagesAreNumbers
  <1>3. k.cas + 1 \in Nat
    BY <1>1
  <1> QED BY <1>1, <1>2, <1>3, Zenon

\* What a step that stores the current page of its set stores.
LEMMA StoredCurIs ==
  ASSUME TypeInv, NEW s \in Tabs, tab[s].pc \in {"lockSet"} \cup Filling, NEW from \in 0..(MaxHuge + 1),
         NEW c, c = StoredCur(tab[s], from)
  PROVE  /\ c \in Current /\ c.cas = cur[tab[s].set].cas + 1 /\ c.page = tab[s].page /\ c.from = from
         /\ cur[tab[s].set].cas \in Nat /\ cur[tab[s].set].page \in Nat
         /\ cur[tab[s].set].from \in 0..(MaxHuge + 1) /\ tab[s].page \in Nat
  <1>1. PICK k : k = cur[tab[s].set] /\ k \in Current
    BY FillingType
  <1>2. k.cas \in Nat /\ k.page \in Nat /\ k.from \in 0..(MaxHuge + 1) /\ k.cas + 1 \in Nat
    BY <1>1, CurrentIs
  <1>3. tab[s].page \in Pages /\ tab[s].page \in Nat
    BY FillingType, PagesAreNumbers
  <1> QED BY <1>1, <1>2, <1>3 DEF StoredCur, Current

LEMMA LockSetFill ==
  ASSUME PagesInv, TypeInv', NEW s \in Tabs, lockSet(s)
  PROVE  FillInv'
  <1> DEFINE t == tab[s]
  <1>0. PICK n, y, z, c, r :
          /\ n = t.set /\ y = t.page /\ z = t.z /\ c = StoredCur(t, t.z)
          /\ r = [t EXCEPT !.pc = "getHugePage", !.cas = cur[t.set].cas + 1]
    OBVIOUS
  <1>1. t.pc = "lockSet" /\ UNCHANGED <<account, page, huge, hugeCur>>
    BY DEF lockSet
  <1>2. TypeInv /\ t \in Tab /\ Knows(t)
    BY PagesParts
  <1>3. /\ n \in Sets /\ y \in Pages /\ z \in 1..(MaxHuge + 1) /\ z \in 0..(MaxHuge + 1)
        /\ cur \in [Sets -> Current]
    BY <1>0, <1>1, <1>2, FillingType DEF TypeInv, TypeOK
  <1>4. SetInv(n)
    BY <1>3, PagesParts
  <1>5. CASE CasMatches(t.cas, cur[t.set])
    <2>1. cur' = [cur EXCEPT ![n] = c] /\ tab' = [tab EXCEPT ![s] = r]
      BY <1>0, <1>5 DEF lockSet, Become, StoredCur
    <2>2. /\ c \in Current /\ c.cas = cur[n].cas + 1 /\ c.page = y /\ c.from = z
          /\ cur[n].cas \in Nat /\ cur[n].page \in Nat /\ y \in Nat
      BY <1>0, <1>1, <1>2, <1>3, StoredCurIs
    <2>3. /\ r.pc = "getHugePage" /\ r.set = n /\ r.page = y /\ r.z = z
          /\ r.cas = cur[n].cas + 1 /\ Fill(r) = <<n, y>>
      BY <1>0, <1>2 DEF Tab, Fill
    <2>4. /\ cur[n].from = 0 /\ y = cur[n].page + 1 /\ y > 1 /\ FullBelow(z)
          /\ Exists(n, y - 1)
      BY <1>0, <1>1, <1>2, <1>5 DEF Knows, Walking, CasMatches
    <2>5. y > cur[n].page /\ c.page >= cur[n].page /\ z > 0
      BY <1>3, <2>2, <2>4, Bounds
    <2>6. Unclaimed(<<n, y>>)
      BY <1>3, <1>4, <2>5 DEF SetInv, NoneBeyond
    <2>7. NoneBelow(z, <<n, y>>)
      BY <2>6 DEF NoneBelow, Unclaimed
    <2>8. cur'[n] = c
      BY <1>3, <2>1
    <2>9. HasPages(n)'
      <3>1. ASSUME NEW x \in Pages, x < c.page \/ (x = c.page /\ c.from = 0)
            PROVE  page[n][x] # NoPage
        <4>1. x \in Nat /\ x < y /\ x <= cur[n].page
          BY <2>2, <2>4, <2>5, <3>1, PagesAreNumbers
        <4> QED BY <1>4, <2>2, <2>4, <4>1 DEF SetInv, HasPages, Exists
      <3> QED BY <1>1, <2>8, <3>1 DEF HasPages, Exists
    <2>10. FillStarts(n)'
      BY <1>1, <2>2, <2>4, <2>7, <2>8 DEF FillStarts, FullBelow, NoneBelow, At, Full
    <2>11. Knows(r)'
      <3>1. r.cas = c.cas
        BY <2>2, <2>3
      <3>2. FullBelow(z)' /\ NoneBelow(z, <<n, y>>)'
        BY <1>1, <2>4, <2>7 DEF FullBelow, NoneBelow, At, Full
      <3>3. PICK k : k = <<n, y>>
        OBVIOUS
      <3>4. FullBelow(r.z)' /\ NoneBelow(r.z, k)'
        BY <2>3, <3>2, <3>3
      <3>5. r.cas <= c.cas /\ r.page <= c.page /\ c.from > 0 /\ 1 < r.page /\ r.page = c.page
        BY <2>2, <2>3, <2>4, <2>5, <3>1
      <3> QED BY <2>3, <2>8, <3>3, <3>4, <3>5 DEF Knows, Walking, Filling, Fill
    <2> QED BY <1>1, <1>3, <2>1, <2>2, <2>5, <2>9, <2>10, <2>11, CurStep
  <1>6. CASE ~CasMatches(t.cas, cur[t.set])
    <2>1. Nothing(s) /\ UNCHANGED cur
      BY <1>6 DEF lockSet
    <2> QED BY <1>1, <2>1, CloseFill, SameAccounts
  <1> QED BY <1>5, <1>6

LEMMA RelockSetFill ==
  ASSUME PagesInv, TypeInv', NEW s \in Tabs, relockSet(s)
  PROVE  FillInv'
  <1> DEFINE t == tab[s]
  <1>0. PICK n, y, z, c : n = t.set /\ y = t.page /\ z = t.z /\ c = StoredCur(t, t.z)
    OBVIOUS
  <1>1. /\ t.pc = "relockSet" /\ t.pc \in Filling /\ Nothing(s)
        /\ UNCHANGED <<account, page, huge, hugeCur>>
    BY DEF relockSet, Filling
  <1>2. TypeInv /\ t \in Tab /\ Knows(t)
    BY PagesParts
  <1>3. /\ n \in Sets /\ y \in Pages /\ z \in 1..(MaxHuge + 1) /\ z \in 0..(MaxHuge + 1)
        /\ cur \in [Sets -> Current]
    BY <1>0, <1>1, <1>2, FillingType DEF TypeInv, TypeOK
  <1>4. SetInv(n)
    BY <1>3, PagesParts
  <1>5. CASE CasMatches(t.cas, cur[t.set])
    <2>1. cur' = [cur EXCEPT ![n] = c] /\ tab' = [tab EXCEPT ![s] = NewTab]
      BY <1>0, <1>1, <1>5 DEF relockSet, StoredCur, Nothing, Become
    <2>2. /\ c \in Current /\ c.cas = cur[n].cas + 1 /\ c.page = y /\ c.from = z
          /\ cur[n].cas \in Nat /\ cur[n].page \in Nat /\ y \in Nat
      BY <1>0, <1>1, <1>2, <1>3, StoredCurIs
    <2>3. /\ cur[n].from > 0 /\ y = cur[n].page /\ y > 1 /\ FullBelow(z)
          /\ NoneBelow(z, <<n, y>>)
      BY <1>0, <1>1, <1>2, <1>5, FillingKnows DEF CasMatches, Fill
    <2>4. c.page >= cur[n].page /\ z > 0
      BY <1>3, <2>2, <2>3, Bounds
    <2>5. cur'[n] = c
      BY <1>3, <2>1
    <2>6. HasPages(n)'
      <3>1. ASSUME NEW x \in Pages, x < c.page \/ (x = c.page /\ c.from = 0)
            PROVE  page[n][x] # NoPage
        <4>1. x < cur[n].page
          BY <2>2, <2>3, <2>4, <3>1
        <4> QED BY <1>4, <4>1 DEF SetInv, HasPages, Exists
      <3> QED BY <1>1, <2>5, <3>1 DEF HasPages, Exists
    <2>7. FillStarts(n)'
      BY <1>1, <2>2, <2>3, <2>5 DEF FillStarts, FullBelow, NoneBelow, At, Full
    <2>8. Knows(NewTab)'
      BY NewTabKnows DEF Knows, Walking, Filling
    <2> QED BY <1>1, <1>3, <2>1, <2>2, <2>4, <2>6, <2>7, <2>8, CurStep
  <1>6. CASE ~CasMatches(t.cas, cur[t.set])
    <2>1. UNCHANGED cur
      BY <1>6 DEF relockSet
    <2> QED BY <1>1, <2>1, CloseFill, SameAccounts
  <1> QED BY <1>5, <1>6

LEMMA UnlockSetFill ==
  ASSUME PagesInv, TypeInv', NEW s \in Tabs, unlockSet(s)
  PROVE  FillInv'
  <1> DEFINE t == tab[s]
  <1>0. PICK n, y, c, go, back :
          /\ n = t.set /\ y = t.page /\ c = StoredCur(t, 0)
          /\ go = [t EXCEPT !.pc = IF t.again THEN "getPage" ELSE "lockAccount"]
          /\ back = [t EXCEPT !.pc = "analyze"]
    OBVIOUS
  <1>1. /\ t.pc = "unlockSet" /\ t.pc \in Filling
        /\ UNCHANGED <<account, page, huge, hugeCur>>
    BY DEF unlockSet, Filling
  <1>2. TypeInv /\ t \in Tab /\ Knows(t)
    BY PagesParts
  <1>3. n \in Sets /\ y \in Pages /\ 0 \in 0..(MaxHuge + 1) /\ cur \in [Sets -> Current]
    BY <1>0, <1>1, <1>2, FillingType, Bounds DEF TypeInv, TypeOK
  <1>4. SetInv(n) /\ Exists(n, y)
    BY <1>0, <1>1, <1>2, <1>3, PagesParts, FillingKnows
  <1>5. CASE CasMatches(t.cas, cur[t.set])
    <2>1. cur' = [cur EXCEPT ![n] = c] /\ tab' = [tab EXCEPT ![s] = go]
      BY <1>0, <1>5 DEF unlockSet, Become, StoredCur, Proceeding
    <2>2. /\ c \in Current /\ c.cas = cur[n].cas + 1 /\ c.page = y /\ c.from = 0
          /\ cur[n].cas \in Nat /\ cur[n].page \in Nat /\ y \in Nat
      BY <1>0, <1>1, <1>2, <1>3, StoredCurIs
    <2>3. y = cur[n].page /\ y > 1 /\ t.cas = cur[n].cas
      BY <1>0, <1>1, <1>2, <1>5, FillingKnows DEF CasMatches
    <2>4. c.page >= cur[n].page
      BY <2>2, <2>3
    <2>5. cur'[n] = c
      BY <1>3, <2>1
    <2>6. HasPages(n)'
      <3>1. ASSUME NEW x \in Pages, x < c.page \/ (x = c.page /\ c.from = 0)
            PROVE  page[n][x] # NoPage
        <4>1. x < cur[n].page \/ x = y
          BY <2>2, <2>3, <3>1
        <4> QED BY <1>4, <4>1 DEF SetInv, HasPages, Exists
      <3> QED BY <1>1, <2>5, <3>1 DEF HasPages, Exists
    <2>7. FillStarts(n)'
      BY <2>2, <2>5 DEF FillStarts
    <2>8. /\ go.pc \in {"getPage", "lockAccount"} /\ go.set = n /\ go.page = y
          /\ go.cas = cur[n].cas
      BY <1>0, <1>2, <2>3 DEF Tab
    <2>9. go.cas <= c.cas /\ go.cas # c.cas
      BY <2>2, <2>8
    <2>10. Knows(go)'
      BY <1>1, <1>4, <2>5, <2>8, <2>9 DEF Knows, Walking, Filling, Exists
    <2> QED BY <1>1, <1>3, <2>1, <2>2, <2>4, <2>6, <2>7, <2>10, CurStep
  <1>6. CASE ~CasMatches(t.cas, cur[t.set])
    <2>1. UNCHANGED cur /\ tab' = [tab EXCEPT ![s] = back]
      BY <1>0, <1>6 DEF unlockSet, Become
    <2>2. back.pc = "analyze" /\ back.set = n /\ back.page = y
      BY <1>0, <1>2 DEF Tab
    <2>3. Knows(back)
      BY <1>4, <2>2 DEF Knows, Walking, Filling
    <2> QED BY <1>1, <2>1, <2>3, QuietStep, SameAccounts
  <1> QED BY <1>5, <1>6

LEMMA ChangeHugeCurFill ==
  ASSUME PagesInv, TypeInv', NEW s \in Tabs, changeHugeCur(s)
  PROVE  FillInv'
  <1> DEFINE t == tab[s]
  <1>0. PICK z, r : z = t.z /\ r = [t EXCEPT !.pc = "getHugePage"]
    OBVIOUS
  <1>1. /\ t.pc = "changeHugeCur" /\ t.pc \in Filling /\ tab' = [tab EXCEPT ![s] = r]
        /\ UNCHANGED <<account, cur, page, huge>>
        /\ hugeCur' = hugeCur \/ hugeCur' = [cas |-> hugeCur.cas + 1, page |-> z]
    BY <1>0 DEF changeHugeCur, Become, Filling
  <1>2. TypeInv /\ t \in Tab /\ Knows(t) /\ HugeInv
    BY PagesParts
  <1>3. /\ r.pc = "getHugePage" /\ r.set = t.set /\ r.page = t.page /\ r.cas = t.cas
        /\ r.z = t.z /\ Fill(r) = Fill(t)
    BY <1>0, <1>2 DEF Tab, Fill
  <1>4. FullBelow(z) /\ NoneBelow(z, Fill(t))
    BY <1>0, <1>1, <1>2, FillingKnows
  <1>5. Knows(r)
    <2>1. r.pc \in Filling
      BY <1>3 DEF Filling
    <2>2. FullBelow(r.z) /\ NoneBelow(r.z, Fill(r))
      BY <1>0, <1>3, <1>4
    <2> QED BY <1>1, <1>2, <1>3, <2>1, <2>2, FillOn
  <1>6. Knows(r)'
    BY <1>1, <1>5 DEF Knows, Exists, FullBelow, Full, NoneBelow, At, Fill
  <1>7. Grows
    <2>1. \A n \in Sets : CurGrows(n)
      BY <1>1 DEF CurGrows
    <2> QED BY <1>1, <1>2, <2>1, SameGrows
  <1>8. HugeInv'
    <2>1. FullBelow(hugeCur.page)'
      <3>1. hugeCur'.page = hugeCur.page \/ hugeCur'.page = z
        BY <1>1
      <3>2. FullBelow(hugeCur'.page)
        BY <1>2, <1>4, <3>1 DEF HugeInv
      <3> QED BY <1>1, <3>2 DEF FullBelow, Full
    <2>2. \A w \in 1..Len(huge') : huge'[w] # <<>> => FullBelow(w)'
      BY <1>1, <1>2 DEF HugeInv, FullBelow, Full
    <2>3. \A g \in Sets \X Pages : \A w, x \in 1..MaxHuge, i, j \in 1..RangesPerPage :
            At(w, i, g)' /\ At(x, j, g)' => w = x /\ i = j
      BY <1>1, <1>2 DEF HugeInv, At
    <2> QED BY <2>1, <2>2, <2>3, Zenon DEF HugeInv
  <1>9. \A n \in Sets : SetInv(n)'
    BY <1>1, <1>2, <1>7, SetGrows, PagesParts
  <1>10. \A q \in Tabs : Knows(tab[q])'
    BY <1>1, <1>6, <1>7, TabsKnow
  <1> QED BY <1>1, <1>7, <1>8, <1>9, <1>10, SameAccounts, AccountsKnowOn DEF FillInv

\* A step that stores a page, or a page of the huge list.
LEMMA PageStep ==
  ASSUME PagesInv, TypeInv', PagesGrow, RangesGrow, UNCHANGED <<account, cur>>, HugeInv',
         NEW s \in Tabs, NEW t, tab' = [tab EXCEPT ![s] = t], Knows(t)'
  PROVE  FillInv'
  <1>1. TypeInv
    BY PagesParts
  <1>2. Grows
    BY DEF Grows, CurGrows
  <1>3. \A n \in Sets : SetInv(n)'
    BY <1>1, <1>2, PagesParts, SetGrows
  <1>4. \A q \in Tabs : Knows(tab[q])'
    BY <1>2, TabsKnow
  <1> QED BY <1>2, <1>3, <1>4, SameAccounts, AccountsKnowOn DEF FillInv

LEMMA ClaimKeyFill ==
  ASSUME PagesInv, TypeInv', NEW s \in Tabs, claimKey(s)
  PROVE  FillInv'
  <1>0. PICK e : e = <<>>
    OBVIOUS
  <1> DEFINE t == tab[s]
  <1>1. PICK n, y, r1, r2, p :
          /\ n = t.set /\ y = t.page
          /\ r1 = [t EXCEPT !.pc = "unlockAccount", !.seen = e]
          /\ r2 = [t EXCEPT !.pc = "getPage", !.seen = e]
          /\ p = [page[n][y] EXCEPT !.claims = Append(t.seen, t.uuid)]
    OBVIOUS
  <1>2. t.pc = "claimKey" /\ UNCHANGED <<account, cur, huge, hugeCur>>
    BY DEF claimKey
  <1>3. TypeInv /\ t \in Tab /\ Wired(t) /\ Knows(t) /\ HugeInv
    BY PagesParts
  <1>4. n \in Sets /\ y \in Pages /\ Exists(n, y)
    BY <1>1, <1>2, <1>3 DEF Wired, Getting, Walking, Knows
  <1>5. /\ r1.pc = "unlockAccount" /\ r1.set = n /\ r1.page = y /\ r1.cas = t.cas
        /\ r2.pc = "getPage" /\ r2.set = n /\ r2.page = y /\ r2.cas = t.cas
    BY <1>1, <1>3 DEF Tab
  <1>6. t.cas <= cur[n].cas /\ (t.cas = cur[n].cas => cur[n].from = 0)
    BY <1>1, <1>2, <1>3 DEF Knows, Walking
  <1>7. Knows(r1) /\ Knows(r2)
    BY <1>4, <1>5, <1>6 DEF Knows, Walking, Filling
  <1>8. CASE Unchanged(t.seen, page[t.set][t.page].claims)
    <2>1. page' = [page EXCEPT ![n][y] = p] /\ tab' = [tab EXCEPT ![s] = r1]
      BY <1>0, <1>1, <1>8 DEF claimKey, Become
    <2>2. page \in [Sets -> [Pages -> KeyPage \cup {NoPage}]]
      BY <1>3 DEF TypeInv, TypeOK
    <2>3. page[n][y] \in KeyPage
      BY <1>4, <2>2 DEF Exists
    <2>4. p.range = page[n][y].range /\ p # NoPage
      <3>1. p.range = page[n][y].range
        BY <1>1, <2>3 DEF KeyPage
      <3>2. Append(t.seen, t.uuid) \in Seq(Uuids)
        BY <1>2, <1>3 DEF Wired, Getting, Walking
      <3>3. p \in KeyPage
        BY <1>1, <2>3, <3>2 DEF KeyPage
      <3> QED BY <3>1, <3>3, NoPageAssumption
    <2>5. \A m \in Sets, x \in Pages : page'[m][x] = IF m = n /\ x = y THEN p ELSE page[m][x]
      BY <1>4, <2>1, <2>2
    <2>6. PagesGrow
      BY <1>4, <2>4, <2>5 DEF PagesGrow, Exists
    <2>7. RangesGrow /\ HugeInv'
      BY <1>2, <1>3 DEF RangesGrow, Full, At, HugeInv, FullBelow
    <2>8. Exists(n, y)'
      BY <1>4, <2>6 DEF PagesGrow
    <2>9. Knows(r1)'
      BY <1>2, <1>5, <1>6, <2>8 DEF Knows, Walking, Filling
    <2> QED BY <1>2, <2>1, <2>6, <2>7, <2>9, PageStep
  <1>9. CASE ~Unchanged(t.seen, page[t.set][t.page].claims)
    <2>1. UNCHANGED page /\ tab' = [tab EXCEPT ![s] = r2]
      BY <1>0, <1>1, <1>9 DEF claimKey, Become
    <2> QED BY <1>2, <1>7, <2>1, QuietStep, SameAccounts
  <1> QED BY <1>8, <1>9

LEMMA AddPageFill ==
  ASSUME PagesInv, TypeInv', NEW s \in Tabs, addPage(s)
  PROVE  FillInv'
  <1> DEFINE t == tab[s]
  <1>0. PICK n, y, r, p, q :
          /\ n = t.set /\ y = t.page /\ q = t.range /\ p = [range |-> q, claims |-> <<>>]
          /\ r = [t EXCEPT !.pc = "unlockSet", !.range = NoPage]
    OBVIOUS
  <1>1. /\ t.pc = "addPage" /\ t.pc \in Filling /\ UNCHANGED <<account, cur, huge, hugeCur>>
        /\ tab' = [tab EXCEPT ![s] = r]
    BY <1>0 DEF addPage, Become, Filling
  <1>2. TypeInv /\ t \in Tab /\ Wired(t) /\ Knows(t) /\ HugeInv
    BY PagesParts
  <1>3. n \in Sets /\ y \in Pages /\ q \in Ranges /\ t.z \in Nat /\ Fill(t) \in Sets \X Pages
    BY <1>0, <1>1, <1>2, FillingType DEF Wired
  <1>4. /\ t.cas <= cur[n].cas /\ 1 < y /\ y <= cur[n].page
        /\ t.cas = cur[n].cas => cur[n].from > 0 /\ y = cur[n].page
        /\ FullBelow(t.z) /\ NoneBelow(t.z, Fill(t)) /\ Fill(t) = <<n, y>>
        /\ At(q[1], q[2], <<n, y>>)
    BY <1>0, <1>1, <1>2, FillingKnows DEF Fill
  <1>5. page \in [Sets -> [Pages -> KeyPage \cup {NoPage}]]
    BY <1>2 DEF TypeInv, TypeOK
  <1>6. p # NoPage /\ p.range = q
    <2>1. p \in KeyPage
      BY <1>0, <1>3, EmptySeq DEF KeyPage
    <2> QED BY <1>0, <2>1, NoPageAssumption
  <1>7. /\ \A m \in Sets, x \in Pages :
             page'[m][x] = IF m = n /\ x = y /\ page[n][y] = NoPage THEN p ELSE page[m][x]
    BY <1>0, <1>3, <1>5 DEF addPage
  <1>8. PagesGrow
    BY <1>3, <1>4, <1>6, <1>7 DEF PagesGrow, Exists
  <1>9. RangesGrow /\ HugeInv'
    BY <1>1, <1>2 DEF RangesGrow, Full, At, HugeInv, FullBelow
  <1>10. Exists(n, y)'
    BY <1>3, <1>6, <1>7 DEF Exists
  <1>11. /\ r.pc = "unlockSet" /\ r.set = n /\ r.page = y /\ r.cas = t.cas
         /\ r.z = t.z /\ Fill(r) = <<n, y>>
    BY <1>0, <1>2 DEF Tab, Fill
  <1>12. Knows(r)'
    <2>1. FullBelow(r.z)' /\ NoneBelow(r.z, <<n, y>>)'
      BY <1>1, <1>4, <1>11 DEF FullBelow, NoneBelow, Full, At
    <2>2. PICK f : f = <<n, y>>
      OBVIOUS
    <2>3. NoneBelow(r.z, f)' /\ Fill(r) = f
      BY <1>11, <2>1, <2>2
    <2> QED BY <1>1, <1>4, <1>10, <1>11, <2>1, <2>3 DEF Knows, Walking, Filling, Fill
  <1> QED BY <1>1, <1>8, <1>9, <1>12, PageStep

\* Nothing is claimed beyond a page of the huge list that is not full.
LEMMA NotClaimedBeyond ==
  ASSUME TypeInv, HugeInv, NEW z \in 1..Len(huge), ~Full(z), NEW f, NoneBelow(z, f),
         \A i \in 1..Len(huge[z]) : huge[z][i] # f
  PROVE  \A w \in 1..MaxHuge, i \in 1..RangesPerPage : ~At(w, i, f)
  <1> SUFFICES ASSUME NEW w \in 1..MaxHuge, NEW i \in 1..RangesPerPage, At(w, i, f)
               PROVE  FALSE
    OBVIOUS
  <1>1. w >= z /\ z \in Nat
    BY DEF NoneBelow
  <1>2. w # z
    BY DEF At
  <1>3. w \in 1..Len(huge) /\ huge[w] # <<>>
    BY EmptySeq DEF At
  <1>4. FullBelow(w)
    BY <1>3 DEF HugeInv
  <1>5. z \in 1..(w - 1)
    BY <1>1, <1>2, Bounds
  <1> QED BY <1>4, <1>5 DEF FullBelow

LEMMA ClaimRangeFill ==
  ASSUME PagesInv, TypeInv', NEW s \in Tabs, claimRange(s)
  PROVE  FillInv'
  <1>0. PICK e : e = <<>>
    OBVIOUS
  <1> DEFINE t == tab[s]
  <1>1. PICK f, z, r1, r2, more :
          /\ f = Fill(t) /\ z = t.z
          /\ r1 = [t EXCEPT !.pc = "addPage", !.seen = e]
          /\ r2 = [t EXCEPT !.pc = "getHugePage", !.seen = e]
          /\ more = Append(t.seen, f)
    OBVIOUS
  <1>2. t.pc = "claimRange" /\ t.pc \in Filling /\ UNCHANGED <<account, cur, page, hugeCur>>
    BY DEF claimRange, Filling
  <1>3. TypeInv /\ t \in Tab /\ Wired(t) /\ Knows(t) /\ HugeInv
    BY PagesParts
  <1>4. /\ f \in Sets \X Pages /\ z \in Nat /\ t.page \in Nat
        /\ t.seen \in Seq(Sets \X Pages) /\ Len(t.seen) < RangesPerPage /\ Len(t.seen) \in Nat
        /\ z \in 1..Len(huge) /\ t.range = <<z, Len(t.seen) + 1>>
        /\ f[1] = t.set /\ f[2] = t.page
    BY <1>1, <1>2, <1>3, FillingType, PagesAreNumbers DEF Wired, Fill
  <1>5. /\ t.cas <= cur[t.set].cas /\ 1 < t.page /\ t.page <= cur[t.set].page
        /\ t.cas = cur[t.set].cas => cur[t.set].from > 0 /\ t.page = cur[t.set].page
        /\ FullBelow(z) /\ NoneBelow(z, f) /\ \A i \in 1..Len(t.seen) : t.seen[i] # f
    BY <1>1, <1>2, <1>3, FillingKnows
  <1>6. CASE Unchanged(t.seen, huge[t.z])
    <2>1. huge' = [huge EXCEPT ![z] = more] /\ tab' = [tab EXCEPT ![s] = r1]
      BY <1>0, <1>1, <1>6 DEF claimRange, Become
    <2>2. /\ huge \in Seq(Seq(Sets \X Pages)) /\ Len(huge) \in 1..MaxHuge
          /\ \A w \in 1..Len(huge) : Len(huge[w]) <= RangesPerPage
      BY <1>3 DEF TypeInv, TypeOK, SizesOK
    <2>3. huge[z] = t.seen
      BY <1>1, <1>6 DEF Unchanged
    <2>4. PICK k : k = Len(t.seen) + 1 /\ k \in 1..RangesPerPage
      BY <1>4, Bounds
    <2>5. /\ Len(more) = k /\ more \in Seq(Sets \X Pages) /\ more[k] = f
          /\ \A i \in 1..Len(t.seen) : more[i] = t.seen[i]
      BY <1>1, <1>4, <2>4
    <2>6. /\ Len(huge') = Len(huge) /\ huge'[z] = more
          /\ \A w \in 1..Len(huge) : w # z => huge'[w] = huge[w]
      BY <1>4, <2>1, <2>2
    <2>7. \A w \in 1..Len(huge) : huge'[w] = IF w = z THEN more ELSE huge[w]
      BY <2>6
    <2>8. \A w, i, g : At(w, i, g)' <=> At(w, i, g) \/ (w = z /\ i = k /\ g = f)
      <3> SUFFICES ASSUME NEW w, NEW i, NEW g
                   PROVE  At(w, i, g)' <=> At(w, i, g) \/ (w = z /\ i = k /\ g = f)
        OBVIOUS
      <3>1. CASE w = z
        <4>1. 1..k = 1..Len(t.seen) \cup {k}
          BY <1>4, <2>4
        <4>2. At(z, i, g)' <=> i \in 1..k /\ more[i] = g
          BY <1>4, <2>5, <2>6 DEF At
        <4>3. At(z, i, g) <=> i \in 1..Len(t.seen) /\ t.seen[i] = g
          BY <1>4, <2>3 DEF At
        <4>4. k \notin 1..Len(t.seen)
          BY <1>4, <2>4
        <4> QED BY <2>5, <3>1, <4>1, <4>2, <4>3, <4>4
      <3>2. CASE w # z
        BY <2>6, <3>2 DEF At
      <3> QED BY <3>1, <3>2
    <2>9. ~Full(z)
      BY <1>4, <2>3 DEF Full
    <2>10. \A w : Full(w) => Full(w)'
      BY <2>6, <2>9 DEF Full
    <2>11. RangesGrow
      <3>1. f[2] <= cur[f[1]].page
        BY <1>4, <1>5
      <3> QED BY <2>8, <2>9, <2>10, <3>1 DEF RangesGrow
    <2>12. PagesGrow
      BY <1>2 DEF PagesGrow, Exists
    <2>13. Grows
      BY <1>2, <2>11, <2>12 DEF Grows, CurGrows
    <2>14. \A w \in 1..MaxHuge, i \in 1..RangesPerPage : ~At(w, i, f)
      BY <1>3, <1>4, <1>5, <2>3, <2>9, NotClaimedBeyond
    <2>15. HugeInv'
      <3>1. \A w \in 1..Len(huge') : huge'[w] # <<>> => FullBelow(w)'
        <4> SUFFICES ASSUME NEW w \in 1..Len(huge), huge'[w] # <<>> PROVE FullBelow(w)'
          BY <2>6
        <4>1. FullBelow(w)
          BY <1>3, <1>5, <2>6 DEF HugeInv
        <4> QED BY <1>3, <2>13, <4>1, FullBelowGrows
      <3>2. FullBelow(hugeCur.page)'
        <4>1. PICK x : x = hugeCur.page /\ FullBelow(x)
          BY <1>3 DEF HugeInv
        <4>2. FullBelow(x)'
          BY <1>3, <2>13, <4>1, FullBelowGrows
        <4> QED BY <1>2, <4>1, <4>2 DEF FullBelow
      <3>3. \A g \in Sets \X Pages : \A w, x \in 1..MaxHuge, i, j \in 1..RangesPerPage :
              At(w, i, g)' /\ At(x, j, g)' => w = x /\ i = j
        <4> SUFFICES ASSUME NEW g \in Sets \X Pages, NEW w \in 1..MaxHuge, NEW x \in 1..MaxHuge,
                            NEW i \in 1..RangesPerPage, NEW j \in 1..RangesPerPage,
                            At(w, i, g)', At(x, j, g)'
                     PROVE  w = x /\ i = j
          OBVIOUS
        <4>1. CASE g = f
          BY <2>8, <2>14, <4>1
        <4>2. CASE g # f
          <5>1. At(w, i, g) /\ At(x, j, g)
            BY <2>8, <4>2
          <5> QED BY <1>3, <5>1, Zenon DEF HugeInv
        <4> QED BY <4>1, <4>2
      <3> QED BY <1>2, <3>1, <3>2, <3>3, Zenon DEF HugeInv
    <2>16. /\ r1.pc = "addPage" /\ r1.set = t.set /\ r1.page = t.page /\ r1.cas = t.cas
           /\ r1.z = z /\ Fill(r1) = f /\ r1.range = <<z, k>>
      BY <1>1, <1>3, <1>4, <2>4 DEF Tab, Fill
    <2>17. Knows(r1)'
      <3>1. FullBelow(z)' /\ NoneBelow(z, f)'
        BY <1>3, <1>4, <1>5, <2>13, FullBelowGrows, NoneBelowGrows
      <3>2. At(z, k, f)'
        BY <2>8
      <3>3. r1.range[1] = z /\ r1.range[2] = k
        BY <2>16
      <3>4. PICK c, t0 : c = cur[t.set] /\ t0 = t
        OBVIOUS
      <3>5. /\ r1.cas <= c.cas /\ 1 < r1.page /\ r1.page <= c.page
            /\ r1.cas = c.cas => c.from > 0 /\ r1.page = c.page
        BY <1>5, <2>16, <3>4
      <3>6. cur'[r1.set] = c
        BY <1>2, <2>16, <3>4
      <3> QED BY <2>16, <3>1, <3>2, <3>3, <3>5, <3>6 DEF Knows, Walking, Filling, Fill
    <2> QED BY <1>2, <2>1, <2>11, <2>12, <2>15, <2>17, PageStep
  <1>7. CASE ~Unchanged(t.seen, huge[t.z])
    <2>1. UNCHANGED huge /\ tab' = [tab EXCEPT ![s] = r2]
      BY <1>0, <1>1, <1>7 DEF claimRange, Become
    <2>2. /\ r2.pc = "getHugePage" /\ r2.set = t.set /\ r2.page = t.page /\ r2.cas = t.cas
          /\ r2.z = z /\ Fill(r2) = f
      BY <1>1, <1>3 DEF Tab, Fill
    <2>3. r2.pc \in Filling /\ FullBelow(r2.z) /\ NoneBelow(r2.z, Fill(r2))
      BY <1>5, <2>2 DEF Filling
    <2>4. Knows(r2)
      BY <1>2, <1>3, <2>2, <2>3, FillOn
    <2> QED BY <1>2, <2>1, <2>4, QuietStep, SameAccounts
  <1> QED BY <1>6, <1>7

\* A step of no tab.
LEMMA NoTabStep ==
  ASSUME PagesInv, TypeInv', Grows, tab' = tab, AccountsKnow, HugeInv', UNCHANGED cur
  PROVE  FillInv'
  <1>1. TypeInv
    BY PagesParts
  <1>2. \A n \in Sets : SetInv(n)'
    BY <1>1, PagesParts, SetGrows
  <1>3. \A s \in Tabs : Knows(tab[s])'
    <2> SUFFICES ASSUME NEW s \in Tabs PROVE Knows(tab[s])'
      OBVIOUS
    <2>1. PICK t : t = tab[s]
      OBVIOUS
    <2>2. Knows(t)'
      BY <1>1, <2>1, PagesParts, KnowsGrows
    <2> QED BY <2>1, <2>2 DEF Knows
  <1> QED BY <1>2, <1>3, AccountsKnowOn DEF FillInv

LEMMA SameHugeInv ==
  ASSUME HugeInv, UNCHANGED <<huge, hugeCur>>
  PROVE  HugeInv'
  BY DEF HugeInv, At, FullBelow, Full

LEMMA OthersFill ==
  ASSUME PagesInv, TypeInv', NEW u \in Users, OtherLock(u) \/ OtherUnlock(u)
  PROVE  FillInv'
  <1>1. UNCHANGED <<cur, page, huge, hugeCur, tab>>
    BY DEF OtherLock, OtherUnlock
  <1>2. TypeInv /\ HugeInv /\ account \in [Users -> Account]
    BY PagesParts DEF TypeInv, TypeOK
  <1>3. Grows
    <2>1. \A n \in Sets : CurGrows(n)
      BY <1>1 DEF CurGrows
    <2> QED BY <1>1, <1>2, <2>1, SameGrows
  <1>4. \A v \in Users : /\ account'[v].state = account[v].state
                         /\ account'[v].set = account[v].set /\ account'[v].page = account[v].page
    <2>1. CASE OtherLock(u)
      BY <1>2, <2>1 DEF OtherLock, Account
    <2>2. CASE OtherUnlock(u)
      BY <1>2, <2>2 DEF OtherUnlock, Account
    <2> QED BY <2>1, <2>2
  <1>5. AccountsKnow
    BY <1>4 DEF AccountsKnow
  <1> QED BY <1>1, <1>2, <1>3, <1>5, SameHugeInv, NoTabStep

LEMMA AdderFill ==
  ASSUME PagesInv, TypeInv', addHugeBitcoinKeyListPage
  PROVE  FillInv'
  <1>1. /\ huge' = Append(huge, <<>>) /\ UNCHANGED <<account, cur, page, hugeCur, tab>>
        /\ Len(huge) < MaxHuge
    BY DEF addHugeBitcoinKeyListPage
  <1>2. TypeInv /\ HugeInv
    BY PagesParts
  <1>3. huge \in Seq(Seq(Sets \X Pages)) /\ Len(huge) \in Nat
    BY <1>2 DEF TypeInv, TypeOK
  <1>4. PICK e \in Seq(Sets \X Pages) : e = <<>> /\ Len(e) = 0
    BY EmptySeq
  <1>5. /\ Len(huge') = Len(huge) + 1 /\ huge'[Len(huge) + 1] = e
        /\ \A z \in 1..Len(huge) : huge'[z] = huge[z]
    BY <1>1, <1>3, <1>4
  <1>6. \A z : z \in 1..Len(huge') <=> z \in 1..Len(huge) \/ z = Len(huge) + 1
    BY <1>3, <1>5
  <1>7. \A w, i, f : At(w, i, f)' <=> At(w, i, f)
    <2> SUFFICES ASSUME NEW w, NEW i, NEW f PROVE At(w, i, f)' <=> At(w, i, f)
      OBVIOUS
    <2>1. CASE w = Len(huge) + 1
      <3>1. w \notin 1..Len(huge) /\ huge'[w] = e
        BY <1>3, <1>5, <2>1
      <3>2. i \notin 1..Len(e)
        BY <1>4
      <3> QED BY <3>1, <3>2 DEF At
    <2>2. CASE w # Len(huge) + 1
      BY <1>5, <1>6, <2>2 DEF At
    <2> QED BY <2>1, <2>2
  <1>8. \A w : Full(w) => Full(w)'
    BY <1>5, <1>6 DEF Full
  <1>9. Grows
    <2>1. RangesGrow
      BY <1>7, <1>8 DEF RangesGrow
    <2>2. PagesGrow
      BY <1>1 DEF PagesGrow, Exists
    <2> QED BY <1>1, <2>1, <2>2 DEF Grows, CurGrows
  <1>10. HugeInv'
    <2>1. \A w \in 1..Len(huge') : huge'[w] # <<>> => FullBelow(w)'
      <3> SUFFICES ASSUME NEW w \in 1..Len(huge'), huge'[w] # <<>> PROVE FullBelow(w)'
        OBVIOUS
      <3>1. w \in 1..Len(huge) /\ huge[w] # <<>>
        BY <1>4, <1>5, <1>6
      <3>2. FullBelow(w)
        BY <1>2, <3>1 DEF HugeInv
      <3> QED BY <1>2, <1>9, <3>2, FullBelowGrows
    <2>2. FullBelow(hugeCur.page)'
      <3>1. PICK x : x = hugeCur.page /\ FullBelow(x)
        BY <1>2 DEF HugeInv
      <3>2. FullBelow(x)'
        BY <1>2, <1>9, <3>1, FullBelowGrows
      <3> QED BY <1>1, <3>1, <3>2 DEF FullBelow
    <2>3. \A g \in Sets \X Pages : \A w, x \in 1..MaxHuge, i, j \in 1..RangesPerPage :
            At(w, i, g)' /\ At(x, j, g)' => w = x /\ i = j
      BY <1>2, <1>7, Zenon DEF HugeInv
    <2> QED BY <2>1, <2>2, <2>3, Zenon DEF HugeInv
  <1> QED BY <1>1, <1>9, <1>10, SameAccounts, NoTabStep

LEMMA InitFill == Init => FillInv
  <1> SUFFICES ASSUME Init PROVE FillInv
    OBVIOUS
  <1>1. PICK e : e = <<>> /\ Len(e) = 0
    BY EmptySeq
  <1>2. huge = <<e>> /\ Len(huge) = 1 /\ huge[1] = e
    BY <1>1 DEF Init
  <1>3. \A w, i, f : ~At(w, i, f)
    BY <1>1, <1>2 DEF At
  <1>4. FullBelow(1)
    BY DEF FullBelow
  <1>5. HugeInv
    <2>1. \A w \in 1..Len(huge) : w = 1
      BY <1>2
    <2>2. hugeCur.page = 1
      BY DEF Init
    <2> QED BY <1>1, <1>2, <1>3, <1>4, <2>1, <2>2 DEF HugeInv
  <1>6. \A n \in Sets : cur[n].page = 1 /\ cur[n].from = 0
    BY DEF Init
  <1>7. \A n \in Sets, y \in Pages : Exists(n, y) <=> y = 1
    <2> SUFFICES ASSUME NEW n \in Sets, NEW y \in Pages PROVE Exists(n, y) <=> y = 1
      OBVIOUS
    <2>1. PICK k : k = [range |-> FirstRange(n), claims |-> <<>>]
      OBVIOUS
    <2>2. k \in KeyPage
      BY <2>1, EmptySeq DEF KeyPage
    <2>3. page[n][y] = IF y = 1 THEN k ELSE NoPage
      BY <2>1, Zenon DEF Init
    <2> QED BY <2>2, <2>3, NoPageAssumption DEF Exists
  <1>8. \A n \in Sets : page[n][1].range = FirstRange(n)
    BY PagesAreNumbers DEF Init
  <1>9. \A n \in Sets : SetInv(n)
    <2> SUFFICES ASSUME NEW n \in Sets PROVE SetInv(n)
      OBVIOUS
    <2>1. HasPages(n)
      BY <1>6, <1>7, PagesAreNumbers DEF HasPages
    <2>2. NoneBeyond(n)
      <3> SUFFICES ASSUME NEW y \in Pages, y > cur[n].page
                   PROVE  ~Exists(n, y) /\ Unclaimed(<<n, y>>)
        BY Zenon DEF NoneBeyond
      <3>1. y # 1
        BY <1>6
      <3> QED BY <1>3, <1>7, <3>1 DEF Unclaimed
    <2>3. RangesAreClaimed(n)
      BY <1>7, <1>8 DEF RangesAreClaimed
    <2>4. FillStarts(n)
      BY <1>6 DEF FillStarts
    <2> QED BY <2>1, <2>2, <2>3, <2>4 DEF SetInv
  <1>10. \A s \in Tabs : Knows(tab[s])
    BY NewTabKnows DEF Init
  <1>11. \A u \in Users : AccountKnows(u)
    BY DEF Init, AccountKnows, NewAccount
  <1> QED BY <1>5, <1>9, <1>10, <1>11 DEF FillInv

LEMMA NextFill ==
  ASSUME PagesInv, TypeInv', [Next]_vars
  PROVE  FillInv'
  <1>1. ASSUME NEW s \in Tabs, TabStep(s) PROVE FillInv'
    <2>1. ASSUME NEW u \in Users, determineBitcoinState(s, u) PROVE FillInv'
      BY <2>1, ShowKeyFill, SameAccounts DEF determineBitcoinState, docs
    <2>2. ASSUME Close(s) \/ Crash(s) PROVE FillInv'
      <3>1. Nothing(s) /\ UNCHANGED <<account, cur, page, huge, hugeCur>>
        BY <2>2 DEF Close, Crash, docs, Nothing
      <3> QED BY <3>1, CloseFill, SameAccounts
    <2> QED BY <1>1, <2>1, <2>2, CheckedFill, AnalyzeFill, LockAccountFill, GetPageFill, ClaimKeyFill,
         UnlockAccountFill, GetHugeCurFill, LockSetFill, GetHugePageFill, ChangeHugeCurFill,
         ClaimRangeFill, RelockSetFill, AddPageFill, UnlockSetFill, DoneSendingFill, CreditFill
         DEF TabStep
  <1>2. ASSUME UNCHANGED vars PROVE FillInv'
    <2>1. UNCHANGED <<account, cur, page, huge, hugeCur, tab>>
      BY <1>2 DEF vars, docs
    <2>2. Grows
      <3>1. \A n \in Sets : CurGrows(n)
        BY <2>1 DEF CurGrows
      <3> QED BY <2>1, <3>1, PagesParts, SameGrows
    <2> QED BY <2>1, <2>2, PagesParts, SameAccounts, SameHugeInv, NoTabStep
  <1> QED BY <1>1, <1>2, OthersFill, AdderFill DEF Next

-----------------------------------------------------------------------------
(* Theorems on pages and ranges.                                            *)

\* PagesInv is an inductive invariant: pages and ranges are used up in their
\* order, and every tab in a fill looks no further than where its range is.
THEOREM PagesInvariant == Spec => []PagesInv
  <1>1. Init => PagesInv
    BY InitType, InitFill DEF PagesInv
  <1>2. PagesInv /\ [Next]_vars => PagesInv'
    BY NextType, NextFill DEF PagesInv
  <1> QED BY <1>1, <1>2, PTL DEF Spec

\* Every variable stays in its type, whatever the number of users, tabs, sets and
\* pages: no page, range or key is ever looked for beyond what there is room for.
THEOREM TypeCorrect == Spec => []TypeOK
  <1>1. PagesInv => TypeOK
    BY DEF PagesInv, TypeInv
  <1> QED BY <1>1, PagesInvariant, PTL

\* No tab is sent to a page that is not there: the "total system failure" of
\* addfundsaccounttabbody.cpp:361 does not happen.
THEOREM PagesAlwaysThere == Spec => []PagesAreThere
  <1>1. PagesInv => PagesAreThere
    BY PagesParts DEF PagesAreThere, Knows, Exists
  <1> QED BY <1>1, PagesInvariant, PTL

\* A fill claims one range, whoever makes it and however often it is begun
\* again, and the page it adds has the keys of that range.
THEOREM OneRangeForOnePage == Spec => []OneRangePerPage
  <1>1. PagesInv => OneRangePerPage
    <2> SUFFICES ASSUME PagesInv, NEW n \in Sets, NEW y \in Pages \ {1},
                        NEW claims, claims = {r \in Ranges :
                          r[1] \in DOMAIN huge /\ r[2] \in DOMAIN huge[r[1]]
                          /\ huge[r[1]][r[2]] = <<n, y>>}
                 PROVE  /\ Cardinality(claims) <= 1
                        /\ page[n][y] # NoPage => claims = {page[n][y].range}
      BY DEF OneRangePerPage
    <2>1. huge \in Seq(Seq(Sets \X Pages)) /\ HugeInv /\ SetInv(n)
      BY PagesParts DEF TypeInv, TypeOK
    <2>2. claims = {r \in Ranges : At(r[1], r[2], <<n, y>>)}
      BY <2>1 DEF At
    <2>3. \A r, q \in claims : r = q
      <3> SUFFICES ASSUME NEW r \in claims, NEW q \in claims PROVE r = q
        OBVIOUS
      <3>1. /\ r[1] \in 1..MaxHuge /\ r[2] \in 1..RangesPerPage
            /\ q[1] \in 1..MaxHuge /\ q[2] \in 1..RangesPerPage
            /\ r = <<r[1], r[2]>> /\ q = <<q[1], q[2]>>
        BY <2>2 DEF Ranges
      <3>2. At(r[1], r[2], <<n, y>>) /\ At(q[1], q[2], <<n, y>>) /\ <<n, y>> \in Sets \X Pages
        BY <2>2
      <3>3. r[1] = q[1] /\ r[2] = q[2]
        BY <2>1, <3>1, <3>2, Zenon DEF HugeInv
      <3> QED BY <3>1, <3>3
    <2>4. Cardinality(claims) <= 1
      <3>1. CASE claims = {}
        BY <3>1, FS_EmptySet
      <3>2. CASE claims # {}
        <4>1. PICK r : r \in claims
          BY <3>2
        <4>2. claims = {r}
          BY <2>3, <4>1, Zenon
        <4>3. Cardinality(claims) = 1
          BY <4>2, FS_Singleton, Zenon
        <4> QED BY <4>3
      <3> QED BY <3>1, <3>2
    <2>5. page[n][y] # NoPage => page[n][y].range \in claims
      BY <2>1, <2>2 DEF SetInv, RangesAreClaimed, Exists
    <2> QED BY <2>3, <2>4, <2>5
  <1> QED BY <1>1, PagesInvariant, PTL

-----------------------------------------------------------------------------
(* Whose the keys are.                                                      *)

\* Place i on page y of set n is claimed for request q, and its key.
ClaimAt(n, y, i, q) ==
  Exists(n, y) /\ i \in 1..Len(page[n][y].claims) /\ page[n][y].claims[i] = q
KeyAt(n, y, i) == <<page[n][y].range, i>>

IsClaimed(k) == \E q \in Uuids : k \in ClaimsOf(q)
Unpaid(q)    == ClaimsOf(q) \cap credited = {}

\* Nothing has been stored at the account since the tab has seen it.
UpToDate(t) == t.doc.cas = account[t.user].cas

Owns(t) ==
  LET a == account[t.user] IN
  /\ t.pc \in Getting => t.uuid[2] <= requests[t.user]
  /\ t.pc \in Getting \cup {"credit"} =>
       t.doc.cas <= a.cas /\ (UpToDate(t) => t.doc.balance = a.balance)
  /\ t.pc \in Getting /\ UpToDate(t) => Unpaid(t.uuid)
  /\ t.pc = "claimKey" => t.key = <<page[t.set][t.page].range, Len(t.seen) + 1>>
  /\ t.pc = "unlockAccount" => t.key \in ClaimsOf(t.uuid)
  /\ t.pc = "credit" /\ UpToDate(t) => a.state = "HaveKey" /\ a.key = t.pay

AccountOwns(u) ==
  LET a == account[u] IN
  /\ a.state = "GettingKey" => a.uuid[2] <= requests[u] /\ Unpaid(a.uuid)
  /\ a.state = "HaveKey" => a.key \in KeysOf(u) \ credited
  /\ a.balance = ledger[u] + Cardinality(credited \cap KeysOf(u))

OwnInv ==
  /\ IsFiniteSet(credited)
  /\ \A k \in credited : IsClaimed(k)
  /\ \A q \in Uuids : ClaimsOf(q) # {} => q[2] <= requests[q[1]]
  /\ \A s \in Tabs : Owns(tab[s])
  /\ \A u \in Users : AccountOwns(u)

KeysInv == PagesInv /\ OwnInv

ClaimsAre ==
  \A q, k : k \in ClaimsOf(q) <=>
    \E n \in Sets : \E y \in Pages : \E i \in Nat : ClaimAt(n, y, i, q) /\ k = KeyAt(n, y, i)

LEMMA ClaimsOfAre == TypeInv => ClaimsAre
  <1> SUFFICES ASSUME TypeInv, NEW q, NEW k
               PROVE  k \in ClaimsOf(q) <=>
                        \E n \in Sets : \E y \in Pages : \E i \in Nat :
                          ClaimAt(n, y, i, q) /\ k = KeyAt(n, y, i)
    BY Zenon DEF ClaimsAre
  <1>1. \A n \in Sets, y \in Pages :
          Exists(n, y) => page[n][y] \in KeyPage /\ DOMAIN page[n][y].claims = 1..Len(page[n][y].claims)
                          /\ Len(page[n][y].claims) \in Nat
    BY DEF TypeInv, TypeOK, Exists, KeyPage
  <1>2. ASSUME NEW n \in Sets, NEW y \in Pages, NEW i \in Nat, ClaimAt(n, y, i, q), k = KeyAt(n, y, i)
        PROVE  k \in ClaimsOf(q)
    <2> DEFINE p == <<n, y>>
    <2>1. p \in Sets \X Pages /\ p[1] = n /\ p[2] = y
      OBVIOUS
    <2> HIDE DEF p
    <2>2. page[p[1]][p[2]] # NoPage
      BY <1>2, <2>1 DEF ClaimAt, Exists
    <2>3. i \in {j \in DOMAIN page[p[1]][p[2]].claims : page[p[1]][p[2]].claims[j] = q}
      BY <1>1, <1>2, <2>1 DEF ClaimAt
    <2>4. k = <<page[p[1]][p[2]].range, i>>
      BY <1>2, <2>1 DEF KeyAt
    <2>5. k \in {<<page[p[1]][p[2]].range, j>> : j \in
                    {j \in DOMAIN page[p[1]][p[2]].claims : page[p[1]][p[2]].claims[j] = q}}
      BY <2>3, <2>4
    <2>6. p \in {x \in Sets \X Pages : page[x[1]][x[2]] # NoPage}
      BY <2>1, <2>2
    <2> DEFINE F(x) == {<<page[x[1]][x[2]].range, j>> : j \in
                    {j \in DOMAIN page[x[1]][x[2]].claims : page[x[1]][x[2]].claims[j] = q}}
               S == {x \in Sets \X Pages : page[x[1]][x[2]] # NoPage}
    <2>7. ClaimsOf(q) = UNION {F(x) : x \in S}
      BY Zenon DEF ClaimsOf
    <2>8. k \in F(p) /\ p \in S
      BY <2>5, <2>6
    <2> HIDE DEF F, S
    <2> QED BY <2>7, <2>8, Zenon
  <1>3. ASSUME k \in ClaimsOf(q)
        PROVE  \E n \in Sets : \E y \in Pages : \E i \in Nat :
                 ClaimAt(n, y, i, q) /\ k = KeyAt(n, y, i)
    <2>1. PICK p \in Sets \X Pages : /\ page[p[1]][p[2]] # NoPage
                 /\ \E i \in {j \in DOMAIN page[p[1]][p[2]].claims :
                                page[p[1]][p[2]].claims[j] = q} : k = <<page[p[1]][p[2]].range, i>>
      BY <1>3, Zenon DEF ClaimsOf
    <2>2. PICK n \in Sets, y \in Pages : p[1] = n /\ p[2] = y
      OBVIOUS
    <2>3. PICK i \in DOMAIN page[n][y].claims :
                 page[n][y].claims[i] = q /\ k = <<page[n][y].range, i>>
      BY <2>1, <2>2
    <2>4. Exists(n, y) /\ i \in 1..Len(page[n][y].claims) /\ i \in Nat
      BY <1>1, <2>1, <2>2, <2>3 DEF Exists
    <2> QED BY <2>3, <2>4 DEF ClaimAt, KeyAt
  <1> QED BY <1>2, <1>3

LEMMA ClaimsArePick ==
  ASSUME ClaimsAre, NEW q, NEW k, k \in ClaimsOf(q)
  PROVE  \E n \in Sets, y \in Pages, i \in Nat : ClaimAt(n, y, i, q) /\ k = KeyAt(n, y, i)
  <1>1. \E n \in Sets : \E y \in Pages : \E i \in Nat :
          ClaimAt(n, y, i, q) /\ k = KeyAt(n, y, i)
    BY DEF ClaimsAre
  <1> QED BY <1>1, Zenon

LEMMA ClaimsOfAreNext == TypeInv' => ClaimsAre'
  BY ClaimsOfAre, PTL

\* Two pages have no key in common, for they have no range in common.
LEMMA KeysApart ==
  ASSUME PagesInv, NEW n \in Sets, NEW m \in Sets, NEW y \in Pages, NEW x \in Pages,
         Exists(n, y), Exists(m, x), page[n][y].range = page[m][x].range
  PROVE  n = m /\ y = x
  <1> DEFINE r == page[n][y].range
  <1>1. SetInv(n) /\ SetInv(m) /\ TypeInv
    BY PagesParts
  <1>2. /\ y = 1 => r = <<0, n>>
        /\ x = 1 => r = <<0, m>>
        /\ y # 1 => r \in Ranges /\ At(r[1], r[2], <<n, y>>)
        /\ x # 1 => r \in Ranges /\ At(r[1], r[2], <<m, x>>)
    BY <1>1 DEF SetInv, RangesAreClaimed, FirstRange
  <1>3. \A a \in Ranges, b \in Sets : a # <<0, b>>
    BY Bounds DEF Ranges
  <1>4. (y = 1 <=> x = 1)
    BY <1>2, <1>3
  <1>5. CASE y = 1
    BY <1>2, <1>4, <1>5
  <1>6. CASE y # 1
    <2>1. huge[r[1]][r[2]] = <<n, y>> /\ huge[r[1]][r[2]] = <<m, x>>
      <3>1. At(r[1], r[2], <<n, y>>) /\ At(r[1], r[2], <<m, x>>)
        BY <1>2, <1>4, <1>6, Zenon
      <3> QED BY <3>1, Zenon DEF At
    <2> HIDE DEF r
    <2> QED BY <2>1
  <1> QED BY <1>5, <1>6

LEMMA OneOwner ==
  ASSUME PagesInv, NEW q, NEW r, NEW k, k \in ClaimsOf(q), k \in ClaimsOf(r)
  PROVE  q = r
  <1>1. ClaimsAre
    BY PagesParts, ClaimsOfAre
  <1>2. PICK n \in Sets, y \in Pages, i \in Nat : ClaimAt(n, y, i, q) /\ k = KeyAt(n, y, i)
    BY <1>1, ClaimsArePick
  <1>3. PICK m \in Sets, x \in Pages, j \in Nat : ClaimAt(m, x, j, r) /\ k = KeyAt(m, x, j)
    BY <1>1, ClaimsArePick
  <1>4. page[n][y].range = page[m][x].range /\ i = j
    BY <1>2, <1>3 DEF KeyAt
  <1>5. n = m /\ y = x
    BY <1>2, <1>3, <1>4, KeysApart DEF ClaimAt
  <1> QED BY <1>2, <1>3, <1>4, <1>5 DEF ClaimAt

LEMMA KeysOfAre ==
  ASSUME NEW u \in Users
  PROVE  \A k : k \in KeysOf(u) <=> \E q \in Uuids : q[1] = u /\ k \in ClaimsOf(q)
  <1>1. ASSUME NEW k, k \in KeysOf(u)
        PROVE  \E q \in Uuids : q[1] = u /\ k \in ClaimsOf(q)
    <2>1. PICK i \in 1..MaxEvents : k \in ClaimsOf(<<u, i>>)
      BY <1>1, Zenon DEF KeysOf
    <2>2. <<u, i>> \in Uuids /\ <<u, i>>[1] = u
      BY DEF Uuids
    <2> QED BY <2>1, <2>2, Zenon
  <1>2. ASSUME NEW k, NEW q \in Uuids, q[1] = u, k \in ClaimsOf(q)
        PROVE  k \in KeysOf(u)
    <2>1. PICK i \in 1..MaxEvents : q = <<u, i>>
      BY <1>2 DEF Uuids
    <2> QED BY <1>2, <2>1, Zenon DEF KeysOf
  <1> QED BY <1>1, <1>2

KeysAre ==
  \A u \in Users : \A k : k \in KeysOf(u) <=> \E q \in Uuids : q[1] = u /\ k \in ClaimsOf(q)

LEMMA KeysOfAreNext == KeysAre /\ KeysAre'
  <1>1. KeysAre
    BY KeysOfAre DEF KeysAre
  <1> QED BY <1>1, PTL

LEMMA OwnersDiffer ==
  ASSUME PagesInv, NEW u \in Users, NEW v \in Users, NEW k, k \in KeysOf(u), k \in KeysOf(v)
  PROVE  u = v
  BY KeysOfAre, OneOwner

\* Requests and claims are only added to, an account that changes has a new CAS,
\* and nothing is credited but to an account that changes.
OwnersGrow ==
  /\ \A u \in Users : requests'[u] >= requests[u]
  /\ \A u \in Users : account'[u] = account[u] \/ account'[u].cas > account[u].cas
  /\ \A q \in Uuids : ClaimsOf(q) \subseteq ClaimsOf(q)'
  /\ \A q \in Uuids : Unpaid(q) /\ account'[q[1]] = account[q[1]] => Unpaid(q)'

LEMMA OwnsGrows ==
  ASSUME TypeInv, TypeInv', PagesGrow, OwnersGrow, NEW t \in Tab, Wired(t), Knows(t), Owns(t)
  PROVE  Owns(t)'
  <1>1. CASE t.pc \notin Getting \cup {"credit"}
    BY <1>1 DEF Owns, Getting, Walking, Filling
  <1>2. CASE t.pc \in Getting \cup {"credit"}
    <2>1. t.user \in Users /\ (t.pc \in Getting => t.uuid \in Uuids /\ t.uuid[1] = t.user)
      BY <1>2 DEF Wired, Getting, Walking, Filling
    <2>2. PICK a, b : a = account[t.user] /\ b = account'[t.user]
      OBVIOUS
    <2>3. a.cas \in Nat /\ b.cas \in Nat /\ t.doc.cas \in Nat
      <3>1. a \in Account /\ b \in Account /\ t.doc \in Account
        BY <2>1, <2>2 DEF TypeInv, TypeOK, Tab
      <3> QED BY <3>1 DEF Account
    <2>4. b = a \/ b.cas > a.cas
      BY <2>1, <2>2 DEF OwnersGrow
    <2>5. t.doc.cas <= a.cas /\ (t.doc.cas = a.cas => t.doc.balance = a.balance)
      BY <1>2, <2>2 DEF Owns, UpToDate
    <2>6. t.doc.cas <= b.cas /\ (t.doc.cas = b.cas => b = a)
      BY <2>3, <2>4, <2>5
    <2>7. t.pc \in Getting => t.uuid[2] <= requests'[t.user]
      <3> SUFFICES ASSUME t.pc \in Getting PROVE t.uuid[2] <= requests'[t.user]
        OBVIOUS
      <3>1. t.uuid[2] <= requests[t.user] /\ requests'[t.user] >= requests[t.user]
        BY <2>1 DEF Owns, OwnersGrow
      <3>2. t.uuid[2] \in Nat /\ requests[t.user] \in Nat /\ requests'[t.user] \in Nat
        BY <2>1 DEF Uuids, TypeInv, TypeOK
      <3> QED BY <3>1, <3>2
    <2>8. t.pc \in Getting /\ t.doc.cas = b.cas => Unpaid(t.uuid)'
      <3> SUFFICES ASSUME t.pc \in Getting, t.doc.cas = b.cas PROVE Unpaid(t.uuid)'
        OBVIOUS
      <3>1. b = a /\ Unpaid(t.uuid)
        BY <2>2, <2>6 DEF Owns, UpToDate
      <3>2. PICK q \in Uuids : q = t.uuid
        BY <2>1
      <3>3. account'[q[1]] = account[q[1]] /\ Unpaid(q)
        BY <2>1, <2>2, <3>1, <3>2
      <3>4. Unpaid(q)'
        BY <3>3 DEF OwnersGrow
      <3> QED BY <3>2, <3>4
    <2>9. t.pc = "claimKey" => t.key = <<page'[t.set][t.page].range, Len(t.seen) + 1>>
      <3> SUFFICES ASSUME t.pc = "claimKey"
                   PROVE  t.key = <<page'[t.set][t.page].range, Len(t.seen) + 1>>
        OBVIOUS
      <3>1. t.set \in Sets /\ t.page \in Pages /\ Exists(t.set, t.page)
        BY DEF Wired, Getting, Walking, Knows
      <3>2. page'[t.set][t.page].range = page[t.set][t.page].range
        BY <3>1 DEF PagesGrow
      <3> QED BY <3>2 DEF Owns
    <2>10. t.pc = "unlockAccount" => t.key \in ClaimsOf(t.uuid)'
      <3> SUFFICES ASSUME t.pc = "unlockAccount" PROVE t.key \in ClaimsOf(t.uuid)'
        OBVIOUS
      <3>1. PICK q \in Uuids : q = t.uuid
        BY <2>1 DEF Getting, Walking
      <3>2. t.key \in ClaimsOf(q)
        BY <3>1 DEF Owns
      <3>3. t.key \in ClaimsOf(q)'
        BY <3>2 DEF OwnersGrow
      <3> QED BY <3>1, <3>3
    <2>11. t.pc = "credit" /\ t.doc.cas = b.cas => b.state = "HaveKey" /\ b.key = t.pay
      BY <2>2, <2>6 DEF Owns, UpToDate
    <2> QED BY <2>2, <2>5, <2>6, <2>7, <2>8, <2>9, <2>10, <2>11 DEF Owns, UpToDate
  <1> QED BY <1>1, <1>2

\* An account that a step leaves alone.
LEMMA AccountKept ==
  ASSUME TypeInv, TypeInv', OwnersGrow, NEW u \in Users, AccountOwns(u),
         account'[u] = account[u], ledger'[u] = ledger[u],
         credited' \cap KeysOf(u)' = credited \cap KeysOf(u)
  PROVE  AccountOwns(u)'
  <1>1. PICK a : a = account[u]
    OBVIOUS
  <1>2. a.state = "GettingKey" => a.uuid[2] <= requests'[u] /\ Unpaid(a.uuid)'
    <2> SUFFICES ASSUME a.state = "GettingKey"
                 PROVE  a.uuid[2] <= requests'[u] /\ Unpaid(a.uuid)'
      OBVIOUS
    <2>1. a.uuid \in Uuids /\ a.uuid[1] = u
      BY <1>1 DEF TypeInv, AccountWired
    <2>2. PICK q \in Uuids : q = a.uuid
      BY <2>1
    <2>3. q[2] <= requests[u] /\ Unpaid(q) /\ requests'[u] >= requests[u]
      BY <1>1, <2>2 DEF AccountOwns, OwnersGrow
    <2>4. q[2] \in Nat /\ requests[u] \in Nat /\ requests'[u] \in Nat
      BY DEF Uuids, TypeInv, TypeOK
    <2>5. Unpaid(q)'
      BY <2>1, <2>2, <2>3 DEF OwnersGrow
    <2> QED BY <2>2, <2>3, <2>4, <2>5
  <1>3. a.state = "HaveKey" => a.key \in KeysOf(u)' \ credited'
    <2> SUFFICES ASSUME a.state = "HaveKey" PROVE a.key \in KeysOf(u)' /\ a.key \notin credited'
      OBVIOUS
    <2>1. a.key \in KeysOf(u) /\ a.key \notin credited
      BY <1>1 DEF AccountOwns
    <2>2. PICK q \in Uuids : q[1] = u /\ a.key \in ClaimsOf(q)
      BY <2>1, KeysOfAreNext DEF KeysAre
    <2>3. a.key \in ClaimsOf(q)'
      BY <2>2 DEF OwnersGrow
    <2>4. a.key \in KeysOf(u)'
      BY <2>2, <2>3, KeysOfAreNext DEF KeysAre
    <2> QED BY <2>1, <2>4
  <1>4. a.balance = ledger'[u] + Cardinality(credited' \cap KeysOf(u)')
    BY <1>1 DEF AccountOwns
  <1> QED BY <1>1, <1>2, <1>3, <1>4 DEF AccountOwns

Numbered == \A q \in Uuids : ClaimsOf(q) # {} => q[2] <= requests[q[1]]

LEMMA KeysParts ==
  KeysInv => /\ PagesInv /\ TypeInv /\ IsFiniteSet(credited) /\ Numbered
             /\ \A k \in credited : IsClaimed(k)
             /\ \A s \in Tabs : tab[s] \in Tab /\ Wired(tab[s]) /\ Knows(tab[s]) /\ Owns(tab[s])
             /\ \A u \in Users : AccountOwns(u)
  BY PagesParts DEF KeysInv, OwnInv, Numbered

LEMMA OwnStep ==
  ASSUME KeysInv, PagesInv', PagesGrow, OwnersGrow,
         NEW s \in Tabs, NEW t, tab' = [tab EXCEPT ![s] = t], Owns(t)',
         \A u \in Users : AccountOwns(u)', IsFiniteSet(credited'),
         \A k \in credited' : IsClaimed(k)', Numbered'
  PROVE  OwnInv'
  <1>0. TypeInv /\ TypeInv' /\ tab \in [Tabs -> Tab]
    BY KeysParts DEF PagesInv, TypeInv, TypeOK
  <1>1. \A q \in Tabs : Owns(tab[q])'
    <2> SUFFICES ASSUME NEW q \in Tabs PROVE Owns(tab[q])'
      OBVIOUS
    <2>1. PICK r, k : r = tab'[q] /\ k = tab[q]
      OBVIOUS
    <2>2. r = IF q = s THEN t ELSE k
      BY <1>0, <2>1
    <2>3. Owns(k)'
      BY <1>0, <2>1, KeysParts, OwnsGrows
    <2>4. Owns(r)'
      BY <2>2, <2>3
    <2> QED BY <2>1, <2>4 DEF Owns, UpToDate
  <1> QED BY <1>1 DEF OwnInv, Numbered

LEMMA SamePages ==
  ASSUME UNCHANGED page
  PROVE  PagesGrow /\ (\A q : ClaimsOf(q)' = ClaimsOf(q)) /\ (\A u : KeysOf(u)' = KeysOf(u))
  <1>1. PagesGrow
    BY DEF PagesGrow, Exists
  <1>2. \A q : ClaimsOf(q)' = ClaimsOf(q)
    BY DEF ClaimsOf
  <1>3. \A u : KeysOf(u)' = KeysOf(u)
    BY DEF KeysOf, ClaimsOf
  <1> QED BY <1>1, <1>2, <1>3

\* A step that claims and credits nothing changes at most one account.
LEMMA AccountStep ==
  ASSUME KeysInv, PagesInv', \A q : ClaimsOf(q)' = ClaimsOf(q), PagesGrow,
         UNCHANGED <<requests, credited>>, NEW s \in Tabs, NEW t, tab' = [tab EXCEPT ![s] = t],
         Owns(t)', NEW u \in Users, AccountOwns(u)',
         account'[u] = account[u] \/ account'[u].cas > account[u].cas,
         \A v \in Users : v # u => account'[v] = account[v] /\ ledger'[v] = ledger[v]
  PROVE  OwnInv'
  <1>0. TypeInv /\ TypeInv'
    BY KeysParts DEF PagesInv
  <1>1. \A q \in Uuids : Unpaid(q)' <=> Unpaid(q)
    BY DEF Unpaid
  <1>2. OwnersGrow
    <2>1. \A v \in Users : requests'[v] >= requests[v]
      BY <1>0 DEF TypeInv, TypeOK
    <2> QED BY <1>1, <2>1 DEF OwnersGrow
  <1>3. \A v \in Users : KeysOf(v)' = KeysOf(v)
    <2> SUFFICES ASSUME NEW v \in Users, NEW k PROVE k \in KeysOf(v)' <=> k \in KeysOf(v)
      OBVIOUS
    <2> QED BY KeysOfAreNext DEF KeysAre
  <1>4. \A v \in Users : AccountOwns(v)'
    <2> SUFFICES ASSUME NEW v \in Users, v # u PROVE AccountOwns(v)'
      OBVIOUS
    <2> QED BY <1>0, <1>2, <1>3, KeysParts, AccountKept
  <1>5. \A k \in credited : IsClaimed(k)'
    BY KeysParts DEF IsClaimed
  <1>6. Numbered'
    BY KeysParts DEF Numbered
  <1> QED BY <1>2, <1>4, <1>5, <1>6, KeysParts, OwnStep

\* A step of a tab that stores no account, no claim and no credit.
LEMMA LookStep ==
  ASSUME KeysInv, PagesInv', \A q : ClaimsOf(q)' = ClaimsOf(q), PagesGrow,
         UNCHANGED <<account, requests, credited, ledger>>,
         NEW s \in Tabs, NEW t, tab' = [tab EXCEPT ![s] = t], Owns(t)'
  PROVE  OwnInv'
  <1>1. CASE Users = {}
    <2>1. OwnersGrow /\ IsFiniteSet(credited') /\ \A k \in credited' : IsClaimed(k)'
      BY <1>1, KeysParts DEF OwnersGrow, Uuids, IsClaimed
    <2>2. Numbered'
      BY <1>1 DEF Numbered, Uuids
    <2> QED BY <1>1, <2>1, <2>2, OwnStep
  <1>2. CASE Users # {}
    <2>1. PICK u \in Users : TRUE
      BY <1>2
    <2>2. KeysOf(u)' = KeysOf(u)
      <3> SUFFICES ASSUME NEW k PROVE k \in KeysOf(u)' <=> k \in KeysOf(u)
        OBVIOUS
      <3> QED BY KeysOfAreNext DEF KeysAre
    <2>3. AccountOwns(u)'
      BY <2>2, KeysParts DEF AccountOwns, Unpaid
    <2> QED BY <2>3, AccountStep
  <1> QED BY <1>1, <1>2

LEMMA IdleOwns ==
  ASSUME NEW t, t.pc \in {"closed", "key"}
  PROVE  Owns(t)
  BY DEF Owns, Getting, Walking, Filling

\* A request goes on.
LEMMA OwnsOn ==
  ASSUME NEW t, t.pc \in Getting, Owns(t),
         NEW r, r.pc \in Getting \ {"claimKey", "unlockAccount"},
         r.user = t.user, r.uuid = t.uuid, r.doc = t.doc
  PROVE  Owns(r)
  BY DEF Owns, UpToDate, Getting, Walking, Filling

LEMMA OwnsSame ==
  ASSUME NEW t, Owns(t), UNCHANGED <<account, requests, credited, page>>
  PROVE  Owns(t)'
  <1>1. \A q : ClaimsOf(q)' = ClaimsOf(q)
    BY SamePages
  <1> QED BY <1>1 DEF Owns, UpToDate, Unpaid

\* A tab that makes no step on an account, nor of a claim or a credit.
LEMMA WaitStep ==
  ASSUME KeysInv, PagesInv', UNCHANGED <<account, requests, credited, ledger, page>>,
         NEW s \in Tabs, NEW t, tab' = [tab EXCEPT ![s] = t], Owns(t)
  PROVE  OwnInv'
  BY OwnsSame, SamePages, LookStep

LEMMA NothingOwn ==
  ASSUME KeysInv, PagesInv', UNCHANGED <<account, requests, credited, ledger, page>>,
         NEW s \in Tabs, Nothing(s)
  PROVE  OwnInv'
  <1>1. Owns(NewTab)
    BY NewTabKnows, IdleOwns
  <1>2. tab' = [tab EXCEPT ![s] = NewTab]
    BY DEF Nothing, Become
  <1> QED BY <1>1, <1>2, WaitStep, Zenon

LEMMA ShowKeyOwn ==
  ASSUME KeysInv, PagesInv', UNCHANGED <<account, requests, credited, ledger, page>>,
         NEW s \in Tabs, NEW u, NEW k, ShowKey(s, u, k)
  PROVE  OwnInv'
  <1> DEFINE t == [NewTab EXCEPT !.user = u, !.pc = "key", !.pay = k]
  <1>1. tab' = [tab EXCEPT ![s] = t] /\ t.pc = "key"
    BY DEF ShowKey, Become, NewTab
  <1> HIDE DEF t
  <1>2. Owns(t)
    BY <1>1, IdleOwns
  <1> QED BY <1>1, <1>2, WaitStep, Zenon

LEMMA WaitOn ==
  ASSUME KeysInv, PagesInv', UNCHANGED <<account, requests, credited, ledger, page>>,
         NEW s \in Tabs, tab[s].pc \in Getting,
         NEW r, tab' = [tab EXCEPT ![s] = r], r.pc \in Getting \ {"claimKey", "unlockAccount"},
         r.user = tab[s].user, r.uuid = tab[s].uuid, r.doc = tab[s].doc
  PROVE  OwnInv'
  <1>1. Owns(tab[s])
    BY KeysParts
  <1>2. Owns(r)
    BY <1>1, OwnsOn
  <1> QED BY <1>2, WaitStep, Zenon

LEMMA FillsOwn ==
  ASSUME KeysInv, PagesInv', NEW s \in Tabs,
         \/ hugeCurrentPageGetComplete(s) \/ lockSet(s) \/ getHugePage(s) \/ changeHugeCur(s)
         \/ claimRange(s) \/ relockSet(s) \/ unlockSet(s) \/ analyzeCurrentPage(s)
  PROVE  OwnInv'
  <1>0. PICK t : t = tab[s] /\ t \in Tab
    BY KeysParts
  <1>1. UNCHANGED <<account, requests, credited, ledger, page>>
    BY DEF hugeCurrentPageGetComplete, lockSet, getHugePage, changeHugeCur, claimRange, relockSet,
           unlockSet, analyzeCurrentPage, docs, rest, hist
  <1>2. CASE Nothing(s)
    BY <1>1, <1>2, NothingOwn
  <1>3. CASE \E r : /\ tab' = [tab EXCEPT ![s] = r] /\ r.pc \in Getting \ {"claimKey", "unlockAccount"}
                    /\ r.user = t.user /\ r.uuid = t.uuid /\ r.doc = t.doc /\ t.pc \in Getting
    <2>1. PICK r : /\ tab' = [tab EXCEPT ![s] = r] /\ r.pc \in Getting \ {"claimKey", "unlockAccount"}
                   /\ r.user = t.user /\ r.uuid = t.uuid /\ r.doc = t.doc /\ t.pc \in Getting
      BY <1>3
    <2> QED BY <1>0, <1>1, <2>1, WaitOn
  <1> DEFINE On(r) == /\ r.pc \in Getting \ {"claimKey", "unlockAccount"}
                      /\ r.user = t.user /\ r.uuid = t.uuid /\ r.doc = t.doc
  <1>4. CASE hugeCurrentPageGetComplete(s)
    <2> DEFINE r == [t EXCEPT !.pc = "lockSet", !.fromCur = TRUE, !.hugeCas = hugeCur.cas,
                              !.z = hugeCur.page, !.z0 = hugeCur.page]
    <2>1. tab' = [tab EXCEPT ![s] = r] /\ t.pc \in Getting
      BY <1>0, <1>4 DEF hugeCurrentPageGetComplete, Become, Getting, Walking
    <2>2. On(r)
      BY <1>0 DEF Tab, Getting, Walking
    <2> HIDE DEF r
    <2> QED BY <1>3, <2>1, <2>2
  <1>5. CASE lockSet(s)
    <2> DEFINE r == [t EXCEPT !.pc = "getHugePage", !.cas = cur[t.set].cas + 1]
    <2>1. (tab' = [tab EXCEPT ![s] = r] \/ Nothing(s)) /\ t.pc \in Getting
      BY <1>0, <1>5 DEF lockSet, Become, Getting, Walking
    <2>2. On(r)
      BY <1>0 DEF Tab, Getting, Filling
    <2> HIDE DEF r
    <2> QED BY <1>2, <1>3, <2>1, <2>2
  <1>6. CASE getHugePage(s)
    <2> DEFINE found == ClaimedFor(huge[t.z], Fill(t))
               r0 == [t EXCEPT !.pc = "relockSet"]
               r1 == [t EXCEPT !.pc = "addPage", !.range = <<t.z, Min(found)>>]
               r2 == [t EXCEPT !.pc = "claimRange", !.seen = huge[t.z],
                               !.range = <<t.z, Len(huge[t.z]) + 1>>]
               r3 == [t EXCEPT !.pc = IF t.fromCur THEN "changeHugeCur" ELSE @, !.z = @ + 1]
    <2>1. t.pc = "getHugePage" /\ t.pc \in Getting
      BY <1>0, <1>6 DEF getHugePage, Getting, Filling
    <2>2. \/ Nothing(s)
          \/ \E r \in {r0, r1, r2, r3} : tab' = [tab EXCEPT ![s] = r]
      BY <1>0, <1>6, Zenon DEF getHugePage, Become
    <2>3. On(r0) /\ On(r1) /\ On(r2)
      BY <1>0 DEF Tab, Getting, Filling
    <2>4. On(r3)
      BY <1>0, <2>1 DEF Tab, Getting, Filling
    <2> HIDE DEF r0, r1, r2, r3
    <2>5. \A r \in {r0, r1, r2, r3} : On(r)
      BY <2>3, <2>4
    <2> QED BY <1>2, <1>3, <2>1, <2>2, <2>5
  <1>7. CASE changeHugeCur(s)
    <2> DEFINE r == [t EXCEPT !.pc = "getHugePage"]
    <2>1. tab' = [tab EXCEPT ![s] = r] /\ t.pc \in Getting
      BY <1>0, <1>7 DEF changeHugeCur, Become, Getting, Filling
    <2>2. On(r)
      BY <1>0 DEF Tab, Getting, Filling
    <2> HIDE DEF r
    <2> QED BY <1>3, <2>1, <2>2
  <1>8. CASE claimRange(s)
    <2> DEFINE r1 == [t EXCEPT !.pc = "addPage", !.seen = <<>>]
               r2 == [t EXCEPT !.pc = "getHugePage", !.seen = <<>>]
    <2>1. \E r \in {r1, r2} : tab' = [tab EXCEPT ![s] = r]
      BY <1>0, <1>8, Zenon DEF claimRange, Become
    <2>2. t.pc \in Getting
      BY <1>0, <1>8 DEF claimRange, Getting, Filling
    <2>3. On(r1) /\ On(r2)
      BY <1>0 DEF Tab, Getting, Filling
    <2> HIDE DEF r1, r2
    <2> QED BY <1>3, <2>1, <2>2, <2>3
  <1>9. CASE relockSet(s)
    BY <1>2, <1>9 DEF relockSet
  <1>10. CASE unlockSet(s)
    <2> DEFINE r1 == [t EXCEPT !.pc = IF t.again THEN "getPage" ELSE "lockAccount"]
               r2 == [t EXCEPT !.pc = "analyze"]
    <2>1. \E r \in {r1, r2} : tab' = [tab EXCEPT ![s] = r]
      BY <1>0, <1>10, Zenon DEF unlockSet, Become, Proceeding
    <2>2. t.pc \in Getting
      BY <1>0, <1>10 DEF unlockSet, Getting, Filling
    <2>3. On(r1) /\ On(r2)
      BY <1>0 DEF Tab, Getting, Walking
    <2> HIDE DEF r1, r2
    <2> QED BY <1>3, <2>1, <2>2, <2>3
  <1>11. CASE analyzeCurrentPage(s)
    <2> DEFINE c == cur[t.set]
               r1 == [t EXCEPT !.pc = "getHugePage", !.cas = c.cas, !.page = c.page,
                               !.z = c.from, !.z0 = c.from, !.fromCur = FALSE]
               mid == [t EXCEPT !.cas = c.cas, !.page = IF @ = 0 THEN c.page ELSE @]
               r2 == Proceeding(mid)
    <2>1. \E r \in {r1, r2} : tab' = [tab EXCEPT ![s] = r]
      BY <1>0, <1>11, Zenon DEF analyzeCurrentPage, Become
    <2>2. t.pc \in Getting
      BY <1>0, <1>11 DEF analyzeCurrentPage, Getting
    <2>3. On(r1)
      BY <1>0 DEF Tab, Getting, Filling
    <2>4. On(r2)
      BY <1>0 DEF Tab, Getting, Walking, Proceeding
    <2> HIDE DEF r1, r2
    <2> QED BY <1>3, <2>1, <2>2, <2>3, <2>4
  <1> QED BY <1>4, <1>5, <1>6, <1>7, <1>8, <1>9, <1>10, <1>11

LEMMA CheckedOwn ==
  ASSUME KeysInv, PagesInv', NEW s \in Tabs, NEW u \in Users, checkNotAttemptingThenTransition(s, u)
  PROVE  OwnInv'
  <1>0. /\ UNCHANGED <<account, cur, page, huge, hugeCur, credited, ledger, jumped>>
        /\ account[u].state \in {"GettingKey", "NoKey"}
    BY Zenon DEF checkNotAttemptingThenTransition, docs, hist
  <1>1. /\ TypeInv /\ TypeInv' /\ AccountOwns(u) /\ AccountWired(u) /\ account[u] \in Account
        /\ requests \in [Users -> Nat]
    BY KeysParts DEF TypeInv, TypeOK, PagesInv
  <1>2. CASE account[u].state = "GettingKey"
    <2> DEFINE t == Recovering(u, account[u])
    <2>1. tab' = [tab EXCEPT ![s] = t] /\ UNCHANGED requests
      BY <1>2 DEF checkNotAttemptingThenTransition, Become
    <2>2. /\ t.pc = "analyze" /\ t.user = u /\ t.uuid = account[u].uuid /\ t.doc = account[u]
      BY <1>1, NewTabType DEF Recovering, Tab
    <2>3. account[u].uuid[2] <= requests[u] /\ Unpaid(account[u].uuid)
      BY <1>1, <1>2 DEF AccountOwns
    <2>4. PICK a : a = account[u] /\ a.cas \in Nat
      BY <1>1 DEF Account
    <2> HIDE DEF t
    <2>5. Owns(t)
      BY <2>2, <2>3, <2>4 DEF Owns, UpToDate, Getting, Walking, Filling
    <2> QED BY <1>0, <2>1, <2>5, WaitStep
  <1>3. CASE account[u].state = "NoKey"
    <2>1. PICK n \in Sets :
            tab' = [tab EXCEPT ![s] = [NewTab EXCEPT !.user = u, !.pc = "analyze", !.doc = account[u],
                                      !.set = n, !.uuid = <<u, requests[u] + 1>>]]
      BY <1>3, Zenon DEF checkNotAttemptingThenTransition, Become
    <2>2. requests' = [requests EXCEPT ![u] = requests[u] + 1]
      BY <1>3, Zenon DEF checkNotAttemptingThenTransition
    <2>0. PICK t, q : /\ t = [NewTab EXCEPT !.user = u, !.pc = "analyze", !.doc = account[u],
                                           !.set = n, !.uuid = <<u, requests[u] + 1>>]
                      /\ q = <<u, requests[u] + 1>>
      OBVIOUS
    <2>3. tab' = [tab EXCEPT ![s] = t]
      BY <2>0, <2>1
    <2>4. /\ t.pc = "analyze" /\ t.user = u /\ t.uuid = q /\ t.doc = account[u]
      BY <2>0, NewTabType DEF Tab
    <2>5. q[1] = u /\ q[2] = requests[u] + 1
      BY <2>0
    <2>6. t \in Tab /\ Wired(t)'
      <3>1. tab'[s] = t
        BY <1>1, <2>3 DEF TypeInv, TypeOK
      <3>2. PICK r : r = tab'[s] /\ r \in Tab
        BY <1>1 DEF TypeInv, TypeOK
      <3>3. Wired(r)'
        BY <1>1, <3>2 DEF TypeInv, Wired
      <3> QED BY <3>1, <3>2, <3>3 DEF Wired
    <2>7. q \in Uuids
      BY <2>4, <2>6 DEF Wired, Getting
    <2>8. ClaimsOf(q) = {}
      <3>1. requests[u] \in Nat
        BY <1>1
      <3>2. ~(q[2] <= requests[q[1]])
        BY <2>5, <3>1
      <3> QED BY <2>7, <3>2, KeysParts DEF Numbered
    <2>9. /\ PagesGrow /\ (\A r : ClaimsOf(r)' = ClaimsOf(r)) /\ (\A v : KeysOf(v)' = KeysOf(v))
      BY <1>0, SamePages
    <2>10. \A r : Unpaid(r)' <=> Unpaid(r)
      BY <1>0, <2>9 DEF Unpaid
    <2>11. \A v \in Users : requests'[v] >= requests[v]
      BY <1>1, <2>2
    <2>12. OwnersGrow
      BY <1>0, <2>9, <2>10, <2>11 DEF OwnersGrow
    <2>13. Owns(t)'
      <3>1. Unpaid(q)'
        BY <2>8, <2>9 DEF Unpaid
      <3>2. t.uuid = q /\ t.uuid[2] = requests'[u]
        BY <1>1, <2>2, <2>4, <2>5
      <3>3. requests'[u] \in Nat
        BY <1>1 DEF TypeInv, TypeOK
      <3>4. PICK a : a = account[u] /\ a.cas \in Nat
        BY <1>1 DEF Account
      <3>5. t.doc = a /\ account'[t.user] = a
        BY <1>0, <2>4, <3>4
      <3>6. t.uuid[2] <= requests'[t.user]
        BY <2>4, <3>2, <3>3
      <3> QED BY <2>4, <3>1, <3>2, <3>4, <3>5, <3>6 DEF Owns, UpToDate, Getting, Walking, Filling
    <2>14. \A v \in Users : AccountOwns(v)'
      BY <1>0, <1>1, <2>9, <2>12, KeysParts, AccountKept
    <2>15. Numbered'
      <3> SUFFICES ASSUME NEW r \in Uuids, ClaimsOf(r) # {}
                   PROVE  r[2] <= requests'[r[1]]
        BY <2>9 DEF Numbered
      <3>1. r[2] <= requests[r[1]] /\ r[1] \in Users /\ r[2] \in Nat
        BY KeysParts DEF Numbered, Uuids
      <3>2. requests[r[1]] \in Nat /\ requests'[r[1]] \in Nat /\ requests'[r[1]] >= requests[r[1]]
        BY <1>1, <2>11, <3>1 DEF TypeInv, TypeOK
      <3> QED BY <3>1, <3>2
    <2>16. IsFiniteSet(credited') /\ \A k \in credited' : IsClaimed(k)'
      BY <1>0, <2>9, KeysParts DEF IsClaimed
    <2> QED BY <2>3, <2>9, <2>12, <2>13, <2>14, <2>15, <2>16, OwnStep
  <1> QED BY <1>0, <1>2, <1>3

\* What is found on a page belongs to the request.
LEMMA LookedAtOwns ==
  ASSUME TypeInv, NEW t \in Tab, Wired(t), Owns(t), t.pc \in {"getPage", "getNextPage"},
         Exists(t.set, t.page), NEW k, k = LookedAt(t, page[t.set][t.page])
  PROVE  Owns(k)
  <1>1. PICK p : p = page[t.set][t.page]
    OBVIOUS
  <1>2. t.set \in Sets /\ t.page \in Pages
    BY DEF Wired, Getting, Walking
  <1>3. p \in KeyPage
    BY <1>1, <1>2 DEF TypeInv, TypeOK, Exists
  <1>4. p.claims \in Seq(Uuids)
    BY <1>3 DEF KeyPage
  <1> DEFINE found == ClaimedFor(p.claims, t.uuid)
             r1 == [t EXCEPT !.pc = "unlockAccount", !.key = <<p.range, Min(found)>>]
             r2 == [t EXCEPT !.pc = "claimKey", !.seen = p.claims, !.key = <<p.range, Len(p.claims) + 1>>]
             r3 == [t EXCEPT !.pc = "getNextPage", !.page = @ + 1]
  <1>5. \/ k = r1 /\ found # {}
        \/ k = r2 \/ k = r3
    BY <1>1, Zenon DEF LookedAt
  <1>6. CASE k = r1 /\ found # {}
    <2>1. Min(found) \in 1..Len(p.claims) /\ p.claims[Min(found)] = t.uuid
      BY <1>4, <1>6, ClaimedForIsIn
    <2>2. PICK i \in Nat : i = Min(found)
      BY <1>4, <2>1
    <2>3. <<p.range, i>> \in ClaimsOf(t.uuid)
      <3>1. ClaimAt(t.set, t.page, i, t.uuid) /\ <<p.range, i>> = KeyAt(t.set, t.page, i)
        BY <1>1, <2>1, <2>2 DEF ClaimAt, KeyAt
      <3>2. ClaimsAre
        BY ClaimsOfAre
      <3> QED BY <1>2, <3>1, <3>2 DEF ClaimsAre
    <2>4. /\ r1.pc = "unlockAccount" /\ r1.user = t.user /\ r1.uuid = t.uuid /\ r1.doc = t.doc
          /\ r1.key = <<p.range, i>>
      BY <2>2 DEF Tab
    <2> HIDE DEF r1
    <2> QED BY <1>6, <2>3, <2>4 DEF Owns, UpToDate, Getting, Walking, Filling
  <1>7. CASE k = r2
    <2>1. /\ r2.pc = "claimKey" /\ r2.user = t.user /\ r2.uuid = t.uuid /\ r2.doc = t.doc
          /\ r2.key = <<p.range, Len(p.claims) + 1>> /\ r2.seen = p.claims
          /\ r2.set = t.set /\ r2.page = t.page
      BY DEF Tab
    <2> HIDE DEF r2
    <2>2. r2.key = <<page[r2.set][r2.page].range, Len(r2.seen) + 1>>
      BY <1>1, <2>1
    <2> QED BY <1>7, <2>1, <2>2 DEF Owns, UpToDate, Getting, Walking, Filling
  <1>8. CASE k = r3
    <2>1. /\ r3.pc = "getNextPage" /\ r3.user = t.user /\ r3.uuid = t.uuid /\ r3.doc = t.doc
      BY DEF Tab
    <2> HIDE DEF r3
    <2> QED BY <1>8, <2>1 DEF Owns, UpToDate, Getting, Walking, Filling
  <1> QED BY <1>5, <1>6, <1>7, <1>8

LEMMA GetPageOwn ==
  ASSUME KeysInv, PagesInv', NEW s \in Tabs, getPage(s) \/ getNextPage(s)
  PROVE  OwnInv'
  <1>0. PICK t : t = tab[s] /\ t \in Tab /\ Wired(t) /\ Owns(t)
    BY KeysParts
  <1>1. UNCHANGED <<account, requests, credited, ledger, page>> /\ t.pc \in {"getPage", "getNextPage"}
    BY <1>0 DEF getPage, getNextPage, docs, rest, hist
  <1>2. CASE ~Exists(t.set, t.page)
    <2> DEFINE r == [t EXCEPT !.pc = "getHugeCur"]
    <2>1. Nothing(s) \/ tab' = [tab EXCEPT ![s] = r]
      BY <1>0, <1>2 DEF getPage, getNextPage, Become, Exists
    <2>2. r.pc = "getHugeCur" /\ r.user = t.user /\ r.uuid = t.uuid /\ r.doc = t.doc
      BY <1>0 DEF Tab
    <2> HIDE DEF r
    <2>3. t.pc \in Getting /\ r.pc \in Getting \ {"claimKey", "unlockAccount"}
      BY <1>1, <2>2 DEF Getting, Walking
    <2> QED BY <1>0, <1>1, <2>1, <2>2, <2>3, NothingOwn, WaitOn
  <1>3. CASE Exists(t.set, t.page)
    <2>1. PICK k : k = LookedAt(t, page[t.set][t.page])
      OBVIOUS
    <2>2. tab' = [tab EXCEPT ![s] = k]
      BY <1>0, <1>3, <2>1 DEF getPage, getNextPage, Become, Exists
    <2>3. Owns(k)
      BY <1>0, <1>1, <1>3, <2>1, KeysParts, LookedAtOwns
    <2> QED BY <1>1, <2>2, <2>3, WaitStep
  <1> QED BY <1>2, <1>3

LEMMA LockAccountOwn ==
  ASSUME KeysInv, PagesInv', NEW s \in Tabs, lockAccount(s)
  PROVE  OwnInv'
  <1>0. PICK t, u : /\ t = tab[s] /\ t \in Tab /\ Wired(t) /\ Owns(t) /\ u = t.user
    BY KeysParts
  <1>1. UNCHANGED <<page, requests, credited, ledger>> /\ t.pc = "lockAccount"
    BY <1>0 DEF lockAccount, rest, hist
  <1>2. /\ TypeInv /\ u \in Users /\ t.doc \in Account /\ t.uuid \in Uuids
        /\ account \in [Users -> Account] /\ AccountOwns(u)
    BY <1>0, <1>1, KeysParts DEF Wired, Getting, Walking, Tab, TypeInv, TypeOK
  <1>3. CASE CasMatches(t.doc.cas, account[u])
    <2>1. PICK a, r :
            /\ a = [t.doc EXCEPT !.cas = account[u].cas + 1, !.state = "GettingKey",
                                 !.set = t.set, !.page = t.page, !.uuid = t.uuid]
            /\ r = [t EXCEPT !.pc = "getPage", !.doc.cas = account[u].cas + 1]
      OBVIOUS
    <2>2. a.cas = account[u].cas + 1
      BY <1>2, <2>1 DEF Account
    <2>3. account' = [account EXCEPT ![u] = a] /\ tab' = [tab EXCEPT ![s] = r]
      <3>1. r = [t EXCEPT !.pc = "getPage", !.doc.cas = a.cas]
        BY <2>1, <2>2
      <3> QED BY <1>0, <1>3, <2>1, <3>1, Zenon DEF lockAccount, Become, Mine
    <2>4. /\ a.state = "GettingKey" /\ a.uuid = t.uuid /\ a.balance = t.doc.balance
      BY <1>2, <2>1 DEF Account
    <2>5. /\ r.pc = "getPage" /\ r.user = u /\ r.uuid = t.uuid
          /\ r.doc.cas = a.cas /\ r.doc.balance = t.doc.balance
      BY <1>0, <1>2, <2>1, <2>2 DEF Tab, Account
    <2>6. account[u].cas \in Nat /\ a.cas \in Nat /\ a.cas > account[u].cas
      BY <1>2, <2>2 DEF Account
    <2>7. /\ t.uuid[2] <= requests[u] /\ Unpaid(t.uuid) /\ t.doc.balance = account[u].balance
      BY <1>0, <1>1, <1>3 DEF Owns, UpToDate, CasMatches, Getting, Walking
    <2>8. account'[u] = a /\ \A v \in Users : v # u => account'[v] = account[v]
      BY <1>2, <2>3
    <2>9. PagesGrow /\ (\A q : ClaimsOf(q)' = ClaimsOf(q)) /\ (\A v : KeysOf(v)' = KeysOf(v))
      BY <1>1, SamePages
    <2>10. \A q : Unpaid(q)' <=> Unpaid(q)
      BY <1>1, <2>9 DEF Unpaid
    <2>11. AccountOwns(u)'
      BY <1>1, <1>2, <2>4, <2>7, <2>8, <2>9, <2>10 DEF AccountOwns
    <2>12. Owns(r)'
      BY <1>1, <2>4, <2>5, <2>6, <2>7, <2>8, <2>10 DEF Owns, UpToDate, Getting, Walking, Filling
    <2> QED BY <1>1, <1>2, <2>3, <2>6, <2>8, <2>9, <2>11, <2>12, AccountStep
  <1>4. CASE ~CasMatches(t.doc.cas, account[u])
    <2>1. Nothing(s) /\ UNCHANGED account
      BY <1>0, <1>4 DEF lockAccount, Mine
    <2> QED BY <1>1, <2>1, NothingOwn
  <1> QED BY <1>3, <1>4

LEMMA UnlockAccountOwn ==
  ASSUME KeysInv, PagesInv', NEW s \in Tabs, unlockAccount(s)
  PROVE  OwnInv'
  <1>0. PICK t, u : /\ t = tab[s] /\ t \in Tab /\ Wired(t) /\ Owns(t) /\ u = t.user
    BY KeysParts
  <1>1. UNCHANGED <<page, requests, credited, ledger>> /\ t.pc = "unlockAccount"
    BY <1>0 DEF unlockAccount, rest, hist
  <1>2. /\ TypeInv /\ u \in Users /\ t.doc \in Account /\ t.uuid \in Uuids /\ t.uuid[1] = u
        /\ account \in [Users -> Account] /\ AccountOwns(u)
    BY <1>0, <1>1, KeysParts DEF Wired, Getting, Walking, Tab, TypeInv, TypeOK
  <1>3. CASE CasMatches(t.doc.cas, account[u])
    <2>1. PICK a, r :
            /\ a = [t.doc EXCEPT !.cas = account[u].cas + 1, !.state = "HaveKey", !.key = t.key,
                                 !.set = NoKey, !.page = 0, !.uuid = NoUuid]
            /\ r = [NewTab EXCEPT !.user = u, !.pc = "key", !.pay = t.key]
      OBVIOUS
    <2>2. a.cas = account[u].cas + 1
      BY <1>2, <2>1 DEF Account
    <2>3. account' = [account EXCEPT ![u] = a] /\ tab' = [tab EXCEPT ![s] = r]
      BY <1>0, <1>3, <2>1, Zenon DEF unlockAccount, Become, ShowKey, Mine
    <2>4. a.state = "HaveKey" /\ a.key = t.key /\ a.balance = t.doc.balance
      BY <1>2, <2>1 DEF Account
    <2>5. r.pc = "key"
      BY <2>1 DEF NewTab
    <2>6. account[u].cas \in Nat /\ a.cas \in Nat /\ a.cas > account[u].cas
      BY <1>2, <2>2 DEF Account
    <2>7. /\ Unpaid(t.uuid) /\ t.doc.balance = account[u].balance /\ t.key \in ClaimsOf(t.uuid)
      BY <1>0, <1>1, <1>3 DEF Owns, UpToDate, CasMatches, Getting, Walking
    <2>8. account'[u] = a /\ \A v \in Users : v # u => account'[v] = account[v]
      BY <1>2, <2>3
    <2>9. PagesGrow /\ (\A q : ClaimsOf(q)' = ClaimsOf(q)) /\ (\A v : KeysOf(v)' = KeysOf(v))
      BY <1>1, SamePages
    <2>10. t.key \in KeysOf(u) /\ t.key \notin credited
      BY <1>2, <2>7, KeysOfAre DEF Unpaid
    <2>11. AccountOwns(u)'
      BY <1>1, <1>2, <2>4, <2>7, <2>8, <2>9, <2>10 DEF AccountOwns
    <2>12. Owns(r)'
      BY <2>5 DEF Owns, Getting, Walking, Filling
    <2> QED BY <1>1, <1>2, <2>3, <2>6, <2>8, <2>9, <2>11, <2>12, AccountStep
  <1>4. CASE ~CasMatches(t.doc.cas, account[u])
    <2>1. Nothing(s) /\ UNCHANGED account
      BY <1>0, <1>4 DEF unlockAccount, Mine
    <2> QED BY <1>1, <2>1, NothingOwn
  <1> QED BY <1>3, <1>4

LEMMA DoneSendingOwn ==
  ASSUME KeysInv, PagesInv', NEW s \in Tabs, doneSendingBitcoins(s)
  PROVE  OwnInv'
  <1>0. PICK t : t = tab[s] /\ t \in Tab /\ Wired(t) /\ Owns(t)
    BY KeysParts
  <1>5. PICK r : r = [t EXCEPT !.pc = "credit", !.doc = account[t.user]]
    OBVIOUS
  <1>1. UNCHANGED <<account, requests, credited, ledger, page>> /\ t.pc = "key"
    BY <1>0 DEF doneSendingBitcoins, docs, rest, hist
  <1>2. t.user \in Users /\ account[t.user] \in Account
    BY <1>0, <1>1, KeysParts DEF Wired, TypeInv, TypeOK
  <1>3. CASE MayCredit(account[t.user], t.pay)
    <2>1. tab' = [tab EXCEPT ![s] = r]
      BY <1>0, <1>5, <1>3 DEF doneSendingBitcoins, Become, Mine
    <2>2. /\ r.pc = "credit" /\ r.user = t.user /\ r.doc = account[t.user] /\ r.pay = t.pay
      BY <1>0, <1>5 DEF Tab
    <2>3. PICK a : a = account[t.user] /\ a.cas \in Nat /\ a.state = "HaveKey" /\ a.key = t.pay
      BY <1>2, <1>3 DEF MayCredit, Account
    <2>4. Owns(r)
      BY <2>2, <2>3 DEF Owns, UpToDate, Getting, Walking, Filling
    <2> QED BY <1>1, <2>1, <2>4, WaitStep
  <1>4. CASE ~MayCredit(account[t.user], t.pay)
    <2>1. tab' = [tab EXCEPT ![s] = t]
      BY <1>0, <1>4, KeysParts DEF doneSendingBitcoins, Mine, TypeInv, TypeOK
    <2> QED BY <1>0, <1>1, <2>1, WaitStep
  <1> QED BY <1>3, <1>4

\* A key is claimed on a page that is as the tab has seen it: one claim more, of
\* a key that nobody has.
LEMMA OneClaimMore ==
  ASSUME KeysInv, TypeInv', NEW s \in Tabs, claimKey(s), NEW t, t = tab[s],
         Unchanged(t.seen, page[t.set][t.page].claims)
  PROVE  /\ PagesGrow
         /\ \A q : ClaimsOf(q)' = ClaimsOf(q) \cup (IF q = t.uuid THEN {t.key} ELSE {})
         /\ \A q : t.key \notin ClaimsOf(q)
  <1>1. t.pc = "claimKey" /\ PagesInv /\ TypeInv /\ t \in Tab /\ Wired(t) /\ Knows(t) /\ Owns(t)
    BY KeysParts DEF claimKey
  <1>2. PICK n, y, p, l :
          /\ n = t.set /\ y = t.page /\ l = Len(t.seen) + 1
          /\ p = [page[n][y] EXCEPT !.claims = Append(t.seen, t.uuid)]
    OBVIOUS
  <1>3. n \in Sets /\ y \in Pages /\ Exists(n, y)
    BY <1>1, <1>2 DEF Wired, Getting, Walking, Knows
  <1>4. t.uuid \in Uuids /\ t.seen \in Seq(Uuids) /\ l \in Nat
    BY <1>1, <1>2 DEF Wired, Getting, Walking
  <1>5. page \in [Sets -> [Pages -> KeyPage \cup {NoPage}]] /\ page[n][y] \in KeyPage
    BY <1>1, <1>3 DEF TypeInv, TypeOK, Exists
  <1>6. t.seen = page[n][y].claims /\ t.key = KeyAt(n, y, l)
    BY <1>1, <1>2 DEF Unchanged, Owns, KeyAt
  <1>7. p.range = page[n][y].range /\ p.claims = Append(t.seen, t.uuid) /\ p # NoPage
    <2>1. p.range = page[n][y].range /\ p.claims = Append(t.seen, t.uuid)
      BY <1>2, <1>5 DEF KeyPage
    <2>2. Append(t.seen, t.uuid) \in Seq(Uuids)
      BY <1>4
    <2>3. p \in KeyPage
      BY <1>2, <1>5, <2>2 DEF KeyPage
    <2> QED BY <2>1, <2>3, NoPageAssumption
  <1>8. \A m \in Sets, x \in Pages : page'[m][x] = IF m = n /\ x = y THEN p ELSE page[m][x]
    <2>1. page' = [page EXCEPT ![n][y] = p]
      BY <1>1, <1>2 DEF claimKey
    <2> QED BY <1>3, <1>5, <2>1
  <1>9. PagesGrow
    BY <1>3, <1>7, <1>8 DEF PagesGrow, Exists
  <1>10. ClaimsAre /\ ClaimsAre'
    BY <1>1, ClaimsOfAre, ClaimsOfAreNext
  <1>11. \A m \in Sets, x \in Pages : \A i : KeyAt(m, x, i)' = KeyAt(m, x, i)
    BY <1>7, <1>8 DEF KeyAt
  <1>12. /\ Len(p.claims) = l /\ p.claims[l] = t.uuid /\ Len(t.seen) \in Nat
         /\ \A i \in 1..Len(t.seen) : p.claims[i] = t.seen[i]
    BY <1>2, <1>4, <1>7
  <1>13. \A m \in Sets, x \in Pages : \A i \in Nat : \A q :
           ClaimAt(m, x, i, q)' <=>
             ClaimAt(m, x, i, q) \/ (m = n /\ x = y /\ i = l /\ q = t.uuid)
    <2> SUFFICES ASSUME NEW m \in Sets, NEW x \in Pages, NEW i \in Nat, NEW q
                 PROVE  ClaimAt(m, x, i, q)' <=>
                          ClaimAt(m, x, i, q) \/ (m = n /\ x = y /\ i = l /\ q = t.uuid)
      OBVIOUS
    <2>1. CASE m = n /\ x = y
      <3>1. page'[m][x] = p /\ page[m][x] # NoPage /\ page[m][x].claims = t.seen
        BY <1>3, <1>6, <1>8, <2>1 DEF Exists
      <3>2. ClaimAt(m, x, i, q)' <=> i \in 1..l /\ p.claims[i] = q
        BY <1>7, <1>12, <3>1 DEF ClaimAt, Exists
      <3>3. ClaimAt(m, x, i, q) <=> i \in 1..Len(t.seen) /\ t.seen[i] = q
        BY <3>1 DEF ClaimAt, Exists
      <3>4. i \in 1..l <=> i \in 1..Len(t.seen) \/ i = l
        BY <1>2, <1>12
      <3>5. l \notin 1..Len(t.seen) /\ l \in 1..l
        BY <1>2, <1>12
      <3> QED BY <1>12, <2>1, <3>2, <3>3, <3>4, <3>5, Zenon
    <2>2. CASE ~(m = n /\ x = y)
      BY <1>8, <2>2 DEF ClaimAt, Exists
    <2> QED BY <2>1, <2>2
  <1>14. \A q : ClaimsOf(q)' = ClaimsOf(q) \cup (IF q = t.uuid THEN {t.key} ELSE {})
    <2> SUFFICES ASSUME NEW q, NEW k
                 PROVE  k \in ClaimsOf(q)' <=> k \in ClaimsOf(q) \/ (q = t.uuid /\ k = t.key)
      OBVIOUS
    <2>1. ASSUME k \in ClaimsOf(q)'
          PROVE  k \in ClaimsOf(q) \/ (q = t.uuid /\ k = t.key)
      <3>0. \E m \in Sets : \E x \in Pages : \E i \in Nat :
              ClaimAt(m, x, i, q)' /\ k = KeyAt(m, x, i)'
        BY <1>10, <2>1 DEF ClaimsAre
      <3>1. PICK m \in Sets, x \in Pages, i \in Nat : ClaimAt(m, x, i, q)' /\ k = KeyAt(m, x, i)'
        BY <3>0, Zenon
      <3>2. k = KeyAt(m, x, i) /\ (ClaimAt(m, x, i, q) \/ (m = n /\ x = y /\ i = l /\ q = t.uuid))
        BY <1>11, <1>13, <3>1
      <3> QED BY <1>6, <1>10, <3>2, Zenon DEF ClaimsAre
    <2>2. ASSUME k \in ClaimsOf(q) PROVE k \in ClaimsOf(q)'
      <3>1. PICK m \in Sets, x \in Pages, i \in Nat : ClaimAt(m, x, i, q) /\ k = KeyAt(m, x, i)
        BY <1>10, <2>2, ClaimsArePick
      <3>2. ClaimAt(m, x, i, q)' /\ k = KeyAt(m, x, i)'
        BY <1>11, <1>13, <3>1
      <3> QED BY <1>10, <3>2, Zenon DEF ClaimsAre
    <2>3. ASSUME q = t.uuid, k = t.key PROVE k \in ClaimsOf(q)'
      <3>1. ClaimAt(n, y, l, q)' /\ k = KeyAt(n, y, l)'
        BY <1>3, <1>4, <1>6, <1>11, <1>13, <2>3
      <3> QED BY <1>3, <1>4, <1>10, <3>1, Zenon DEF ClaimsAre
    <2> QED BY <2>1, <2>2, <2>3
  <1>15. ASSUME NEW q, t.key \in ClaimsOf(q) PROVE FALSE
    <2>1. PICK m \in Sets, x \in Pages, i \in Nat : ClaimAt(m, x, i, q) /\ t.key = KeyAt(m, x, i)
      BY <1>10, <1>15, ClaimsArePick
    <2>2. page[m][x].range = page[n][y].range /\ i = l /\ Exists(m, x) /\ i \in 1..Len(page[m][x].claims)
      BY <1>6, <2>1 DEF KeyAt, ClaimAt
    <2>3. m = n /\ x = y
      BY <1>1, <1>3, <2>2, KeysApart
    <2>4. l \in 1..Len(t.seen)
      BY <1>6, <2>2, <2>3
    <2> QED BY <1>2, <1>12, <2>4
  <1> QED BY <1>9, <1>14, <1>15

LEMMA ClaimKeyOwn ==
  ASSUME KeysInv, PagesInv', NEW s \in Tabs, claimKey(s)
  PROVE  OwnInv'
  <1>0. PICK t : t = tab[s] /\ t \in Tab /\ Wired(t) /\ Owns(t)
    BY KeysParts
  <1>6. PICK e : e = <<>>
    OBVIOUS
  <1>1. PICK r1, r2 :
          /\ r1 = [t EXCEPT !.pc = "unlockAccount", !.seen = e]
          /\ r2 = [t EXCEPT !.pc = "getPage", !.seen = e]
    OBVIOUS
  <1>2. t.pc = "claimKey" /\ t.pc \in Getting /\ UNCHANGED <<account, requests, credited, ledger>>
    BY <1>0 DEF claimKey, rest, hist, Getting, Walking
  <1>3. /\ r1.pc = "unlockAccount" /\ r1.user = t.user /\ r1.uuid = t.uuid /\ r1.doc = t.doc
        /\ r1.key = t.key
        /\ r2.pc = "getPage" /\ r2.user = t.user /\ r2.uuid = t.uuid /\ r2.doc = t.doc
    BY <1>0, <1>1 DEF Tab
  <1>4. CASE Unchanged(t.seen, page[t.set][t.page].claims)
    <2>1. PICK q0 : q0 = t.uuid /\ q0 \in Uuids /\ q0[1] = t.user /\ t.user \in Users
      BY <1>0, <1>2 DEF Wired, Getting, Walking
    <2>2. PICK k0 : k0 = t.key
      OBVIOUS
    <2>3. TypeInv /\ TypeInv'
      BY KeysParts DEF PagesInv
    <2>4. /\ PagesGrow
          /\ \A q : ClaimsOf(q)' = ClaimsOf(q) \cup (IF q = q0 THEN {k0} ELSE {})
          /\ \A q : k0 \notin ClaimsOf(q)
      BY <1>0, <1>4, <2>1, <2>2, <2>3, OneClaimMore
    <2>5. k0 \notin credited
      BY <2>4, KeysParts DEF IsClaimed
    <2>6. \A q \in Uuids : ClaimsOf(q) \subseteq ClaimsOf(q)' /\ (Unpaid(q) => Unpaid(q)')
      BY <1>2, <2>4, <2>5 DEF Unpaid
    <2>7. OwnersGrow
      <3>1. \A u \in Users : requests'[u] >= requests[u]
        BY <1>2, <2>3 DEF TypeInv, TypeOK
      <3> QED BY <1>2, <2>6, <3>1 DEF OwnersGrow
    <2>8. tab' = [tab EXCEPT ![s] = r1]
      BY <1>0, <1>1, <1>4, <1>6 DEF claimKey, Become
    <2>9. Owns(r1)'
      <3>1. k0 \in ClaimsOf(q0)'
        BY <2>4
      <3>2. q0[2] <= requests[t.user]
        BY <1>0, <1>2, <2>1 DEF Owns
      <3>3. /\ t.doc.cas <= account[t.user].cas
            /\ UpToDate(t) => t.doc.balance = account[t.user].balance /\ Unpaid(q0)
        BY <1>0, <1>2, <2>1 DEF Owns
      <3>4. Unpaid(q0) => Unpaid(q0)'
        BY <2>1, <2>6
      <3> QED BY <1>2, <1>3, <2>1, <2>2, <3>1, <3>2, <3>3, <3>4
              DEF Owns, UpToDate, Getting, Walking, Filling
    <2>10. \A u \in Users : AccountOwns(u)'
      <3> SUFFICES ASSUME NEW u \in Users PROVE AccountOwns(u)'
        OBVIOUS
      <3>1. ASSUME NEW k, k \in credited PROVE k \in KeysOf(u)' <=> k \in KeysOf(u)
        <4>1. \A q : k \in ClaimsOf(q)' <=> k \in ClaimsOf(q)
          BY <2>4, <2>5, <3>1
        <4> QED BY <4>1, KeysOfAreNext DEF KeysAre
      <3>2. credited' \cap KeysOf(u)' = credited \cap KeysOf(u)
        BY <1>2, <3>1
      <3> QED BY <1>2, <2>3, <2>7, <3>2, KeysParts, AccountKept
    <2>11. \A k \in credited' : IsClaimed(k)'
      BY <1>2, <2>6, KeysParts DEF IsClaimed
    <2>12. Numbered'
      <3> SUFFICES ASSUME NEW q \in Uuids, ClaimsOf(q)' # {} PROVE q[2] <= requests'[q[1]]
        BY DEF Numbered
      <3>1. CASE q = q0
        BY <1>0, <1>2, <2>1, <3>1 DEF Owns
      <3>2. CASE q # q0
        BY <1>2, <2>4, <3>2, KeysParts DEF Numbered
      <3> QED BY <3>1, <3>2
    <2> QED BY <1>2, <2>4, <2>7, <2>8, <2>9, <2>10, <2>11, <2>12, KeysParts, OwnStep
  <1>5. CASE ~Unchanged(t.seen, page[t.set][t.page].claims)
    <2>1. UNCHANGED page /\ tab' = [tab EXCEPT ![s] = r2]
      BY <1>0, <1>1, <1>5, <1>6 DEF claimKey, Become
    <2>2. r2.pc \in Getting \ {"claimKey", "unlockAccount"}
      BY <1>3 DEF Getting, Walking
    <2> QED BY <1>0, <1>2, <1>3, <2>1, <2>2, WaitOn
  <1> QED BY <1>4, <1>5

\* A new page holds no claims.
LEMMA AddPageOwn ==
  ASSUME KeysInv, PagesInv', NEW s \in Tabs, addPage(s)
  PROVE  OwnInv'
  <1>0. PICK t : t = tab[s] /\ t \in Tab /\ Wired(t) /\ Knows(t) /\ Owns(t)
    BY KeysParts
  <1>1. PICK n, y, r, p :
          /\ n = t.set /\ y = t.page /\ p = [range |-> t.range, claims |-> <<>>]
          /\ r = [t EXCEPT !.pc = "unlockSet", !.range = NoPage]
    OBVIOUS
  <1>2. /\ t.pc = "addPage" /\ t.pc \in Filling /\ t.pc \in Getting
        /\ UNCHANGED <<account, requests, credited, ledger>> /\ tab' = [tab EXCEPT ![s] = r]
    BY <1>0, <1>1 DEF addPage, Become, rest, hist, Getting, Filling
  <1>3. TypeInv /\ TypeInv'
    BY KeysParts DEF PagesInv
  <1>4. n \in Sets /\ y \in Pages /\ t.range \in Ranges
    BY <1>0, <1>1, <1>2 DEF Wired, Getting
  <1>5. 1 < y /\ y <= cur[n].page /\ At(t.range[1], t.range[2], <<n, y>>)
    BY <1>0, <1>1, <1>2 DEF Knows, Fill
  <1>6. page \in [Sets -> [Pages -> KeyPage \cup {NoPage}]]
    BY <1>3 DEF TypeInv, TypeOK
  <1>7. p # NoPage /\ p.range = t.range /\ Len(p.claims) = 0
    <2>1. p \in KeyPage
      BY <1>1, <1>4, EmptySeq DEF KeyPage
    <2> QED BY <1>1, <2>1, NoPageAssumption
  <1>8. \A m \in Sets, x \in Pages :
          page'[m][x] = IF m = n /\ x = y /\ page[n][y] = NoPage THEN p ELSE page[m][x]
    BY <1>0, <1>1, <1>4, <1>6 DEF addPage
  <1>9. PagesGrow
    BY <1>4, <1>5, <1>7, <1>8 DEF PagesGrow, Exists
  <1>10. \A m \in Sets, x \in Pages : \A i \in Nat : \A q :
           /\ ClaimAt(m, x, i, q)' <=> ClaimAt(m, x, i, q)
           /\ ClaimAt(m, x, i, q) => KeyAt(m, x, i)' = KeyAt(m, x, i)
    <2> SUFFICES ASSUME NEW m \in Sets, NEW x \in Pages, NEW i \in Nat, NEW q
                 PROVE  /\ ClaimAt(m, x, i, q)' <=> ClaimAt(m, x, i, q)
                        /\ ClaimAt(m, x, i, q) => KeyAt(m, x, i)' = KeyAt(m, x, i)
      OBVIOUS
    <2>1. CASE m = n /\ x = y /\ page[n][y] = NoPage
      BY <1>7, <1>8, <2>1 DEF ClaimAt, Exists
    <2>2. CASE ~(m = n /\ x = y /\ page[n][y] = NoPage)
      BY <1>8, <2>2 DEF ClaimAt, Exists, KeyAt
    <2> QED BY <2>1, <2>2
  <1>11. \A q : ClaimsOf(q)' = ClaimsOf(q)
    <2> SUFFICES ASSUME NEW q, NEW k PROVE k \in ClaimsOf(q)' <=> k \in ClaimsOf(q)
      OBVIOUS
    <2>1. ClaimsAre /\ ClaimsAre'
      BY <1>3, ClaimsOfAre, ClaimsOfAreNext
    <2>2. k \in ClaimsOf(q) <=> \E m \in Sets : \E x \in Pages : \E i \in Nat :
                                  ClaimAt(m, x, i, q) /\ k = KeyAt(m, x, i)
      BY <2>1 DEF ClaimsAre
    <2>3. k \in ClaimsOf(q)' <=> \E m \in Sets : \E x \in Pages : \E i \in Nat :
                                   ClaimAt(m, x, i, q)' /\ k = KeyAt(m, x, i)'
      BY <2>1 DEF ClaimsAre
    <2> QED BY <1>10, <2>2, <2>3
  <1>12. r.pc = "unlockSet" /\ r.user = t.user /\ r.uuid = t.uuid /\ r.doc = t.doc
    BY <1>0, <1>1 DEF Tab
  <1>13. Owns(r)'
    <2>1. r.pc \in Getting \ {"claimKey", "unlockAccount"}
      BY <1>12 DEF Getting, Filling
    <2>2. Owns(r)
      BY <1>0, <1>2, <1>12, <2>1, OwnsOn
    <2>3. \A q : Unpaid(q)' <=> Unpaid(q)
      BY <1>2, <1>11 DEF Unpaid
    <2> QED BY <1>2, <1>12, <2>2, <2>3 DEF Owns, UpToDate, Getting, Walking, Filling
  <1> QED BY <1>2, <1>9, <1>11, <1>13, LookStep

\* The key that is credited is the one the account still has: nobody else's, and
\* for the first time.
LEMMA CreditOwn ==
  ASSUME KeysInv, PagesInv', NEW s \in Tabs, creditConfirmedBitcoinAmount(s)
  PROVE  OwnInv'
  <1>0. PICK t : t = tab[s] /\ t \in Tab /\ Wired(t) /\ Owns(t)
    BY KeysParts
  <1>1. t.pc = "credit" /\ UNCHANGED <<page, requests, ledger>>
    BY <1>0 DEF creditConfirmedBitcoinAmount
  <1>2. PICK u, k : u = t.user /\ k = t.pay
    OBVIOUS
  <1>3. /\ PagesInv /\ TypeInv /\ TypeInv' /\ u \in Users /\ t.doc \in Account
        /\ account \in [Users -> Account] /\ AccountOwns(u)
    <2>1. PagesInv /\ TypeInv /\ TypeInv' /\ u \in Users
      BY <1>0, <1>1, <1>2, KeysParts DEF Wired, PagesInv
    <2> QED BY <1>0, <2>1, KeysParts DEF Tab, TypeInv, TypeOK
  <1>4. PagesGrow /\ (\A q : ClaimsOf(q)' = ClaimsOf(q)) /\ (\A v : KeysOf(v)' = KeysOf(v))
    BY <1>1, SamePages
  <1>5. CASE CasMatches(t.doc.cas, account[u])
    <2>1. PICK a, r :
            /\ a = [t.doc EXCEPT !.cas = account[u].cas + 1, !.balance = @ + 1,
                                 !.state = "NoKey", !.key = NoKey]
            /\ r = NewTab
      OBVIOUS
    <2>2. /\ account' = [account EXCEPT ![u] = a] /\ tab' = [tab EXCEPT ![s] = r]
          /\ credited' = credited \cup {k}
      BY <1>0, <1>2, <1>5, <2>1, Zenon DEF creditConfirmedBitcoinAmount, Become, Nothing, Mine
    <2>3. a.cas = account[u].cas + 1 /\ a.state = "NoKey" /\ a.balance = t.doc.balance + 1
      BY <1>3, <2>1 DEF Account
    <2>4. account[u].cas \in Nat /\ account[u].balance \in Nat /\ a.cas > account[u].cas
      BY <1>3, <2>3 DEF Account
    <2>5. t.doc.balance = account[u].balance /\ account[u].state = "HaveKey" /\ account[u].key = k
      BY <1>0, <1>1, <1>2, <1>5 DEF Owns, UpToDate, CasMatches
    <2>6. k \in KeysOf(u) /\ k \notin credited
      BY <1>3, <2>5 DEF AccountOwns
    <2>7. account'[u] = a /\ \A v \in Users : v # u => account'[v] = account[v]
      BY <1>3, <2>2
    <2>8. OwnersGrow
      <3>1. ASSUME NEW q \in Uuids, Unpaid(q), account'[q[1]] = account[q[1]] PROVE Unpaid(q)'
        <4>1. q[1] \in Users /\ q[1] # u
          BY <2>4, <2>7, <3>1 DEF Uuids
        <4>2. k \notin ClaimsOf(q)
          BY <1>3, <2>6, <4>1, KeysOfAre, OwnersDiffer
        <4> QED BY <1>4, <2>2, <3>1, <4>2 DEF Unpaid
      <3>2. \A v \in Users : requests'[v] >= requests[v]
        BY <1>1, <1>3 DEF TypeInv, TypeOK
      <3>3. \A v \in Users : account'[v] = account[v] \/ account'[v].cas > account[v].cas
        BY <2>4, <2>7
      <3> QED BY <1>4, <3>1, <3>2, <3>3 DEF OwnersGrow
    <2>9. AccountOwns(u)'
      <3>1. PICK c : c = credited \cap KeysOf(u)
        OBVIOUS
      <3>2. IsFiniteSet(c) /\ k \notin c
        BY <2>6, <3>1, KeysParts, FS_Intersection
      <3>3. Cardinality(c \cup {k}) = Cardinality(c) + 1 /\ Cardinality(c) \in Nat
        BY <3>2, FS_AddElement, FS_CardinalityType
      <3>4. credited' \cap KeysOf(u)' = c \cup {k}
        BY <1>4, <2>2, <2>6, <3>1
      <3>5. account[u].balance = ledger[u] + Cardinality(c) /\ ledger[u] \in Nat
        BY <1>3, <3>1 DEF AccountOwns, TypeInv, TypeOK
      <3>6. a.balance = ledger[u] + Cardinality(c \cup {k})
        BY <2>3, <2>4, <2>5, <3>3, <3>5
      <3> QED BY <1>1, <2>3, <2>7, <3>4, <3>6 DEF AccountOwns
    <2>10. \A v \in Users : AccountOwns(v)'
      <3> SUFFICES ASSUME NEW v \in Users, v # u PROVE AccountOwns(v)'
        BY <2>9
      <3>1. k \notin KeysOf(v)
        BY <1>3, <2>6, OwnersDiffer
      <3>2. credited' \cap KeysOf(v)' = credited \cap KeysOf(v)
        BY <1>4, <2>2, <3>1
      <3>3. account'[v] = account[v] /\ ledger'[v] = ledger[v]
        BY <1>1, <2>7
      <3> QED BY <1>3, <2>8, <3>2, <3>3, KeysParts, AccountKept
    <2>11. IsFiniteSet(credited')
      BY <2>2, KeysParts, FS_AddElement
    <2>12. \A x \in credited' : IsClaimed(x)'
      <3>1. IsClaimed(k)
        BY <1>3, <2>6, KeysOfAre DEF IsClaimed
      <3> QED BY <1>4, <2>2, <3>1, KeysParts DEF IsClaimed
    <2>13. Numbered'
      BY <1>1, <1>4, KeysParts DEF Numbered
    <2>14. Owns(r)'
      BY <2>1 DEF Owns, NewTab, Getting, Walking, Filling
    <2> QED BY <1>4, <2>2, <2>8, <2>10, <2>11, <2>12, <2>13, <2>14, OwnStep
  <1>6. CASE ~CasMatches(t.doc.cas, account[u])
    <2>1. ShowKey(s, u, k) /\ UNCHANGED <<account, credited>>
      BY <1>0, <1>2, <1>6 DEF creditConfirmedBitcoinAmount, Mine
    <2> QED BY <1>1, <2>1, ShowKeyOwn
  <1> QED BY <1>5, <1>6

\* What others do to an account.
LEMMA OthersOwn ==
  ASSUME KeysInv, PagesInv', NEW u \in Users, OtherLock(u) \/ OtherUnlock(u)
  PROVE  OwnInv'
  <1>1. UNCHANGED <<page, requests, credited, tab>>
    BY DEF OtherLock, OtherUnlock, hist
  <1>2. TypeInv /\ TypeInv' /\ account[u] \in Account /\ ledger[u] \in Nat /\ AccountOwns(u)
    BY KeysParts DEF PagesInv, TypeInv, TypeOK
  <1>3. PagesGrow /\ (\A q : ClaimsOf(q)' = ClaimsOf(q)) /\ (\A v : KeysOf(v)' = KeysOf(v))
    BY <1>1, SamePages
  <1>4. PICK more \in Nat :
          /\ account'[u].cas = account[u].cas + 1 /\ account'[u].state = account[u].state
          /\ account'[u].key = account[u].key /\ account'[u].uuid = account[u].uuid
          /\ account'[u].balance = account[u].balance + more
          /\ ledger'[u] = ledger[u] + more
          /\ \A v \in Users : v # u => account'[v] = account[v] /\ ledger'[v] = ledger[v]
    <2>0. account \in [Users -> Account] /\ ledger \in [Users -> Nat]
      BY <1>2 DEF TypeInv, TypeOK
    <2>1. CASE OtherLock(u)
      <3>1. PICK a : a = [account[u] EXCEPT !.locked = TRUE, !.cas = @ + 1]
        OBVIOUS
      <3>2. account' = [account EXCEPT ![u] = a] /\ ledger' = ledger
        BY <2>1, <3>1 DEF OtherLock, hist
      <3>3. /\ a.cas = account[u].cas + 1 /\ a.state = account[u].state
            /\ a.key = account[u].key /\ a.uuid = account[u].uuid
            /\ a.balance = account[u].balance + 0
        BY <1>2, <3>1 DEF Account
      <3>4. ledger[u] = ledger[u] + 0 /\ 0 \in Nat
        BY <1>2
      <3>5. account'[u] = a /\ \A v \in Users : v # u => account'[v] = account[v]
        BY <2>0, <3>2
      <3> QED BY <3>2, <3>3, <3>4, <3>5
    <2>2. CASE OtherUnlock(u)
      <3>1. PICK more \in {0, 1} :
              /\ account' = [account EXCEPT ![u].locked = FALSE, ![u].cas = @ + 1,
                                            ![u].balance = @ + more]
              /\ ledger' = [ledger EXCEPT ![u] = @ + more]
        BY <2>2 DEF OtherUnlock
      <3>2. PICK a : a = [account[u] EXCEPT !.locked = FALSE, !.cas = @ + 1, !.balance = @ + more]
        OBVIOUS
      <3>3. account' = [account EXCEPT ![u] = a]
        BY <3>1, <3>2
      <3>4. /\ a.cas = account[u].cas + 1 /\ a.state = account[u].state
            /\ a.key = account[u].key /\ a.uuid = account[u].uuid
            /\ a.balance = account[u].balance + more
        BY <1>2, <3>2 DEF Account
      <3>5. account'[u] = a /\ \A v \in Users : v # u => account'[v] = account[v]
        BY <2>0, <3>3
      <3>6. ledger'[u] = ledger[u] + more /\ \A v \in Users : v # u => ledger'[v] = ledger[v]
        BY <2>0, <3>1
      <3>7. more \in Nat
        OBVIOUS
      <3> QED BY <3>4, <3>5, <3>6, <3>7
    <2> QED BY <2>1, <2>2
  <1>5. account'[u].cas > account[u].cas
    BY <1>2, <1>4 DEF Account
  <1>6. \A q : Unpaid(q)' <=> Unpaid(q)
    BY <1>1, <1>3 DEF Unpaid
  <1>7. OwnersGrow
    <2>1. \A v \in Users : requests'[v] >= requests[v]
      BY <1>1, <1>2 DEF TypeInv, TypeOK
    <2>2. \A v \in Users : account'[v] = account[v] \/ account'[v].cas > account[v].cas
      BY <1>4, <1>5
    <2> QED BY <1>3, <1>6, <2>1, <2>2 DEF OwnersGrow
  <1>8. AccountOwns(u)'
    <2>1. PICK c : c = Cardinality(credited \cap KeysOf(u)) /\ c \in Nat
      BY KeysParts, FS_Intersection, FS_CardinalityType
    <2>2. credited' \cap KeysOf(u)' = credited \cap KeysOf(u)
      BY <1>1, <1>3
    <2>3. account[u].balance = ledger[u] + c /\ account[u].balance \in Nat
      BY <1>2, <2>1 DEF AccountOwns, Account
    <2>4. account'[u].balance = ledger'[u] + c
      BY <1>2, <1>4, <2>1, <2>3
    <2> QED BY <1>1, <1>2, <1>3, <1>4, <1>6, <2>1, <2>2, <2>4 DEF AccountOwns
  <1>9. \A v \in Users : AccountOwns(v)'
    <2> SUFFICES ASSUME NEW v \in Users, v # u PROVE AccountOwns(v)'
      BY <1>8
    <2>1. credited' \cap KeysOf(v)' = credited \cap KeysOf(v)
      BY <1>1, <1>3
    <2> QED BY <1>2, <1>4, <1>7, <2>1, KeysParts, AccountKept
  <1>10. \A s \in Tabs : Owns(tab[s])'
    <2> SUFFICES ASSUME NEW s \in Tabs PROVE Owns(tab[s])'
      OBVIOUS
    <2>1. PICK t : t = tab[s] /\ t = tab'[s]
      BY <1>1
    <2>2. Owns(t)'
      BY <1>2, <1>3, <1>7, <2>1, KeysParts, OwnsGrows
    <2> QED BY <2>1, <2>2 DEF Owns, UpToDate
  <1> QED BY <1>1, <1>3, <1>9, <1>10, KeysParts DEF OwnInv, IsClaimed, Numbered

\* A step that leaves tabs, accounts, claims and credits alone.
LEMMA QuietOwn ==
  ASSUME KeysInv, UNCHANGED <<account, page, tab, requests, credited, ledger>>
  PROVE  OwnInv'
  <1>1. (\A q : ClaimsOf(q)' = ClaimsOf(q)) /\ (\A u : KeysOf(u)' = KeysOf(u))
    BY SamePages
  <1>2. \A s \in Tabs : Owns(tab[s])'
    <2> SUFFICES ASSUME NEW s \in Tabs PROVE Owns(tab[s])'
      OBVIOUS
    <2>1. PICK t : t = tab[s] /\ t = tab'[s]
      OBVIOUS
    <2>2. Owns(t)'
      BY <2>1, KeysParts, OwnsSame
    <2> QED BY <2>1, <2>2 DEF Owns, UpToDate
  <1>3. \A u \in Users : AccountOwns(u)'
    BY <1>1, KeysParts DEF AccountOwns, Unpaid
  <1> QED BY <1>1, <1>2, <1>3, KeysParts DEF OwnInv, IsClaimed, Numbered

LEMMA InitUnclaimed ==
  ASSUME Init
  PROVE  \A n \in Sets, y \in Pages : \A i, q : ~ClaimAt(n, y, i, q)
  <1> SUFFICES ASSUME NEW n \in Sets, NEW y \in Pages, NEW i, NEW q, ClaimAt(n, y, i, q)
               PROVE  FALSE
    OBVIOUS
  <1>1. PICK e : e = <<>> /\ Len(e) = 0
    BY EmptySeq
  <1>2. PICK k : k = [range |-> FirstRange(n), claims |-> e]
    OBVIOUS
  <1>3. page[n][y] = IF y = 1 THEN k ELSE NoPage
    BY <1>1, <1>2, Zenon DEF Init
  <1>4. page[n][y].claims = e
    BY <1>2, <1>3 DEF ClaimAt, Exists
  <1> QED BY <1>1, <1>4 DEF ClaimAt

LEMMA InitOwn == Init => OwnInv
  <1> SUFFICES ASSUME Init PROVE OwnInv
    OBVIOUS
  <1>1. \A n \in Sets, y \in Pages : \A i, q : ~ClaimAt(n, y, i, q)
    BY InitUnclaimed
  <1>2. \A q : ClaimsOf(q) = {}
    <2>1. ClaimsAre
      BY InitType, ClaimsOfAre
    <2> QED BY <1>1, <2>1 DEF ClaimsAre
  <1>3. credited = {} /\ IsFiniteSet(credited)
    BY FS_EmptySet DEF Init
  <1>4. \A s \in Tabs : Owns(tab[s])
    <2>1. Owns(NewTab)
      BY NewTabKnows, IdleOwns
    <2> QED BY <2>1 DEF Init
  <1>5. \A u \in Users : AccountOwns(u)
    <2> SUFFICES ASSUME NEW u \in Users PROVE AccountOwns(u)
      OBVIOUS
    <2>1. account[u].state = "NoKey" /\ account[u].balance = 0 /\ ledger[u] = 0
      BY DEF Init, NewAccount
    <2>2. Cardinality(credited \cap KeysOf(u)) = 0
      <3>1. credited \cap KeysOf(u) = {}
        BY <1>3
      <3> QED BY <3>1, FS_EmptySet
    <2> QED BY <2>1, <2>2 DEF AccountOwns
  <1> QED BY <1>2, <1>3, <1>4, <1>5 DEF OwnInv

LEMMA NextOwn ==
  ASSUME KeysInv, PagesInv', [Next]_vars
  PROVE  OwnInv'
  <1>1. ASSUME NEW s \in Tabs, TabStep(s) PROVE OwnInv'
    <2>1. ASSUME NEW u \in Users, determineBitcoinState(s, u) PROVE OwnInv'
      <3>1. /\ UNCHANGED <<account, requests, credited, ledger, page>>
            /\ ShowKey(s, u, account[u].key)
        BY <2>1 DEF determineBitcoinState, docs, rest, hist
      <3> QED BY <3>1, ShowKeyOwn
    <2>2. ASSUME Close(s) \/ Crash(s) PROVE OwnInv'
      <3>1. Nothing(s) /\ UNCHANGED <<account, requests, credited, ledger, page>>
        BY <2>2 DEF Close, Crash, docs, rest, hist, Nothing
      <3> QED BY <3>1, NothingOwn
    <2> QED BY <1>1, <2>1, <2>2, CheckedOwn, LockAccountOwn, GetPageOwn, ClaimKeyOwn,
         UnlockAccountOwn, FillsOwn, AddPageOwn, DoneSendingOwn, CreditOwn
         DEF TabStep
  <1>2. ASSUME addHugeBitcoinKeyListPage \/ UNCHANGED vars PROVE OwnInv'
    <2>1. UNCHANGED <<account, page, tab, requests, credited, ledger>>
      BY <1>2 DEF addHugeBitcoinKeyListPage, vars, docs, rest, hist
    <2> QED BY <2>1, QuietOwn
  <1> QED BY <1>1, <1>2, OthersOwn DEF Next

-----------------------------------------------------------------------------
(* Theorems on keys and credits.                                            *)

\* KeysInv is an inductive invariant: who has an account in hand that has not
\* changed since has a request nothing was ever paid for, or its present key.
THEOREM KeysInvariant == Spec => []KeysInv
  <1>1. Init => KeysInv
    BY InitType, InitFill, InitOwn DEF KeysInv, PagesInv
  <1>2. KeysInv /\ [Next]_vars => KeysInv'
    BY NextType, NextFill, NextOwn DEF KeysInv, PagesInv
  <1> QED BY <1>1, <1>2, PTL DEF Spec

\* A user is shown a key that was claimed for a request of his, and that nobody
\* was ever credited for: what is paid to it is his, whichever tabs died between
\* the claim on the page and the store of the account
\* (addfundsaccounttabbody.cpp, from the claim of the key to HaveKey).
THEOREM KeysAreTheirs == Spec => []KeysAreExclusive
  <1>1. KeysInv => KeysAreExclusive
    BY KeysParts DEF KeysAreExclusive, AccountOwns
  <1> QED BY <1>1, KeysInvariant, PTL

\* The balance is what others put there and one credit for each key of the user
\* that was paid: no payment is credited twice by two tabs that saw it confirmed,
\* none to another user, and no store undoes what others did to the balance.
THEOREM EachCreditedOnce == Spec => []CreditedOnce
  <1>1. KeysInv => CreditedOnce
    BY KeysParts DEF CreditedOnce, AccountOwns
  <1> QED BY <1>1, KeysInvariant, PTL

-----------------------------------------------------------------------------
(* How many keys a request gets.                                            *)

\* Request q is at page y of set n: a tab looks there, or an account says so.
TabAt(t, q, n, y) == t.pc \in Getting /\ t.uuid = q /\ t.set = n /\ t.page = y
AccountAt(a, q, n, y) == a.state = "GettingKey" /\ a.uuid = q /\ a.set = n /\ a.page = y

IsAt(q, n, y) == \/ \E s \in Tabs : TabAt(tab[s], q, n, y)
                 \/ \E u \in Users : AccountAt(account[u], q, n, y)

Claimed(q, n, y) == \E i \in 1..KeysPerPage : ClaimAt(n, y, i, q)
Near(q, n, y)    == IsAt(q, n, y) \/ Claimed(q, n, y)

Filled(n, y) == Exists(n, y) /\ ~HasRoom(page[n][y])

\* All that goes on for a request goes on in one set, on pages with none between
\* that has room, and none before has a key for it.
Together(q) ==
  /\ \A n, m \in Sets, y, x \in Pages : Near(q, n, y) /\ Near(q, m, x) =>
       n = m /\ \A z \in Pages : y <= z /\ z < x => Filled(n, z)
  /\ \A n, m \in Sets, y, x \in Pages : Near(q, n, y) /\ Claimed(q, m, x) => x >= y
  /\ \A n \in Sets, y \in Pages, i, j \in 1..KeysPerPage :
       ClaimAt(n, y, i, q) /\ ClaimAt(n, y, j, q) => i = j

\* Nothing has been done for q.
Untouched(q) == \A n \in Sets, y \in Pages : ~Near(q, n, y)

\* A request that has no page yet is known to its first tab only.
Young(s) ==
  LET t == tab[s] IN
  t.pc \in Getting /\ t.page = 0 =>
    /\ Untouched(t.uuid)
    /\ \A r \in Tabs : r # s /\ tab[r].pc \in Getting => tab[r].uuid # t.uuid

SawNone(t) == t.pc = "claimKey" => \A i \in 1..Len(t.seen) : t.seen[i] # t.uuid

RequestInv ==
  /\ \A q \in Uuids \ jumped : Together(q)
  /\ \A s \in Tabs : Young(s) /\ SawNone(tab[s])


LEMMA ClaimsFit ==
  ASSUME TypeInv, NEW n \in Sets, NEW y \in Pages, NEW i, NEW q, ClaimAt(n, y, i, q)
  PROVE  i \in 1..KeysPerPage /\ Claimed(q, n, y)
  <1>1. page[n][y] \in KeyPage /\ Len(page[n][y].claims) <= KeysPerPage
    BY DEF ClaimAt, Exists, TypeInv, TypeOK, SizesOK
  <1>2. Len(page[n][y].claims) \in Nat
    BY <1>1 DEF KeyPage
  <1>3. i \in 1..KeysPerPage
    BY <1>1, <1>2, Bounds DEF ClaimAt
  <1> QED BY <1>3 DEF Claimed

\* No page loses a claim or, once it is full, its claims.
FilledStays == \A n \in Sets, y \in Pages : Filled(n, y) => Filled(n, y)'

SameClaims(q) ==
  \A n \in Sets, y \in Pages, i \in 1..KeysPerPage : ClaimAt(n, y, i, q)' => ClaimAt(n, y, i, q)

LEMMA TogetherOn ==
  ASSUME NEW q, Together(q), SameClaims(q), FilledStays,
         \A n \in Sets, y \in Pages : IsAt(q, n, y)' => Near(q, n, y)
  PROVE  Together(q)'
  <1>1. \A n \in Sets, y \in Pages : Claimed(q, n, y)' => Claimed(q, n, y)
    BY DEF SameClaims, Claimed
  <1>2. \A n \in Sets, y \in Pages : Near(q, n, y)' => Near(q, n, y)
    BY <1>1 DEF Near
  <1>3. \A n, m \in Sets, y, x \in Pages : Near(q, n, y)' /\ Near(q, m, x)' =>
          n = m /\ \A z \in Pages : y <= z /\ z < x => Filled(n, z)'
    BY <1>2 DEF Together, FilledStays
  <1>4. \A n, m \in Sets, y, x \in Pages : Near(q, n, y)' /\ Claimed(q, m, x)' => x >= y
    BY <1>1, <1>2 DEF Together
  <1>5. \A n \in Sets, y \in Pages, i, j \in 1..KeysPerPage :
          ClaimAt(n, y, i, q)' /\ ClaimAt(n, y, j, q)' => i = j
    BY DEF Together, SameClaims
  <1> QED BY <1>3, <1>4, <1>5 DEF Together

\* A request gets its first page.
LEMMA TogetherFirst ==
  ASSUME NEW q, Untouched(q), SameClaims(q), NEW n \in Sets, NEW y \in Pages,
         \A m \in Sets, x \in Pages : IsAt(q, m, x)' => m = n /\ x = y
  PROVE  Together(q)'
  <1>1. \A m \in Sets, x \in Pages, i \in 1..KeysPerPage : ~ClaimAt(m, x, i, q)'
    BY DEF Untouched, Near, Claimed, SameClaims
  <1>2. \A m \in Sets, x \in Pages : ~Claimed(q, m, x)' /\ (Near(q, m, x)' => m = n /\ x = y)
    BY <1>1 DEF Claimed, Near
  <1>3. \A z \in Pages : ~(y <= z /\ z < y)
    BY PagesAreNumbers
  <1> QED BY <1>1, <1>2, <1>3 DEF Together

\* The page is full and holds nothing for the request: it goes on to the next.
LEMMA TogetherNext ==
  ASSUME NEW q, Together(q), UNCHANGED page, NEW n \in Sets, NEW y \in Pages, NEW x \in Pages, x = y + 1,
         Near(q, n, y), Filled(n, y), ~Claimed(q, n, y),
         \A m \in Sets, z \in Pages : IsAt(q, m, z)' => Near(q, m, z) \/ (m = n /\ z = x)
  PROVE  Together(q)'
  <1>0. Pages \subseteq Nat
    BY PagesAreNumbers
  <1>1. \A m \in Sets, z \in Pages : /\ Claimed(q, m, z)' <=> Claimed(q, m, z)
                                     /\ Filled(m, z)' <=> Filled(m, z)
    BY DEF Claimed, ClaimAt, Filled, Exists, HasRoom
  <1>2. \A m \in Sets, z \in Pages : Near(q, m, z)' => Near(q, m, z) \/ (m = n /\ z = x)
    BY <1>1 DEF Near
  <1>3. \A m \in Sets, z \in Pages : Near(q, m, z) =>
          /\ m = n
          /\ \A w \in Pages : z <= w /\ w < x => Filled(n, w)
          /\ \A w \in Pages : x <= w /\ w < z => Filled(n, w)
    <2> SUFFICES ASSUME NEW m \in Sets, NEW z \in Pages, Near(q, m, z)
                 PROVE  /\ m = n
                        /\ \A w \in Pages : z <= w /\ w < x => Filled(n, w)
                        /\ \A w \in Pages : x <= w /\ w < z => Filled(n, w)
      OBVIOUS
    <2>1. m = n /\ \A w \in Pages : /\ z <= w /\ w < y => Filled(n, w)
                                    /\ y <= w /\ w < z => Filled(n, w)
      BY DEF Together
    <2>2. \A w \in Pages : /\ w < x => w < y \/ w = y
                           /\ x <= w => y <= w
      BY <1>0
    <2> QED BY <2>1, <2>2
  <1>4. \A m, k \in Sets, z, w \in Pages : Near(q, m, z)' /\ Near(q, k, w)' =>
          m = k /\ \A v \in Pages : z <= v /\ v < w => Filled(m, v)'
    <2> SUFFICES ASSUME NEW m \in Sets, NEW k \in Sets, NEW z \in Pages, NEW w \in Pages,
                        Near(q, m, z)', Near(q, k, w)'
                 PROVE  m = k /\ \A v \in Pages : z <= v /\ v < w => Filled(m, v)
      BY <1>1
    <2>1. CASE Near(q, m, z) /\ Near(q, k, w)
      BY <2>1 DEF Together
    <2>2. CASE Near(q, m, z) /\ k = n /\ w = x
      BY <1>3, <2>2
    <2>3. CASE m = n /\ z = x /\ Near(q, k, w)
      BY <1>3, <2>3
    <2>4. CASE m = n /\ z = x /\ k = n /\ w = x
      BY <1>0, <2>4
    <2> QED BY <1>2, <2>1, <2>2, <2>3, <2>4
  <1>5. \A m, k \in Sets, z, w \in Pages : Near(q, m, z)' /\ Claimed(q, k, w)' => w >= z
    <2> SUFFICES ASSUME NEW m \in Sets, NEW k \in Sets, NEW z \in Pages, NEW w \in Pages,
                        Near(q, m, z)', Claimed(q, k, w)
                 PROVE  w >= z
      BY <1>1
    <2>1. CASE Near(q, m, z)
      BY <2>1 DEF Together
    <2>2. CASE m = n /\ z = x
      <3>1. k = n /\ w >= y
        BY <1>3 DEF Together, Near
      <3>2. w # y
        BY <3>1
      <3> QED BY <1>0, <2>2, <3>1, <3>2
    <2> QED BY <1>2, <2>1, <2>2
  <1>6. \A m \in Sets, z \in Pages, i, j \in 1..KeysPerPage :
          ClaimAt(m, z, i, q)' /\ ClaimAt(m, z, j, q)' => i = j
    BY DEF Together, ClaimAt, Exists
  <1> QED BY <1>4, <1>5, <1>6 DEF Together

\* Place l on page y of set n is claimed for q, at most.
OneMore(q, n, y, l) ==
  \A m \in Sets, x \in Pages, i \in 1..KeysPerPage :
    ClaimAt(m, x, i, q)' => ClaimAt(m, x, i, q) \/ (m = n /\ x = y /\ i = l)

\* A key is claimed on a page that had room, and nothing yet for the request.
LEMMA TogetherClaims ==
  ASSUME NEW q, Together(q), FilledStays, NEW n \in Sets, NEW y \in Pages, NEW l,
         Near(q, n, y), ~Filled(n, y), ~Claimed(q, n, y),
         OneMore(q, n, y, l),
         \A m \in Sets, x \in Pages : IsAt(q, m, x)' => IsAt(q, m, x)
  PROVE  Together(q)'
  <1>0. Pages \subseteq Nat
    BY PagesAreNumbers
  <1>1. \A m \in Sets, x \in Pages : Claimed(q, m, x)' => Claimed(q, m, x) \/ (m = n /\ x = y)
    BY DEF Claimed, OneMore
  <1>2. \A m \in Sets, x \in Pages : Near(q, m, x)' => Near(q, m, x)
    BY <1>1 DEF Near
  <1>3. \A k, m \in Sets, z, x \in Pages : Near(q, k, z)' /\ Near(q, m, x)' =>
          k = m /\ \A w \in Pages : z <= w /\ w < x => Filled(k, w)'
    BY <1>2 DEF Together, FilledStays
  <1>4. \A k, m \in Sets, z, x \in Pages : Near(q, k, z)' /\ Claimed(q, m, x)' => x >= z
    <2> SUFFICES ASSUME NEW k \in Sets, NEW m \in Sets, NEW z \in Pages, NEW x \in Pages,
                        Near(q, k, z), Claimed(q, m, x)'
                 PROVE  x >= z
      BY <1>2
    <2>1. CASE Claimed(q, m, x)
      BY <2>1 DEF Together
    <2>2. CASE m = n /\ x = y
      <3>1. ~(y <= y /\ y < z)
        BY DEF Together
      <3> QED BY <1>0, <2>2, <3>1
    <2> QED BY <1>1, <2>1, <2>2
  <1>5. \A m \in Sets, x \in Pages, i, j \in 1..KeysPerPage :
          ClaimAt(m, x, i, q)' /\ ClaimAt(m, x, j, q)' => i = j
    <2> SUFFICES ASSUME NEW m \in Sets, NEW x \in Pages, NEW i \in 1..KeysPerPage, NEW j \in 1..KeysPerPage,
                        ClaimAt(m, x, i, q)', ClaimAt(m, x, j, q)'
                 PROVE  i = j
      OBVIOUS
    <2>1. CASE m = n /\ x = y
      BY <2>1 DEF Claimed, OneMore
    <2>2. CASE ~(m = n /\ x = y)
      BY <2>2 DEF Together, OneMore
    <2> QED BY <2>1, <2>2
  <1> QED BY <1>3, <1>4, <1>5 DEF Together

-----------------------------------------------------------------------------
(* A step for one request.                                                  *)

ReqInv == KeysInv /\ RequestInv

\* An account has no request but where one was.
AccountsStay ==
  \A u \in Users, q \in Uuids, n \in Sets, y \in Pages :
    AccountAt(account'[u], q, n, y) => IsAt(q, n, y)

TabsAre == tab \in [Tabs -> Tab] /\ \A s \in Tabs : Wired(tab[s])

LEMMA ReqParts ==
  ReqInv => /\ KeysInv /\ PagesInv /\ TypeInv /\ TabsAre
            /\ \A q \in Uuids \ jumped : Together(q)
            /\ \A s \in Tabs : Young(s) /\ SawNone(tab[s])
  BY KeysParts DEF ReqInv, RequestInv, TypeInv, TypeOK, TabsAre

\* What tab s does for request q0 leaves the other requests alone.
LEMMA RequestStep ==
  ASSUME ReqInv, NEW s \in Tabs, NEW t, tab' = [tab EXCEPT ![s] = t], NEW q0,
         jumped \subseteq jumped', FilledStays, AccountsStay,
         \A q \in Uuids : q # q0 => SameClaims(q),
         t.pc \in Getting => t.uuid = q0,
         \A r \in Tabs : r # s /\ tab[r].pc \in Getting /\ tab[r].page = 0 => tab[r].uuid # q0,
         q0 \in Uuids \ jumped' => Together(q0)',
         Young(s)', SawNone(t)
  PROVE  RequestInv'
  <1>0. TabsAre /\ tab'[s] = t /\ \A r \in Tabs : r # s => tab'[r] = tab[r]
    BY ReqParts DEF TabsAre
  <1>1. \A q \in Uuids : q # q0 => \A n \in Sets, y \in Pages : IsAt(q, n, y)' => IsAt(q, n, y)
    <2> SUFFICES ASSUME NEW q \in Uuids, q # q0, NEW n \in Sets, NEW y \in Pages, IsAt(q, n, y)'
                 PROVE  IsAt(q, n, y)
      OBVIOUS
    <2>1. CASE \E u \in Users : AccountAt(account'[u], q, n, y)
      BY <2>1 DEF AccountsStay
    <2>2. CASE \E r \in Tabs : TabAt(tab'[r], q, n, y)
      <3>1. PICK r \in Tabs : TabAt(tab'[r], q, n, y)
        BY <2>2
      <3>2. r # s
        BY <1>0, <3>1 DEF TabAt
      <3> QED BY <1>0, <3>1, <3>2 DEF IsAt
    <2>3. (\E u \in Users : AccountAt(account'[u], q, n, y)) \/ (\E r \in Tabs : TabAt(tab'[r], q, n, y))
      BY DEF IsAt
    <2> QED BY <2>1, <2>2, <2>3
  <1>2. \A q \in Uuids \ jumped' : Together(q)'
    <2> SUFFICES ASSUME NEW q \in Uuids \ jumped', q # q0 PROVE Together(q)'
      OBVIOUS
    <2>1. Together(q)
      BY ReqParts
    <2>2. \A n \in Sets, y \in Pages : IsAt(q, n, y)' => Near(q, n, y)
      BY <1>1 DEF Near
    <2> QED BY <2>1, <2>2, TogetherOn
  <1>3. \A r \in Tabs : Young(r)'
    <2> SUFFICES ASSUME NEW r \in Tabs, r # s, tab[r].pc \in Getting, tab[r].page = 0
                 PROVE  /\ Untouched(tab[r].uuid)'
                        /\ \A p \in Tabs : p # r /\ tab'[p].pc \in Getting => tab'[p].uuid # tab[r].uuid
      BY <1>0 DEF Young
    <2>1. PICK q : q = tab[r].uuid /\ q \in Uuids /\ q # q0
      BY <1>0 DEF TabsAre, Wired
    <2>2. Untouched(q) /\ \A p \in Tabs : p # r /\ tab[p].pc \in Getting => tab[p].uuid # q
      BY <2>1, ReqParts DEF Young
    <2>3. \A n \in Sets, y \in Pages : ~Near(q, n, y)'
      BY <1>1, <2>1, <2>2 DEF Untouched, Near, Claimed, SameClaims
    <2>4. Untouched(q)'
      BY <2>3 DEF Untouched
    <2>5. \A p \in Tabs : p # r /\ tab'[p].pc \in Getting => tab'[p].uuid # q
      BY <1>0, <2>1, <2>2
    <2>6. Untouched(tab[r].uuid)' <=> Untouched(q)'
      BY <1>0, <2>1 DEF Untouched, Near, IsAt, Claimed, ClaimAt, TabAt, AccountAt
    <2> QED BY <2>1, <2>4, <2>5, <2>6
  <1>4. \A r \in Tabs : SawNone(tab'[r])
    BY <1>0, ReqParts
  <1> QED BY <1>2, <1>3, <1>4 DEF RequestInv, SawNone

\* A tab that is done with, or never had, a request.
LEMMA IdleRequest ==
  ASSUME ReqInv, NEW s \in Tabs, NEW t, tab' = [tab EXCEPT ![s] = t], t.pc \notin Getting,
         UNCHANGED <<page, jumped>>, AccountsStay
  PROVE  RequestInv'
  <1>1. NoUuid \notin Uuids
    BY Bounds DEF NoUuid, Uuids
  <1>2. FilledStays /\ \A q : SameClaims(q)
    BY DEF FilledStays, Filled, Exists, SameClaims, ClaimAt
  <1>3. \A r \in Tabs : tab[r].pc \in Getting => tab[r].uuid # NoUuid
    BY <1>1, ReqParts DEF TabsAre, Wired
  <1>4. tab'[s] = t
    BY ReqParts DEF TabsAre
  <1>5. Young(s)' /\ SawNone(t)
    BY <1>4 DEF Young, SawNone, Getting, Walking
  <1> QED BY <1>1, <1>2, <1>3, <1>5, RequestStep

\* A tab goes on where it is, for the request it has.
LEMMA WaitRequest ==
  ASSUME ReqInv, NEW s \in Tabs, NEW t, tab' = [tab EXCEPT ![s] = t],
         tab[s].pc \in Getting, t.pc \in Getting, t.uuid = tab[s].uuid, t.set = tab[s].set,
         t.page = tab[s].page, jumped' = jumped, FilledStays, \A q : SameClaims(q), AccountsStay,
         SawNone(t)
  PROVE  RequestInv'
  <1>6. PICK q0 : q0 = tab[s].uuid
    OBVIOUS
  <1>0. /\ q0 \in Uuids /\ tab'[s] = t /\ Young(s)
        /\ \A r \in Tabs : r # s => tab'[r] = tab[r]
    BY <1>6, ReqParts DEF TabsAre, Wired
  <1>1. \A r \in Tabs : r # s /\ tab[r].pc \in Getting /\ tab[r].page = 0 => tab[r].uuid # q0
    BY <1>6, ReqParts DEF Young
  <1>2. \A q \in Uuids, n \in Sets, y \in Pages : IsAt(q, n, y)' => IsAt(q, n, y)
    <2> SUFFICES ASSUME NEW q \in Uuids, NEW n \in Sets, NEW y \in Pages, IsAt(q, n, y)'
                 PROVE  IsAt(q, n, y)
      OBVIOUS
    <2>1. CASE \E u \in Users : AccountAt(account'[u], q, n, y)
      BY <2>1 DEF AccountsStay
    <2>2. CASE \E r \in Tabs : TabAt(tab'[r], q, n, y)
      <3>1. PICK r \in Tabs : TabAt(tab'[r], q, n, y)
        BY <2>2
      <3>2. TabAt(tab[r], q, n, y)
        BY <1>0, <3>1 DEF TabAt
      <3> QED BY <3>2 DEF IsAt
    <2>3. (\E u \in Users : AccountAt(account'[u], q, n, y)) \/ (\E r \in Tabs : TabAt(tab'[r], q, n, y))
      BY DEF IsAt
    <2> QED BY <2>1, <2>2, <2>3
  <1>3. q0 \in Uuids \ jumped' => Together(q0)'
    <2> SUFFICES ASSUME q0 \notin jumped PROVE Together(q0)'
      OBVIOUS
    <2>1. Together(q0)
      BY <1>0, ReqParts
    <2>2. \A n \in Sets, y \in Pages : IsAt(q0, n, y)' => Near(q0, n, y)
      BY <1>0, <1>2 DEF Near
    <2> QED BY <2>1, <2>2, TogetherOn
  <1>4. Young(s)'
    <2> SUFFICES ASSUME t.page = 0
                 PROVE  /\ Untouched(tab[s].uuid)'
                        /\ \A r \in Tabs : r # s /\ tab'[r].pc \in Getting => tab'[r].uuid # q0
      BY <1>0, <1>6 DEF Young
    <2>1. Untouched(q0) /\ \A r \in Tabs : r # s /\ tab[r].pc \in Getting => tab[r].uuid # q0
      BY <1>0, <1>6 DEF Young
    <2>2. Untouched(q0)'
      BY <1>0, <1>2, <2>1 DEF Untouched, Near, Claimed, SameClaims
    <2>3. Untouched(tab[s].uuid)'
      BY <1>0, <1>6, <2>2 DEF Untouched, Near, IsAt, Claimed, ClaimAt
    <2> QED BY <1>0, <2>1, <2>3
  <1>5. jumped \subseteq jumped' /\ \A q \in Uuids : q # q0 => SameClaims(q)
    OBVIOUS
  <1> QED BY <1>1, <1>3, <1>4, <1>5, <1>6, RequestStep

\* No tab takes a step.
LEMMA RestRequest ==
  ASSUME ReqInv, UNCHANGED <<tab, page, jumped>>, AccountsStay
  PROVE  RequestInv'
  <1>1. FilledStays /\ \A q : SameClaims(q)
    BY DEF FilledStays, Filled, Exists, SameClaims, ClaimAt
  <1>2. \A q \in Uuids, n \in Sets, y \in Pages : IsAt(q, n, y)' => IsAt(q, n, y)
    BY DEF IsAt, AccountsStay
  <1>3. \A q \in Uuids \ jumped : Together(q)'
    <2> SUFFICES ASSUME NEW q \in Uuids \ jumped PROVE Together(q)'
      OBVIOUS
    <2>1. Together(q) /\ \A n \in Sets, y \in Pages : IsAt(q, n, y)' => Near(q, n, y)
      BY <1>2, ReqParts DEF Near
    <2> QED BY <1>1, <2>1, TogetherOn
  <1>4. \A q \in Uuids : Untouched(q) => Untouched(q)'
    BY <1>1, <1>2 DEF Untouched, Near, Claimed, SameClaims
  <1>5. \A s \in Tabs : Young(s)'
    <2> SUFFICES ASSUME NEW s \in Tabs, tab[s].pc \in Getting, tab[s].page = 0
                 PROVE  Untouched(tab[s].uuid)'
      BY ReqParts DEF Young
    <2>1. PICK q \in Uuids : q = tab[s].uuid
      BY ReqParts DEF TabsAre, Wired
    <2>2. Untouched(q)'
      BY <1>4, <2>1, ReqParts DEF Young
    <2> QED BY <2>1, <2>2 DEF Untouched, Near, IsAt, Claimed, ClaimAt
  <1> QED BY <1>3, <1>5, ReqParts DEF RequestInv, SawNone

LEMMA AccountsSame == UNCHANGED account => AccountsStay
  BY DEF AccountsStay, IsAt

LEMMA PagesSame == UNCHANGED page => FilledStays /\ \A q : SameClaims(q)
  BY DEF FilledStays, Filled, Exists, SameClaims, ClaimAt

-----------------------------------------------------------------------------
(* One lemma for each step.                                                 *)

LEMMA NothingRequest ==
  ASSUME ReqInv, NEW s \in Tabs, Nothing(s), UNCHANGED <<page, jumped>>, AccountsStay
  PROVE  RequestInv'
  <1>1. tab' = [tab EXCEPT ![s] = NewTab] /\ NewTab.pc \notin Getting
    BY NewTabKnows DEF Nothing, Become, Getting, Walking, Filling
  <1> QED BY <1>1, IdleRequest

LEMMA ShowKeyRequest ==
  ASSUME ReqInv, NEW s \in Tabs, NEW u, NEW k, ShowKey(s, u, k),
         UNCHANGED <<page, jumped>>, AccountsStay
  PROVE  RequestInv'
  <1> DEFINE t == [NewTab EXCEPT !.user = u, !.pc = "key", !.pay = k]
  <1>1. tab' = [tab EXCEPT ![s] = t] /\ t.pc \notin Getting
    BY DEF ShowKey, Become, NewTab, Getting, Walking, Filling
  <1> HIDE DEF t
  <1> QED BY <1>1, IdleRequest

\* A request that is taken up again is where the account says; one that is new
\* has a number that nothing has yet.
LEMMA CheckedRequest ==
  ASSUME ReqInv, TypeInv', NEW s \in Tabs, NEW u \in Users, checkNotAttemptingThenTransition(s, u)
  PROVE  RequestInv'
  <1>0. /\ UNCHANGED <<account, page, jumped>> /\ account[u].state \in {"GettingKey", "NoKey"}
        /\ tab[s].pc = "closed"
    BY Zenon DEF checkNotAttemptingThenTransition, docs, hist
  <1>1. /\ FilledStays /\ (\A q : SameClaims(q)) /\ AccountsStay /\ TypeInv /\ AccountWired(u)
        /\ requests[u] \in Nat
    BY <1>0, PagesSame, AccountsSame, ReqParts DEF TypeInv, TypeOK
  <1>2. CASE account[u].state = "GettingKey"
    <2>1. PICK t, q, n, y :
            /\ t = Recovering(u, account[u])
            /\ q = account[u].uuid /\ n = account[u].set /\ y = account[u].page
      OBVIOUS
    <2>2. tab' = [tab EXCEPT ![s] = t]
      BY <1>2, <2>1 DEF checkNotAttemptingThenTransition, Become
    <2>3. t.pc = "analyze" /\ t.uuid = q /\ t.set = n /\ t.page = y
      BY <2>1, NewTabType DEF Recovering, Tab
    <2>4. q \in Uuids /\ n \in Sets /\ y \in Pages /\ y # 0
      BY <1>1, <1>2, <2>1, PagesAreNumbers DEF AccountWired
    <2>5. IsAt(q, n, y)
      BY <1>2, <2>1 DEF IsAt, AccountAt
    <2>6. tab'[s] = t /\ \A r \in Tabs : r # s => tab'[r] = tab[r]
      BY <2>2, ReqParts DEF TabsAre
    <2>7. \A r \in Tabs : r # s /\ tab[r].pc \in Getting /\ tab[r].page = 0 => tab[r].uuid # q
      BY <2>4, <2>5, ReqParts DEF Young, Untouched, Near
    <2>8. \A m \in Sets, x \in Pages : IsAt(q, m, x)' => Near(q, m, x)
      BY <1>0, <2>3, <2>5, <2>6 DEF IsAt, TabAt, Near
    <2>9. q \in Uuids \ jumped' => Together(q)'
      BY <1>0, <1>1, <2>8, ReqParts, TogetherOn
    <2>10. Young(s)' /\ SawNone(t)
      BY <2>3, <2>4, <2>6 DEF Young, SawNone
    <2> QED BY <1>0, <1>1, <2>2, <2>3, <2>7, <2>9, <2>10, RequestStep
  <1>3. CASE account[u].state = "NoKey"
    <2>0. PICK n \in Sets :
            tab' = [tab EXCEPT ![s] = [NewTab EXCEPT !.user = u, !.pc = "analyze", !.doc = account[u],
                                      !.set = n, !.uuid = <<u, requests[u] + 1>>]]
      BY <1>3, Zenon DEF checkNotAttemptingThenTransition, Become
    <2>1. PICK t, q : /\ t = [NewTab EXCEPT !.user = u, !.pc = "analyze", !.doc = account[u],
                                           !.set = n, !.uuid = <<u, requests[u] + 1>>]
                      /\ q = <<u, requests[u] + 1>>
      OBVIOUS
    <2>2. tab' = [tab EXCEPT ![s] = t]
      BY <2>0, <2>1
    <2>3. t.pc = "analyze" /\ t.uuid = q /\ t.page = 0 /\ t.set = n
      BY <2>1, NewTabType DEF NewTab
    <2>4. q[1] = u /\ ~(q[2] <= requests[u])
      BY <1>1, <2>1
    <2>5. tab'[s] = t /\ \A r \in Tabs : r # s => tab'[r] = tab[r]
      BY <2>2, ReqParts DEF TabsAre
    <2>6. \A r \in Tabs : tab[r].pc \in Getting => tab[r].uuid # q
      <3> SUFFICES ASSUME NEW r \in Tabs, tab[r].pc \in Getting, tab[r].uuid = q PROVE FALSE
        OBVIOUS
      <3>1. tab[r].uuid[1] = tab[r].user /\ tab[r].uuid[2] <= requests[tab[r].user]
        BY ReqParts, KeysParts DEF Owns, Wired
      <3> QED BY <2>4, <3>1
    <2>7. \A v \in Users : account[v].state = "GettingKey" => account[v].uuid # q
      <3> SUFFICES ASSUME NEW v \in Users, account[v].state = "GettingKey", account[v].uuid = q
                   PROVE  FALSE
        OBVIOUS
      <3>1. account[v].uuid[1] = v /\ account[v].uuid[2] <= requests[v]
        BY ReqParts, KeysParts DEF AccountOwns, TypeInv, AccountWired
      <3> QED BY <2>4, <3>1
    <2>8. q \in Uuids
      <3>1. Wired(tab[s])'
        BY DEF TypeInv
      <3> QED BY <2>3, <2>5, <3>1 DEF Wired, Getting
    <2>9. \A m \in Sets, x \in Pages : ~Claimed(q, m, x)
      <3> SUFFICES ASSUME NEW m \in Sets, NEW x \in Pages, Claimed(q, m, x) PROVE FALSE
        OBVIOUS
      <3>1. PICK i \in 1..KeysPerPage : ClaimAt(m, x, i, q)
        BY DEF Claimed
      <3>2. KeyAt(m, x, i) \in ClaimsOf(q)
        <4>1. ClaimsAre /\ i \in Nat
          BY <1>1, ClaimsOfAre, Bounds
        <4> QED BY <3>1, <4>1 DEF ClaimsAre
      <3>3. q[2] <= requests[q[1]]
        BY <2>8, <3>2, ReqParts, KeysParts DEF Numbered
      <3> QED BY <2>4, <3>3
    <2>10. Untouched(q)
      BY <2>6, <2>7, <2>9 DEF Untouched, Near, IsAt, TabAt, AccountAt
    <2>11. \A m \in Sets, x \in Pages : ~IsAt(q, m, x)'
      <3>1. \A x \in Pages : x # 0
        BY PagesAreNumbers
      <3> QED BY <1>0, <2>3, <2>5, <2>6, <2>7, <3>1 DEF IsAt, TabAt, AccountAt
    <2>12. Together(q)'
      <3>1. n \in Sets /\ 1 \in Pages
        BY PagesAreNumbers
      <3> QED BY <1>1, <2>10, <2>11, <3>1, TogetherFirst
    <2>13. Young(s)' /\ SawNone(t)
      <3>1. Untouched(q)'
        BY <1>1, <2>9, <2>11 DEF Untouched, Near, Claimed, SameClaims
      <3>2. Untouched(tab[s].uuid)'
        BY <2>3, <2>5, <3>1 DEF Untouched, Near, IsAt, Claimed, ClaimAt
      <3> QED BY <2>3, <2>5, <2>6, <3>2 DEF Young, SawNone
    <2> QED BY <1>0, <1>1, <2>2, <2>3, <2>6, <2>12, <2>13, RequestStep
  <1> QED BY <1>0, <1>2, <1>3

\* The first tab gets its page; a tab that is moved to another has its request
\* noted as moved.
LEMMA AnalyzeRequest ==
  ASSUME ReqInv, NEW s \in Tabs, analyzeCurrentPage(s)
  PROVE  RequestInv'
  <1>0. PICK t, c, q : /\ t = tab[s] /\ t \in Tab /\ Wired(t) /\ c = cur[t.set] /\ q = t.uuid
    BY ReqParts, KeysParts
  <1>1. /\ UNCHANGED <<account, page>> /\ t.pc = "analyze" /\ t.pc \in Getting
        /\ q \in Uuids /\ t.set \in Sets /\ Young(s)
    BY <1>0, ReqParts DEF analyzeCurrentPage, docs, Getting, Wired
  <1>2. c.page \in Pages /\ c.page # 0 /\ 0 \notin Pages
    <2>1. c \in Current
      BY <1>0, <1>1, ReqParts DEF TypeInv, TypeOK
    <2> QED BY <2>1, PagesAreNumbers DEF Current
  <1>3. FilledStays /\ (\A p : SameClaims(p)) /\ AccountsStay /\ jumped \subseteq jumped'
    BY <1>1, PagesSame, AccountsSame DEF analyzeCurrentPage
  <1>4. PICK r1, mid, r2 :
          /\ r1 = [t EXCEPT !.pc = "getHugePage", !.cas = c.cas, !.page = c.page,
                            !.z = c.from, !.z0 = c.from, !.fromCur = FALSE]
          /\ mid = [t EXCEPT !.cas = c.cas, !.page = IF @ = 0 THEN c.page ELSE @]
          /\ r2 = Proceeding(mid)
    OBVIOUS
  <1>5. \/ tab' = [tab EXCEPT ![s] = r1] /\ (t.page \in {0, c.page} \/ q \in jumped')
        \/ tab' = [tab EXCEPT ![s] = r2]
    BY <1>0, <1>4, Zenon DEF analyzeCurrentPage, Become
  <1>6. /\ r1.pc = "getHugePage" /\ r1.uuid = q /\ r1.set = t.set /\ r1.page = c.page
        /\ r2.pc \in {"getPage", "lockAccount"} /\ r2.uuid = q /\ r2.set = t.set
        /\ r2.page = IF t.page = 0 THEN c.page ELSE t.page
    BY <1>0, <1>4 DEF Tab, Proceeding
  <1>7. PICK r : /\ tab' = [tab EXCEPT ![s] = r]
                 /\ r.pc \in Getting \ {"claimKey"} /\ r.uuid = q /\ r.set = t.set /\ r.page # 0
                 /\ t.page = 0 => r.page = c.page
                 /\ t.page = 0 \/ t.page = r.page \/ q \in jumped'
    <2>1. CASE tab' = [tab EXCEPT ![s] = r1] /\ (t.page \in {0, c.page} \/ q \in jumped')
      <3>1. r1.pc \in Getting \ {"claimKey"}
        BY <1>6 DEF Getting, Filling
      <3> QED BY <1>2, <1>6, <2>1, <3>1
    <2>2. CASE tab' = [tab EXCEPT ![s] = r2]
      <3>1. r2.pc \in Getting \ {"claimKey"}
        BY <1>6 DEF Getting, Walking
      <3>2. r2.page # 0 /\ (t.page = 0 => r2.page = c.page) /\ (t.page = 0 \/ t.page = r2.page)
        BY <1>2, <1>6
      <3> QED BY <1>6, <2>2, <3>1, <3>2
    <2> QED BY <1>5, <2>1, <2>2
  <1>8. tab'[s] = r /\ \A p \in Tabs : p # s => tab'[p] = tab[p]
    BY <1>7, ReqParts DEF TabsAre
  <1>9. \A p \in Tabs : p # s /\ tab[p].pc \in Getting /\ tab[p].page = 0 => tab[p].uuid # q
    BY <1>0, <1>1, ReqParts DEF Young
  <1>10. ASSUME q \notin jumped' PROVE Together(q)'
    <2>1. CASE t.page = 0
      <3>1. Untouched(q) /\ \A p \in Tabs : p # s /\ tab[p].pc \in Getting => tab[p].uuid # q
        BY <1>0, <1>1, <2>1 DEF Young
      <3>2. \A m \in Sets, x \in Pages : IsAt(q, m, x)' => m = t.set /\ x = c.page
        <4> SUFFICES ASSUME NEW m \in Sets, NEW x \in Pages, IsAt(q, m, x)'
                     PROVE  m = t.set /\ x = c.page
          OBVIOUS
        <4>1. ~\E u \in Users : AccountAt(account'[u], q, m, x)
          BY <1>1, <3>1 DEF Untouched, Near, IsAt
        <4>2. PICK p \in Tabs : TabAt(tab'[p], q, m, x)
          BY <4>1 DEF IsAt
        <4>3. p = s
          BY <1>8, <3>1, <4>2 DEF TabAt
        <4> QED BY <1>7, <1>8, <2>1, <4>2, <4>3 DEF TabAt
      <3> QED BY <1>1, <1>2, <1>3, <3>1, <3>2, TogetherFirst
    <2>2. CASE t.page = r.page
      <3>1. \A m \in Sets, x \in Pages : IsAt(q, m, x)' => Near(q, m, x)
        BY <1>0, <1>1, <1>7, <1>8, <2>2 DEF Near, IsAt, TabAt
      <3>2. Together(q)
        BY <1>1, <1>3, <1>10, ReqParts
      <3> QED BY <1>3, <3>1, <3>2, TogetherOn
    <2> QED BY <1>7, <1>10, <2>1, <2>2
  <1>11. Young(s)' /\ SawNone(r)
    BY <1>7, <1>8 DEF Young, SawNone
  <1> QED BY <1>3, <1>7, <1>9, <1>10, <1>11, RequestStep

\* The account says where its tab is.
LEMMA LockAccountRequest ==
  ASSUME ReqInv, NEW s \in Tabs, lockAccount(s)
  PROVE  RequestInv'
  <1>0. PICK t, u : t = tab[s] /\ t \in Tab /\ Wired(t) /\ u = t.user
    BY ReqParts, KeysParts
  <1>1. /\ UNCHANGED <<page, jumped>> /\ t.pc = "lockAccount" /\ t.pc \in Getting
        /\ u \in Users /\ t.doc \in Account /\ account \in [Users -> Account]
    BY <1>0, ReqParts DEF lockAccount, rest, hist, Getting, Walking, Wired, Tab, TypeInv, TypeOK
  <1>2. FilledStays /\ \A p : SameClaims(p)
    BY <1>1, PagesSame
  <1>3. CASE CasMatches(t.doc.cas, account[u])
    <2>1. PICK a, r :
            /\ a = [t.doc EXCEPT !.cas = account[u].cas + 1, !.state = "GettingKey",
                                 !.set = t.set, !.page = t.page, !.uuid = t.uuid]
            /\ r = [t EXCEPT !.pc = "getPage", !.doc.cas = a.cas]
      OBVIOUS
    <2>2. account' = [account EXCEPT ![u] = a] /\ tab' = [tab EXCEPT ![s] = r]
      BY <1>0, <1>3, <2>1, Zenon DEF lockAccount, Become, Mine
    <2>3. a.uuid = t.uuid /\ a.set = t.set /\ a.page = t.page
      BY <1>1, <2>1 DEF Account
    <2>4. r.pc = "getPage" /\ r.uuid = t.uuid /\ r.set = t.set /\ r.page = t.page
      BY <1>0, <2>1 DEF Tab
    <2>5. account'[u] = a /\ \A v \in Users : v # u => account'[v] = account[v]
      BY <1>1, <2>2
    <2>6. AccountsStay
      <3> SUFFICES ASSUME NEW v \in Users, NEW q \in Uuids, NEW n \in Sets, NEW y \in Pages,
                          AccountAt(account'[v], q, n, y)
                   PROVE  IsAt(q, n, y)
        BY DEF AccountsStay
      <3>1. CASE v = u
        BY <1>0, <1>1, <2>3, <2>5, <3>1 DEF AccountAt, IsAt, TabAt
      <3>2. CASE v # u
        BY <2>5, <3>2 DEF IsAt
      <3> QED BY <3>1, <3>2
    <2>7. r.pc \in Getting /\ SawNone(r)
      BY <2>4 DEF Getting, Walking, SawNone
    <2> QED BY <1>0, <1>1, <1>2, <2>2, <2>4, <2>6, <2>7, WaitRequest
  <1>4. CASE ~CasMatches(t.doc.cas, account[u])
    <2>1. Nothing(s) /\ AccountsStay
      BY <1>0, <1>4, AccountsSame DEF lockAccount, Mine
    <2> QED BY <1>1, <2>1, NothingRequest
  <1> QED BY <1>3, <1>4

\* An account that is stored with no request, or with the one it had.
LEMMA StoredStays ==
  ASSUME NEW u \in Users, NEW a, account' = [account EXCEPT ![u] = a], TypeInv,
         a.state = "GettingKey" => /\ account[u].state = "GettingKey" /\ a.uuid = account[u].uuid
                                   /\ a.set = account[u].set /\ a.page = account[u].page
  PROVE  AccountsStay
  <1>1. account'[u] = a /\ \A v \in Users : v # u => account'[v] = account[v]
    BY DEF TypeInv, TypeOK
  <1> QED BY <1>1 DEF AccountsStay, IsAt, AccountAt

LEMMA UnlockAccountRequest ==
  ASSUME ReqInv, NEW s \in Tabs, unlockAccount(s)
  PROVE  RequestInv'
  <1>0. PICK t, u : t = tab[s] /\ t \in Tab /\ Wired(t) /\ u = t.user
    BY ReqParts, KeysParts
  <1>1. UNCHANGED <<page, jumped>> /\ u \in Users /\ t.doc \in Account /\ TypeInv
    BY <1>0, ReqParts DEF unlockAccount, rest, hist, Wired, Tab
  <1>2. CASE CasMatches(t.doc.cas, account[u])
    <2>1. PICK a : a = [t.doc EXCEPT !.cas = account[u].cas + 1, !.state = "HaveKey", !.key = t.key,
                                     !.set = NoKey, !.page = 0, !.uuid = NoUuid]
      OBVIOUS
    <2>2. account' = [account EXCEPT ![u] = a] /\ ShowKey(s, u, t.key)
      BY <1>0, <1>2, <2>1, Zenon DEF unlockAccount, Mine
    <2>3. a.state = "HaveKey"
      BY <1>1, <2>1 DEF Account
    <2>4. AccountsStay
      BY <1>1, <2>2, <2>3, StoredStays
    <2> QED BY <1>1, <2>2, <2>4, ShowKeyRequest
  <1>3. CASE ~CasMatches(t.doc.cas, account[u])
    <2>1. Nothing(s) /\ AccountsStay
      BY <1>0, <1>3, AccountsSame DEF unlockAccount, Mine
    <2> QED BY <1>1, <2>1, NothingRequest
  <1> QED BY <1>2, <1>3

LEMMA CreditRequest ==
  ASSUME ReqInv, NEW s \in Tabs, creditConfirmedBitcoinAmount(s)
  PROVE  RequestInv'
  <1>0. PICK t, u : t = tab[s] /\ t \in Tab /\ Wired(t) /\ u = t.user
    BY ReqParts, KeysParts
  <1>1. UNCHANGED <<page, jumped>> /\ u \in Users /\ t.doc \in Account /\ TypeInv
    BY <1>0, ReqParts DEF creditConfirmedBitcoinAmount, Wired, Tab
  <1>2. CASE CasMatches(t.doc.cas, account[u])
    <2>1. PICK a : a = [t.doc EXCEPT !.cas = account[u].cas + 1, !.balance = @ + 1,
                                     !.state = "NoKey", !.key = NoKey]
      OBVIOUS
    <2>2. account' = [account EXCEPT ![u] = a] /\ Nothing(s)
      BY <1>0, <1>2, <2>1, Zenon DEF creditConfirmedBitcoinAmount, Mine
    <2>3. a.state = "NoKey"
      BY <1>1, <2>1 DEF Account
    <2>4. AccountsStay
      BY <1>1, <2>2, <2>3, StoredStays
    <2> QED BY <1>1, <2>2, <2>4, NothingRequest
  <1>3. CASE ~CasMatches(t.doc.cas, account[u])
    <2>1. ShowKey(s, u, t.pay) /\ AccountsStay
      BY <1>0, <1>3, AccountsSame DEF creditConfirmedBitcoinAmount, Mine
    <2> QED BY <1>1, <2>1, ShowKeyRequest
  <1> QED BY <1>2, <1>3

LEMMA DoneSendingRequest ==
  ASSUME ReqInv, NEW s \in Tabs, doneSendingBitcoins(s)
  PROVE  RequestInv'
  <1>0. PICK t, r : t = tab[s] /\ t \in Tab /\ r = [t EXCEPT !.pc = "credit", !.doc = account[t.user]]
    BY KeysParts, ReqParts
  <1>1. UNCHANGED <<page, jumped>> /\ AccountsStay
    BY AccountsSame DEF doneSendingBitcoins, docs, rest, hist
  <1>2. UNCHANGED tab \/ tab' = [tab EXCEPT ![s] = r]
    BY <1>0 DEF doneSendingBitcoins, Become, Mine
  <1>3. r.pc \notin Getting
    BY <1>0 DEF Tab, Getting, Walking, Filling
  <1> QED BY <1>1, <1>2, <1>3, IdleRequest, RestRequest

LEMMA OthersRequest ==
  ASSUME ReqInv, NEW u \in Users, OtherLock(u) \/ OtherUnlock(u)
  PROVE  RequestInv'
  <1>1. UNCHANGED <<tab, page, jumped>> /\ TypeInv /\ account[u] \in Account
    BY ReqParts DEF OtherLock, OtherUnlock, hist, TypeInv, TypeOK
  <1>2. PICK a : /\ account' = [account EXCEPT ![u] = a]
                 /\ a.state = account[u].state /\ a.uuid = account[u].uuid
                 /\ a.set = account[u].set /\ a.page = account[u].page
    <2>1. CASE OtherLock(u)
      <3>1. PICK a : a = [account[u] EXCEPT !.locked = TRUE, !.cas = @ + 1]
        OBVIOUS
      <3>2. account' = [account EXCEPT ![u] = a]
        BY <2>1, <3>1 DEF OtherLock
      <3>3. /\ a.state = account[u].state /\ a.uuid = account[u].uuid
            /\ a.set = account[u].set /\ a.page = account[u].page
        BY <1>1, <3>1 DEF Account
      <3> QED BY <3>2, <3>3
    <2>2. CASE OtherUnlock(u)
      <3>1. PICK more \in {0, 1} :
              account' = [account EXCEPT ![u].locked = FALSE, ![u].cas = @ + 1, ![u].balance = @ + more]
        BY <2>2 DEF OtherUnlock
      <3>2. PICK a : a = [account[u] EXCEPT !.locked = FALSE, !.cas = @ + 1, !.balance = @ + more]
        OBVIOUS
      <3>3. account' = [account EXCEPT ![u] = a]
        BY <3>1, <3>2
      <3>4. /\ a.state = account[u].state /\ a.uuid = account[u].uuid
            /\ a.set = account[u].set /\ a.page = account[u].page
        BY <1>1, <3>2 DEF Account
      <3> QED BY <3>3, <3>4
    <2> QED BY <2>1, <2>2
  <1>3. AccountsStay
    BY <1>1, <1>2, StoredStays
  <1> QED BY <1>1, <1>3, RestRequest

\* What is found on a page: the request's key, room for it, or neither.
LEMMA LookedAtRequest ==
  ASSUME ReqInv, NEW s \in Tabs, NEW t, t = tab[s], t.pc \in {"getPage", "getNextPage"},
         Exists(t.set, t.page), tab' = [tab EXCEPT ![s] = LookedAt(t, page[t.set][t.page])],
         UNCHANGED <<account, page, jumped>>
  PROVE  RequestInv'
  <1>0. /\ t \in Tab /\ Wired(t) /\ t.pc \in Getting
        /\ t.set \in Sets /\ t.page \in Pages /\ t.uuid \in Uuids
    BY ReqParts, KeysParts DEF Wired, Getting, Walking
  <1>1. PICK n, y, q, p, c :
          n = t.set /\ y = t.page /\ q = t.uuid /\ p = page[n][y] /\ c = p.claims
    OBVIOUS
  <1>2. p \in KeyPage /\ c \in Seq(Uuids)
    <2>1. p \in KeyPage
      BY <1>0, <1>1, ReqParts DEF TypeInv, TypeOK, Exists
    <2> QED BY <1>1, <2>1 DEF KeyPage
  <1>3. FilledStays /\ (\A x : SameClaims(x)) /\ AccountsStay
    BY PagesSame, AccountsSame
  <1>4. PICK found, r1, r2, r3 :
          /\ found = ClaimedFor(c, q)
          /\ r1 = [t EXCEPT !.pc = "unlockAccount", !.key = <<p.range, Min(found)>>]
          /\ r2 = [t EXCEPT !.pc = "claimKey", !.seen = c, !.key = <<p.range, Len(c) + 1>>]
          /\ r3 = [t EXCEPT !.pc = "getNextPage", !.page = y + 1]
    OBVIOUS
  <1>5. \/ tab' = [tab EXCEPT ![s] = r1]
        \/ tab' = [tab EXCEPT ![s] = r2] /\ found = {}
        \/ tab' = [tab EXCEPT ![s] = r3] /\ found = {} /\ ~HasRoom(p)
    BY <1>1, <1>4, Zenon DEF LookedAt
  <1>6. CASE tab' = [tab EXCEPT ![s] = r1]
    <2>1. r1.pc = "unlockAccount" /\ r1.uuid = q /\ r1.set = n /\ r1.page = y
      BY <1>0, <1>1, <1>4 DEF Tab
    <2>2. r1.pc \in Getting /\ SawNone(r1)
      BY <2>1 DEF Getting, Walking, SawNone
    <2> QED BY <1>0, <1>1, <1>3, <1>6, <2>1, <2>2, WaitRequest
  <1>7. CASE tab' = [tab EXCEPT ![s] = r2] /\ found = {}
    <2>1. r2.pc = "claimKey" /\ r2.uuid = q /\ r2.set = n /\ r2.page = y /\ r2.seen = c
      BY <1>0, <1>1, <1>4 DEF Tab
    <2>2. \A i \in 1..Len(c) : c[i] # q
      BY <1>2, <1>4, <1>7 DEF ClaimedFor
    <2>3. r2.pc \in Getting /\ SawNone(r2)
      BY <2>1, <2>2 DEF Getting, Walking, SawNone
    <2> QED BY <1>0, <1>1, <1>3, <1>7, <2>1, <2>3, WaitRequest
  <1>8. CASE tab' = [tab EXCEPT ![s] = r3] /\ found = {} /\ ~HasRoom(p)
    <2>1. r3.pc = "getNextPage" /\ r3.uuid = q /\ r3.set = n /\ r3.page = y + 1
      BY <1>0, <1>1, <1>4 DEF Tab
    <2>2. y + 1 \in Pages /\ y + 1 # 0
      BY <1>0, <1>1, ReqParts, PageBound, PagesAreNumbers
    <2>3. Filled(n, y) /\ ~Claimed(q, n, y)
      <3>1. Filled(n, y)
        BY <1>1, <1>8 DEF Filled
      <3>2. \A i \in 1..Len(c) : c[i] # q
        BY <1>2, <1>4, <1>8 DEF ClaimedFor
      <3> QED BY <1>1, <3>1, <3>2 DEF Claimed, ClaimAt
    <2>4. tab'[s] = r3 /\ \A r \in Tabs : r # s => tab'[r] = tab[r]
      BY <1>8, ReqParts DEF TabsAre
    <2>5. \A m \in Sets, z \in Pages : IsAt(q, m, z)' => Near(q, m, z) \/ (m = n /\ z = y + 1)
      BY <2>1, <2>4 DEF Near, IsAt, TabAt
    <2>6. Near(q, n, y)
      BY <1>0, <1>1 DEF Near, IsAt, TabAt
    <2>7. q \notin jumped' => Together(q)'
      <3> SUFFICES ASSUME q \notin jumped PROVE Together(q)'
        OBVIOUS
      <3>1. Together(q)
        BY <1>0, <1>1, ReqParts
      <3> QED BY <1>0, <1>1, <2>2, <2>3, <2>5, <2>6, <3>1, TogetherNext
    <2>8. Young(s)' /\ SawNone(r3)
      BY <2>1, <2>2, <2>4 DEF Young, SawNone
    <2>9. \A r \in Tabs : r # s /\ tab[r].pc \in Getting /\ tab[r].page = 0 => tab[r].uuid # q
      BY <1>0, <1>1, ReqParts DEF Young
    <2> QED BY <1>3, <1>8, <2>1, <2>7, <2>8, <2>9, RequestStep
  <1> QED BY <1>5, <1>6, <1>7, <1>8

LEMMA GetPageRequest ==
  ASSUME ReqInv, NEW s \in Tabs, getPage(s) \/ getNextPage(s)
  PROVE  RequestInv'
  <1>0. PICK t : t = tab[s] /\ t \in Tab /\ Wired(t)
    BY ReqParts, KeysParts
  <1>1. /\ UNCHANGED <<account, page, jumped>> /\ t.pc \in {"getPage", "getNextPage"}
        /\ t.pc \in Getting /\ FilledStays /\ (\A q : SameClaims(q)) /\ AccountsStay
    BY <1>0, PagesSame, AccountsSame DEF getPage, getNextPage, docs, rest, hist, Getting, Walking
  <1>2. CASE ~Exists(t.set, t.page)
    <2>1. PICK r : r = [t EXCEPT !.pc = "getHugeCur"]
      OBVIOUS
    <2>2. Nothing(s) \/ tab' = [tab EXCEPT ![s] = r]
      BY <1>0, <1>2, <2>1 DEF getPage, getNextPage, Become, Exists
    <2>3. r.pc = "getHugeCur" /\ r.uuid = t.uuid /\ r.set = t.set /\ r.page = t.page
      BY <1>0, <2>1 DEF Tab
    <2>4. r.pc \in Getting /\ SawNone(r)
      BY <2>3 DEF Getting, Walking, SawNone
    <2> QED BY <1>0, <1>1, <2>2, <2>3, <2>4, NothingRequest, WaitRequest
  <1>3. CASE Exists(t.set, t.page)
    <2>1. tab' = [tab EXCEPT ![s] = LookedAt(t, page[t.set][t.page])]
      BY <1>0, <1>3 DEF getPage, getNextPage, Become, Exists
    <2> QED BY <1>0, <1>1, <1>3, <2>1, LookedAtRequest
  <1> QED BY <1>2, <1>3

\* The key is claimed where the tab is, on a page that has room and is as it was
\* seen.
LEMMA ClaimKeyRequest ==
  ASSUME ReqInv, NEW s \in Tabs, claimKey(s)
  PROVE  RequestInv'
  <1>0. PICK t : t = tab[s] /\ t \in Tab /\ Wired(t) /\ Knows(t)
    BY ReqParts, KeysParts
  <1>1. PICK n, y, q, c, l :
          n = t.set /\ y = t.page /\ q = t.uuid /\ c = t.seen /\ l = Len(t.seen) + 1
    OBVIOUS
  <1>2. /\ UNCHANGED <<account, jumped>> /\ t.pc = "claimKey" /\ t.pc \in Getting /\ AccountsStay
    BY <1>0, AccountsSame DEF claimKey, rest, hist, Getting, Walking
  <1>3. /\ n \in Sets /\ y \in Pages /\ q \in Uuids /\ c \in Seq(Uuids) /\ Len(c) < KeysPerPage
        /\ Exists(n, y) /\ y # 0
    BY <1>0, <1>1, <1>2, PagesAreNumbers DEF Wired, Knows, Getting, Walking
  <1>4. PICK r1, r2 :
          /\ r1 = [t EXCEPT !.pc = "unlockAccount", !.seen = <<>>]
          /\ r2 = [t EXCEPT !.pc = "getPage", !.seen = <<>>]
    OBVIOUS
  <1>5. /\ r1.pc = "unlockAccount" /\ r1.uuid = q /\ r1.set = n /\ r1.page = y
        /\ r2.pc = "getPage" /\ r2.uuid = q /\ r2.set = n /\ r2.page = y
    BY <1>0, <1>1, <1>4 DEF Tab
  <1>6. CASE Unchanged(t.seen, page[t.set][t.page].claims)
    <2>1. PICK p : p = [page[n][y] EXCEPT !.claims = Append(c, q)]
      OBVIOUS
    <2>2. page' = [page EXCEPT ![n][y] = p] /\ tab' = [tab EXCEPT ![s] = r1]
      BY <1>0, <1>1, <1>4, <1>6, <2>1 DEF claimKey, Become
    <2>3. page \in [Sets -> [Pages -> KeyPage \cup {NoPage}]] /\ page[n][y] \in KeyPage
      BY <1>3, ReqParts DEF TypeInv, TypeOK, Exists
    <2>4. c = page[n][y].claims /\ p.claims = Append(c, q)
      BY <1>1, <1>6, <2>1, <2>3 DEF Unchanged, KeyPage
    <2>5. \A m \in Sets, x \in Pages : page'[m][x] = IF m = n /\ x = y THEN p ELSE page[m][x]
      BY <1>3, <2>2, <2>3
    <2>6. \A i \in 1..Len(c) : c[i] # q
      BY <1>0, <1>1, <1>2, ReqParts DEF SawNone
    <2>7. ~Claimed(q, n, y) /\ ~Filled(n, y)
      BY <1>3, <2>4, <2>6 DEF Claimed, ClaimAt, Filled, HasRoom
    <2>8. Len(p.claims) = l /\ \A i \in 1..l : p.claims[i] = IF i = l THEN q ELSE c[i]
      BY <1>1, <1>3, <2>4
    <2>9. \A m \in Sets, x \in Pages, i \in 1..KeysPerPage : \A z :
            ClaimAt(m, x, i, z)' => ClaimAt(m, x, i, z) \/ (z = q /\ m = n /\ x = y /\ i = l)
      <3> SUFFICES ASSUME NEW m \in Sets, NEW x \in Pages, NEW i \in 1..KeysPerPage, NEW z,
                          ClaimAt(m, x, i, z)', ~(z = q /\ m = n /\ x = y /\ i = l)
                   PROVE  ClaimAt(m, x, i, z)
        OBVIOUS
      <3>1. CASE m = n /\ x = y
        <4>1. page'[m][x] = p /\ page[m][x].claims = c /\ Exists(m, x)
          BY <1>3, <2>4, <2>5, <3>1
        <4>2. i \in 1..l /\ p.claims[i] = z
          BY <2>8, <4>1 DEF ClaimAt
        <4>3. i # l /\ c[i] = z
          BY <2>8, <3>1, <4>2
        <4>4. i \in 1..Len(c)
          BY <1>1, <1>3, <4>2, <4>3
        <4> QED BY <4>1, <4>3, <4>4 DEF ClaimAt
      <3>2. CASE ~(m = n /\ x = y)
        BY <2>5, <3>2 DEF ClaimAt, Exists
      <3> QED BY <3>1, <3>2
    <2>10. FilledStays
      BY <2>5, <2>7 DEF FilledStays, Filled, Exists, HasRoom
    <2>11. tab'[s] = r1 /\ \A r \in Tabs : r # s => tab'[r] = tab[r]
      BY <2>2, ReqParts DEF TabsAre
    <2>12. r1.pc \in Getting /\ r1.page # 0 /\ SawNone(r1)
      BY <1>3, <1>5 DEF Getting, Walking, SawNone
    <2>13. Near(q, n, y)
      BY <1>0, <1>1, <1>2 DEF Near, IsAt, TabAt
    <2>14. \A m \in Sets, x \in Pages : IsAt(q, m, x)' => IsAt(q, m, x)
      BY <1>0, <1>1, <1>2, <1>5, <2>11 DEF IsAt, TabAt
    <2>15. q \notin jumped' => Together(q)'
      <3> SUFFICES ASSUME q \notin jumped PROVE Together(q)'
        BY <1>2
      <3>1. Together(q)
        BY <1>3, ReqParts
      <3>2. OneMore(q, n, y, l)
        BY <2>9 DEF OneMore
      <3> QED BY <1>3, <2>7, <2>10, <2>13, <2>14, <3>1, <3>2, TogetherClaims
    <2>16. \A z \in Uuids : z # q => SameClaims(z)
      BY <2>9 DEF SameClaims
    <2>17. \A r \in Tabs : r # s /\ tab[r].pc \in Getting /\ tab[r].page = 0 => tab[r].uuid # q
      BY <1>0, <1>1, <1>2, ReqParts DEF Young
    <2>18. Young(s)'
      BY <2>11, <2>12 DEF Young
    <2> QED BY <1>2, <1>5, <2>2, <2>10, <2>12, <2>15, <2>16, <2>17, <2>18, RequestStep
  <1>7. CASE ~Unchanged(t.seen, page[t.set][t.page].claims)
    <2>1. UNCHANGED page /\ tab' = [tab EXCEPT ![s] = r2]
      BY <1>0, <1>4, <1>7 DEF claimKey, Become
    <2>2. r2.pc \in Getting /\ SawNone(r2)
      BY <1>5 DEF Getting, Walking, SawNone
    <2>3. FilledStays /\ \A z : SameClaims(z)
      BY <2>1, PagesSame
    <2> QED BY <1>0, <1>1, <1>2, <1>5, <2>1, <2>2, <2>3, WaitRequest
  <1> QED BY <1>6, <1>7

LEMMA AddPageRequest ==
  ASSUME ReqInv, NEW s \in Tabs, addPage(s)
  PROVE  RequestInv'
  <1>0. PICK t : t = tab[s] /\ t \in Tab /\ Wired(t)
    BY ReqParts, KeysParts
  <1>1. PICK n, y, r, p :
          /\ n = t.set /\ y = t.page /\ p = [range |-> t.range, claims |-> <<>>]
          /\ r = [t EXCEPT !.pc = "unlockSet", !.range = NoPage]
    OBVIOUS
  <1>2. /\ t.pc \in Getting /\ UNCHANGED jumped /\ AccountsStay /\ tab' = [tab EXCEPT ![s] = r]
        /\ n \in Sets /\ y \in Pages
    BY <1>0, <1>1, AccountsSame DEF addPage, Become, rest, hist, Wired, Getting, Filling
  <1>3. \A m \in Sets, x \in Pages :
          page'[m][x] = IF m = n /\ x = y /\ page[n][y] = NoPage THEN p ELSE page[m][x]
    <2>1. page \in [Sets -> [Pages -> KeyPage \cup {NoPage}]]
      BY ReqParts DEF TypeInv, TypeOK
    <2> QED BY <1>0, <1>1, <1>2, <2>1 DEF addPage
  <1>4. FilledStays
    BY <1>3 DEF FilledStays, Filled, Exists, HasRoom
  <1>5. \A q : SameClaims(q)
    <2>1. Len(p.claims) = 0
      BY <1>1, EmptySeq
    <2> QED BY <1>3, <2>1 DEF SameClaims, ClaimAt, Exists
  <1>6. r.pc = "unlockSet" /\ r.uuid = t.uuid /\ r.set = t.set /\ r.page = t.page
    BY <1>0, <1>1 DEF Tab
  <1>7. r.pc \in Getting /\ SawNone(r)
    BY <1>6 DEF Getting, Filling, SawNone
  <1> QED BY <1>0, <1>2, <1>4, <1>5, <1>6, <1>7, WaitRequest

LEMMA FillsRequest ==
  ASSUME ReqInv, NEW s \in Tabs,
         \/ hugeCurrentPageGetComplete(s) \/ lockSet(s) \/ getHugePage(s) \/ changeHugeCur(s)
         \/ claimRange(s) \/ relockSet(s) \/ unlockSet(s)
  PROVE  RequestInv'
  <1>0. PICK t : t = tab[s] /\ t \in Tab
    BY ReqParts, KeysParts
  <1>1. /\ UNCHANGED <<account, page, jumped>> /\ FilledStays /\ (\A q : SameClaims(q))
        /\ AccountsStay
    BY PagesSame, AccountsSame DEF hugeCurrentPageGetComplete, lockSet, getHugePage, changeHugeCur,
       claimRange, relockSet, unlockSet, docs, rest, hist
  <1>2. CASE Nothing(s)
    BY <1>1, <1>2, NothingRequest
  <1> DEFINE On(r) == /\ r.pc \in Getting \ {"claimKey"} /\ r.uuid = t.uuid
                      /\ r.set = t.set /\ r.page = t.page
  <1>3. CASE \E r : tab' = [tab EXCEPT ![s] = r] /\ On(r) /\ t.pc \in Getting
    BY <1>0, <1>1, <1>3, WaitRequest DEF SawNone
  <1>4. CASE hugeCurrentPageGetComplete(s)
    <2> DEFINE r == [t EXCEPT !.pc = "lockSet", !.fromCur = TRUE, !.hugeCas = hugeCur.cas,
                              !.z = hugeCur.page, !.z0 = hugeCur.page]
    <2>1. tab' = [tab EXCEPT ![s] = r] /\ t.pc \in Getting
      BY <1>0, <1>4 DEF hugeCurrentPageGetComplete, Become, Getting, Walking
    <2>2. On(r)
      BY <1>0 DEF Tab, Getting, Walking
    <2> HIDE DEF r
    <2> QED BY <1>3, <2>1, <2>2
  <1>5. CASE lockSet(s)
    <2> DEFINE r == [t EXCEPT !.pc = "getHugePage", !.cas = cur[t.set].cas + 1]
    <2>1. (tab' = [tab EXCEPT ![s] = r] \/ Nothing(s)) /\ t.pc \in Getting
      BY <1>0, <1>5 DEF lockSet, Become, Getting, Walking
    <2>2. On(r)
      BY <1>0 DEF Tab, Getting, Filling
    <2> HIDE DEF r
    <2> QED BY <1>2, <1>3, <2>1, <2>2
  <1>6. CASE getHugePage(s)
    <2> DEFINE found == ClaimedFor(huge[t.z], Fill(t))
               r0 == [t EXCEPT !.pc = "relockSet"]
               r1 == [t EXCEPT !.pc = "addPage", !.range = <<t.z, Min(found)>>]
               r2 == [t EXCEPT !.pc = "claimRange", !.seen = huge[t.z],
                               !.range = <<t.z, Len(huge[t.z]) + 1>>]
               r3 == [t EXCEPT !.pc = IF t.fromCur THEN "changeHugeCur" ELSE @, !.z = @ + 1]
    <2>1. t.pc = "getHugePage" /\ t.pc \in Getting
      BY <1>0, <1>6 DEF getHugePage, Getting, Filling
    <2>2. \/ Nothing(s)
          \/ \E r \in {r0, r1, r2, r3} : tab' = [tab EXCEPT ![s] = r]
      BY <1>0, <1>6, Zenon DEF getHugePage, Become
    <2>3. On(r0) /\ On(r1) /\ On(r2)
      BY <1>0 DEF Tab, Getting, Filling
    <2>4. On(r3)
      BY <1>0, <2>1 DEF Tab, Getting, Filling
    <2> HIDE DEF r0, r1, r2, r3
    <2>5. \A r \in {r0, r1, r2, r3} : On(r)
      BY <2>3, <2>4
    <2> QED BY <1>2, <1>3, <2>1, <2>2, <2>5
  <1>7. CASE changeHugeCur(s)
    <2> DEFINE r == [t EXCEPT !.pc = "getHugePage"]
    <2>1. tab' = [tab EXCEPT ![s] = r] /\ t.pc \in Getting
      BY <1>0, <1>7 DEF changeHugeCur, Become, Getting, Filling
    <2>2. On(r)
      BY <1>0 DEF Tab, Getting, Filling
    <2> HIDE DEF r
    <2> QED BY <1>3, <2>1, <2>2
  <1>8. CASE claimRange(s)
    <2> DEFINE r1 == [t EXCEPT !.pc = "addPage", !.seen = <<>>]
               r2 == [t EXCEPT !.pc = "getHugePage", !.seen = <<>>]
    <2>1. \E r \in {r1, r2} : tab' = [tab EXCEPT ![s] = r]
      BY <1>0, <1>8, Zenon DEF claimRange, Become
    <2>2. t.pc \in Getting
      BY <1>0, <1>8 DEF claimRange, Getting, Filling
    <2>3. On(r1) /\ On(r2)
      BY <1>0 DEF Tab, Getting, Filling
    <2> HIDE DEF r1, r2
    <2> QED BY <1>3, <2>1, <2>2, <2>3
  <1>9. CASE relockSet(s)
    BY <1>2, <1>9 DEF relockSet
  <1>10. CASE unlockSet(s)
    <2> DEFINE r1 == [t EXCEPT !.pc = IF t.again THEN "getPage" ELSE "lockAccount"]
               r2 == [t EXCEPT !.pc = "analyze"]
    <2>1. \E r \in {r1, r2} : tab' = [tab EXCEPT ![s] = r]
      BY <1>0, <1>10, Zenon DEF unlockSet, Become, Proceeding
    <2>2. t.pc \in Getting
      BY <1>0, <1>10 DEF unlockSet, Getting, Filling
    <2>3. On(r1) /\ On(r2)
      BY <1>0 DEF Tab, Getting, Walking
    <2> HIDE DEF r1, r2
    <2> QED BY <1>3, <2>1, <2>2, <2>3
  <1> QED BY <1>4, <1>5, <1>6, <1>7, <1>8, <1>9, <1>10

LEMMA InitRequest == Init => RequestInv
  <1> SUFFICES ASSUME Init PROVE RequestInv
    OBVIOUS
  <1>1. \A s \in Tabs : tab[s].pc \notin Getting
    BY NewTabKnows DEF Init, Getting, Walking, Filling
  <1>2. \A u \in Users : account[u].state # "GettingKey"
    BY DEF Init, NewAccount
  <1>3. \A n \in Sets, y \in Pages : \A i, q : ~ClaimAt(n, y, i, q)
    BY InitUnclaimed
  <1>4. \A n \in Sets, y \in Pages : \A q : ~Near(q, n, y)
    BY <1>1, <1>2, <1>3 DEF Near, IsAt, TabAt, AccountAt, Claimed
  <1>5. \A q : Together(q)
    BY <1>3, <1>4 DEF Together
  <1>6. \A s \in Tabs : Young(s) /\ SawNone(tab[s])
    BY <1>1 DEF Young, SawNone, Getting, Walking
  <1> QED BY <1>5, <1>6 DEF RequestInv

LEMMA NextRequest ==
  ASSUME ReqInv, TypeInv', [Next]_vars
  PROVE  RequestInv'
  <1>1. ASSUME NEW s \in Tabs, TabStep(s) PROVE RequestInv'
    <2>1. ASSUME NEW u \in Users, determineBitcoinState(s, u) PROVE RequestInv'
      <3>1. UNCHANGED <<account, page, jumped>> /\ ShowKey(s, u, account[u].key)
        BY <2>1 DEF determineBitcoinState, docs, rest, hist
      <3> QED BY <3>1, AccountsSame, ShowKeyRequest
    <2>2. ASSUME Close(s) \/ Crash(s) PROVE RequestInv'
      <3>1. Nothing(s) /\ UNCHANGED <<account, page, jumped>>
        BY <2>2 DEF Close, Crash, docs, rest, hist, Nothing
      <3> QED BY <3>1, AccountsSame, NothingRequest
    <2> QED BY <1>1, <2>1, <2>2, CheckedRequest, AnalyzeRequest, LockAccountRequest, GetPageRequest,
         ClaimKeyRequest, UnlockAccountRequest, FillsRequest, AddPageRequest, DoneSendingRequest,
         CreditRequest DEF TabStep
  <1>2. ASSUME addHugeBitcoinKeyListPage \/ UNCHANGED vars PROVE RequestInv'
    <2>1. UNCHANGED <<account, page, tab, jumped>>
      BY <1>2 DEF addHugeBitcoinKeyListPage, vars, docs, rest, hist
    <2> QED BY <2>1, AccountsSame, RestRequest
  <1> QED BY <1>1, <1>2, OthersRequest DEF Next

\* ReqInv is an inductive invariant: all that goes on for a request goes on in
\* one set, on pages with none between that has room, and none before that has a
\* key for it.
THEOREM RequestInvariant == Spec => []ReqInv
  <1>1. Init => ReqInv
    BY InitType, InitFill, InitOwn, InitRequest DEF ReqInv, KeysInv, PagesInv
  <1>2. ReqInv /\ [Next]_vars => ReqInv'
    BY NextType, NextFill, NextOwn, NextRequest DEF ReqInv, KeysInv, PagesInv
  <1> QED BY <1>1, <1>2, PTL DEF Spec

\* A request has one key at most claimed for it, whichever of its tabs die after
\* the claim and take it up again, unless one was moved to a page that was being
\* added (addfundsaccounttabbody.cpp, the search of a page for the request's uuid).
THEOREM OneKeyForRequest == Spec => []OneKeyPerRequest
  <1>1. ReqInv => OneKeyPerRequest
    <2> SUFFICES ASSUME ReqInv, NEW q \in Uuids \ jumped PROVE Cardinality(ClaimsOf(q)) <= 1
      BY DEF OneKeyPerRequest
    <2>1. TypeInv /\ ClaimsAre /\ Together(q)
      BY ReqParts, ClaimsOfAre
    <2>2. \A k, h \in ClaimsOf(q) : k = h
      <3> SUFFICES ASSUME NEW k \in ClaimsOf(q), NEW h \in ClaimsOf(q) PROVE k = h
        OBVIOUS
      <3>1. PICK n \in Sets, y \in Pages, i \in Nat : ClaimAt(n, y, i, q) /\ k = KeyAt(n, y, i)
        BY <2>1, ClaimsArePick
      <3>2. PICK m \in Sets, x \in Pages, j \in Nat : ClaimAt(m, x, j, q) /\ h = KeyAt(m, x, j)
        BY <2>1, ClaimsArePick
      <3>3. /\ i \in 1..KeysPerPage /\ Claimed(q, n, y) /\ j \in 1..KeysPerPage /\ Claimed(q, m, x)
        BY <2>1, <3>1, <3>2, ClaimsFit
      <3>4. Near(q, n, y) /\ Near(q, m, x)
        BY <3>3 DEF Near
      <3>5. n = m /\ x >= y /\ y >= x
        BY <2>1, <3>3, <3>4 DEF Together
      <3>6. x = y
        BY <3>5, PagesAreNumbers
      <3>7. i = j
        BY <2>1, <3>1, <3>2, <3>3, <3>5, <3>6 DEF Together
      <3> QED BY <3>1, <3>2, <3>5, <3>6, <3>7
    <2>3. CASE ClaimsOf(q) = {}
      BY <2>3, FS_EmptySet
    <2>4. CASE ClaimsOf(q) # {}
      <3>1. PICK k : k \in ClaimsOf(q)
        BY <2>4
      <3>2. ClaimsOf(q) = {k}
        BY <2>2, <3>1, Zenon
      <3>3. Cardinality(ClaimsOf(q)) = 1
        BY <3>2, FS_Singleton, Zenon
      <3> QED BY <3>3
    <2> QED BY <2>3, <2>4
  <1> QED BY <1>1, RequestInvariant, PTL

=============================================================================
