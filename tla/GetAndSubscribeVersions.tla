----------------------- MODULE GetAndSubscribeVersions -----------------------
(***************************************************************************)
(* More theorems about GetAndSubscribe: versions only grow, on their way    *)
(* from a document to its cache item and to the pages.  A page running      *)
(* JavaScript is told of them in order, and knows no more than the item.    *)
(* A page without has one thing on its way, which is what it waits for and  *)
(* as new as the document was when it asked.                                *)
(***************************************************************************)
EXTENDS GetAndSubscribeProofs

-----------------------------------------------------------------------------
(* Invariants.                                                              *)

\* What session s shows, or will show.
Posted(s) == {inbox[s][i].what : i \in 1..Len(inbox[s])}
Seen(s)   == {gui[s].shown} \cup Posted(s)

\* Session s has seen nothing of document k that is newer than v.
NotNewer(s, k, v) == \A w \in Seen(s) : w.key = k => w.cas <= v

\* No copy is newer than its document, and what a poll brings is as new as the item.
VersionsOK ==
  /\ \A k \in Keys :
       /\ item[k].cas <= doc[k]
       /\ poll[k].phase = "answered" => item[k].cas <= poll[k].cas /\ poll[k].cas <= doc[k]
  /\ \A d \in direct : d.phase = "answered" => d.cas <= doc[d.msg.key]
  /\ \A s \in Sessions : \A w \in Seen(s) :
       IF w.key = NoKey THEN w.cas = 0 ELSE w.cas <= doc[w.key]

\* What a session is posted of a document is in the order of its versions.
InOrder(s) ==
  /\ \A w \in Posted(s) : w.key = gui[s].shown.key => gui[s].shown.cas <= w.cas
  /\ \A i, j \in 1..Len(inbox[s]) :
       i < j /\ inbox[s][i].what.key = inbox[s][j].what.key =>
         inbox[s][i].what.cas <= inbox[s][j].what.cas

\* It has seen no more of a document than its item.
ItemsAreNew(s) ==
  \A k \in Keys :
    /\ item[k].cas > 0 => NotNewer(s, k, item[k].cas)
    /\ poll[k].phase = "answered" => NotNewer(s, k, poll[k].cas)

NewsInv == \A s \in Js : /\ InOrder(s) /\ ItemsAreNew(s)
                         /\ \A d \in direct : d.msg.from = s => d.msg.mode = "store"
\* What a session without JavaScript asked for is in one place, at, or in none: in
\* a queue, under way by itself, in a cache item, or posted.
IsNow(s, sid) == sid = gui[s].sid

Queued(s, at) ==
  \A m \in wire : m.from = s /\ IsNow(s, m.sid) =>
    /\ at = "wire" /\ m.n = gui[s].sent
    /\ \/ m.mode = "single" /\ gui[s].waits = "page" /\ gui[s].on = m.key
       \/ m.mode = "store" /\ gui[s].waits = "store"

UnderWay(s, at) ==
  \A d \in direct : d.msg.from = s /\ IsNow(s, d.msg.sid) =>
    /\ at = "direct" /\ d.msg.n = gui[s].sent
    /\ \/ /\ d.msg.mode = "single" /\ gui[s].waits = "page" /\ gui[s].on = d.msg.key
          /\ d.phase = "answered" => asked[s] <= d.cas
       \/ d.msg.mode = "store" /\ gui[s].waits = "store"

IsKept(s, k)   == item[k].new[s] # Nobody /\ IsNow(s, item[k].new[s].sid)
PollsFor(s, k) == poll[k].phase # "none" /\ poll[k].by = s /\ IsNow(s, poll[k].sid)

\* The poll after next brings what is as new as the document was: "single" lets the
\* one pass that was on its way.
Held(s, at) ==
  \A k \in Keys : IsKept(s, k) \/ PollsFor(s, k) =>
    /\ at = "item" /\ gui[s].waits = "page" /\ gui[s].on = k
    /\ IsKept(s, k) /\ item[k].new[s].mode = "next" /\ poll[k].phase = "answered" =>
         asked[s] <= poll[k].cas

Arrived(s, at) ==
  inbox[s] # <<>> =>
    /\ at = "inbox" /\ Len(inbox[s]) = 1
    /\ LET p == Head(inbox[s]) IN
       \/ /\ p.to = "page" /\ gui[s].waits = "page"
          /\ p.what # Blank => p.what.key = gui[s].on /\ asked[s] <= p.what.cas
       \/ p.to = "store" /\ p.what = Blank /\ gui[s].waits = "store"

\* It waits for it, and knows no version of the document from after it asked.
Waits(s, at) ==
  /\ gui[s].waits = "no" => at = "none"
  /\ gui[s].waits # "page" => gui[s].on = NoKey
  /\ gui[s].waits = "page" =>
       /\ gui[s].on \in Keys /\ asked[s] <= doc[gui[s].on]
       /\ gui[s].shown.key = gui[s].on => gui[s].shown.cas <= asked[s]

Once(s, at) == Queued(s, at) /\ UnderWay(s, at) /\ Held(s, at) /\ Arrived(s, at) /\ Waits(s, at)

\* It says little, and the backend keeps no more than that of it.
SaysLittle(s) ==
  /\ \A m \in wire : m.from = s => m.mode \in {"single", "store", "unsubscribe"}
  /\ \A k \in Keys : /\ item[k].old[s] = Nobody /\ item[k].chg[s] = <<>>
                     /\ item[k].new[s].mode # "subscribe" /\ item[k].new[s].sid <= gui[s].sid
                     /\ poll[k].phase # "none" /\ poll[k].by = s => poll[k].sid <= gui[s].sid

OnceIn(s) == SaysLittle(s) /\ \E at \in {"none", "wire", "direct", "item", "inbox"} : Once(s, at)

OnceInv == \A s \in Sessions \ Js : OnceIn(s)

-----------------------------------------------------------------------------
(* What a step posts.                                                       *)

\* Session s is told version v of document k, or of none, or nothing at all.
Tells(s, k, v) ==
  /\ gui'[s].shown = gui[s].shown
  /\ \E q \in Seq(Post) :
       /\ inbox'[s] = inbox[s] \o q
       /\ \A i \in 1..Len(q) : q[i].what = Blank \/ (v > 0 /\ q[i].what = [key |-> k, cas |-> v])

LEMMA SeenTypes ==
  ASSUME TypeOK, NEW s \in Sessions
  PROVE  /\ gui[s].shown \in Shown /\ \A i \in 1..Len(inbox[s]) : inbox[s][i] \in Post
         /\ \A w \in Seen(s) : w \in Shown /\ w.key \in Keys \cup {NoKey} /\ w.cas \in Nat
  <1>1. gui[s] \in Gui /\ inbox[s] \in Seq(Post)
    BY TypeParts
  <1>2. gui[s].shown \in Shown
    BY <1>1 DEF Gui
  <1>3. \A i \in 1..Len(inbox[s]) : inbox[s][i] \in Post
    BY <1>1
  <1>4. \A i \in 1..Len(inbox[s]) : inbox[s][i].what \in Shown
    BY <1>3 DEF Post
  <1>5. \A w \in Seen(s) : w \in Shown
    BY <1>2, <1>4 DEF Seen, Posted
  <1>6. \A w \in Shown : w.key \in Keys \cup {NoKey} /\ w.cas \in Nat
    BY Bounds DEF Shown
  <1> QED BY <1>2, <1>3, <1>5, <1>6

LEMMA NothingTold ==
  ASSUME NEW s, inbox[s] \in Seq(Post), inbox'[s] = inbox[s], gui'[s].shown = gui[s].shown
  PROVE  \A k, v : Tells(s, k, v)
  <1>1. PICK q : q = <<>> /\ q \in Seq(Post) /\ Len(q) = 0
    BY EmptySeq
  <1>2. inbox[s] \o q = inbox[s]
    BY <1>1
  <1>3. ~\E i \in 1..Len(q) : TRUE
    BY <1>1
  <1> QED BY <1>1, <1>2, <1>3 DEF Tells

\* What one post tells, if it arrives.
LEMMA OnePostTold ==
  ASSUME TypeOK, NEW s \in Sessions, NEW sid, NEW k, NEW v, NEW p \in Post,
         p.what = Blank \/ (v > 0 /\ p.what = [key |-> k, cas |-> v]),
         inbox'[s] = inbox[s] \o Post1(s, sid, p), gui'[s].shown = gui[s].shown
  PROVE  Tells(s, k, v)
  <1>1. PICK q : q = Post1(s, sid, p)
    OBVIOUS
  <1>2. q = <<>> \/ q = <<p>>
    BY <1>1 DEF Post1
  <1>3. q \in Seq(Post) /\ \A i \in 1..Len(q) : q[i] = p
    <2>1. CASE q = <<>>
      BY <2>1
    <2>2. CASE q = <<p>>
      BY <2>2
    <2> QED BY <1>2, <2>1, <2>2
  <1> QED BY <1>1, <1>3 DEF Tells

LEMMA PageTold ==
  ASSUME NEW k \in Keys, NEW v \in Version
  PROVE  LET p == Page(k, v) IN
         p \in Post /\ (p.what = Blank \/ (v > 0 /\ p.what = [key |-> k, cas |-> v]))
  <1>1. v \in Nat
    BY Bounds
  <1>2. Page(k, v) \in Post
    BY Posts
  <1> QED BY <1>1, <1>2 DEF Page

\* A session that is told something no older than what it has seen is told in order.
LEMMA ToldInOrder ==
  ASSUME TypeOK, NEW s \in Sessions, NEW k \in Keys, NEW v \in Nat, Tells(s, k, v),
         \A w \in Seen(s) : w.key = NoKey => w.cas = 0
  PROVE  /\ Seen(s)' \subseteq Seen(s) \cup {Blank} \cup (IF v > 0 THEN {[key |-> k, cas |-> v]} ELSE {})
         /\ InOrder(s) /\ (v > 0 => NotNewer(s, k, v)) => InOrder(s)'
  <1>1. PICK q \in Seq(Post) :
          /\ inbox'[s] = inbox[s] \o q
          /\ \A i \in 1..Len(q) : q[i].what = Blank \/ (v > 0 /\ q[i].what = [key |-> k, cas |-> v])
    BY DEF Tells
  <1>2. PICK b, c, m, n : /\ b = inbox[s] /\ c = inbox'[s] /\ m = Len(b) /\ n = Len(c)
    OBVIOUS
  <1>3. b \in Seq(Post) /\ m \in Nat /\ Len(q) \in Nat /\ n = m + Len(q)
    BY <1>1, <1>2, TypeParts
  <1>4. /\ \A i \in 1..m : i \in 1..n /\ c[i] = b[i]
        /\ \A i \in 1..n : i \notin 1..m => i - m \in 1..Len(q) /\ c[i] = q[i - m] /\ i > m
    BY <1>1, <1>2, <1>3
  <1>5. PICK N : N = {Blank} \cup (IF v > 0 THEN {[key |-> k, cas |-> v]} ELSE {})
    OBVIOUS
  <1>6. \A i \in 1..n : (i \in 1..m /\ c[i] = b[i]) \/ (i > m /\ c[i].what \in N)
    BY <1>1, <1>4, <1>5
  <1>7. gui'[s].shown = gui[s].shown
    BY DEF Tells
  <1>8. Seen(s)' \subseteq Seen(s) \cup N
    BY <1>2, <1>6, <1>7 DEF Seen, Posted
  <1>9. ASSUME InOrder(s), v > 0 => NotNewer(s, k, v) PROVE InOrder(s)'
    <2>1. \A w \in Seen(s), x \in N : w.key = x.key => w.cas <= x.cas
      <3>1. \A w \in Seen(s) : w.cas \in Nat
        BY SeenTypes
      <3>2. k # NoKey /\ Blank.key = NoKey /\ Blank.cas = 0
        BY Bounds, EmptyStart
      <3> QED BY <1>5, <1>9, <3>1, <3>2 DEF NotNewer
    <2>2. \A x, y \in N : x.key = y.key => x.cas <= y.cas
      <3>1. k # NoKey /\ Blank.key = NoKey /\ Blank.cas = 0
        BY Bounds, EmptyStart
      <3> QED BY <1>5, <3>1
    <2>3. gui[s].shown \in Seen(s) /\ \A i \in 1..m : b[i].what \in Seen(s)
      BY <1>2 DEF Seen, Posted
    <2>4. \A i \in 1..n : c[i].what.key = gui[s].shown.key => gui[s].shown.cas <= c[i].what.cas
      <3>1. \A i \in 1..m : b[i].what.key = gui[s].shown.key => gui[s].shown.cas <= b[i].what.cas
        BY <1>2, <1>9 DEF InOrder, Posted
      <3> QED BY <1>6, <2>1, <2>3, <3>1
    <2>5. ASSUME NEW i \in 1..n, NEW j \in 1..n, i < j, c[i].what.key = c[j].what.key
          PROVE  c[i].what.cas <= c[j].what.cas
      <3>1. CASE j \in 1..m
        <4>1. i \in 1..m /\ c[i] = b[i] /\ c[j] = b[j]
          BY <1>3, <1>4, <2>5, <3>1
        <4> QED BY <1>2, <1>9, <2>5, <3>1, <4>1 DEF InOrder
      <3>2. CASE j \notin 1..m /\ i \in 1..m
        <4>1. c[i] = b[i] /\ b[i].what \in Seen(s) /\ c[j].what \in N
          BY <1>4, <1>6, <2>3, <3>2
        <4> QED BY <2>1, <2>5, <4>1
      <3>3. CASE j \notin 1..m /\ i \notin 1..m
        <4>1. c[i].what \in N /\ c[j].what \in N
          BY <1>6, <3>3
        <4> QED BY <2>2, <2>5, <4>1
      <3> QED BY <3>1, <3>2, <3>3
    <2> QED BY <1>2, <1>7, <2>4, <2>5 DEF InOrder, Posted
  <1> QED BY <1>5, <1>8, <1>9

-----------------------------------------------------------------------------
(* What each step does to versions, and to what sessions see.               *)

LEMMA SessionSees ==
  ASSUME TypeOK, NEW s \in Sessions, SessionStep(s)
  PROVE  /\ UNCHANGED <<doc, item, poll, direct>>
         /\ \A q \in Sessions : q # s => inbox'[q] = inbox[q] /\ gui'[q] = gui[q]
         /\ Seen(s)' \subseteq Seen(s) \cup {Blank}
         /\ InOrder(s) => InOrder(s)'
  <1>0. PICK g : g = gui[s] /\ g \in Gui
    BY TypeParts
  <1>1. inbox[s] \in Seq(Post) /\ inbox \in [Sessions -> Seq(Post)] /\ gui \in [Sessions -> Gui]
    BY DEF TypeOK
  <1>2. ASSUME UNCHANGED <<doc, item, poll, direct>>, NEW h \in Gui, NEW msgs, Send(s, msgs, h),
               \/ inbox' = inbox /\ h.shown = g.shown
               \/ inbox' = [inbox EXCEPT ![s] = <<>>] /\ (h.shown = g.shown \/ h.shown = Blank)
        PROVE  /\ \A q \in Sessions : q # s => inbox'[q] = inbox[q] /\ gui'[q] = gui[q]
               /\ Seen(s)' \subseteq Seen(s) \cup {Blank}
               /\ InOrder(s) => InOrder(s)'
    <2>1. gui'[s].shown = h.shown /\ \A q \in Sessions : q # s => gui'[q] = gui[q]
      BY <1>2, SendEffect
    <2>2. CASE inbox' = inbox /\ h.shown = g.shown
      BY <1>0, <2>1, <2>2 DEF Seen, Posted, InOrder
    <2>3. CASE inbox' = [inbox EXCEPT ![s] = <<>>] /\ (h.shown = g.shown \/ h.shown = Blank)
      <3>1. inbox'[s] = <<>> /\ \A q \in Sessions : q # s => inbox'[q] = inbox[q]
        BY <1>1, <2>3
      <3>2. ~\E i \in 1..Len(inbox'[s]) : TRUE
        BY <3>1
      <3> QED BY <1>0, <2>1, <2>3, <3>1, <3>2 DEF Seen, Posted, InOrder
    <2> QED BY <1>2, <2>2, <2>3
  <1>3. ASSUME NEW k \in Keys, ShowCampaign(s, k)
        PROVE  \E msgs, h : /\ UNCHANGED <<doc, item, poll, direct>> /\ h \in Gui
                            /\ Send(s, msgs, h) /\ inbox' = inbox /\ h.shown = g.shown
    <2>1. PICK h : h = [g EXCEPT !.on = k, !.made = TRUE, !.waits = IF g.made THEN "no" ELSE "page"]
      OBVIOUS
    <2>2. h \in Gui /\ h.shown = g.shown
      BY <1>0, <2>1 DEF Gui
    <2>3. UNCHANGED <<doc, item, poll, direct>> /\ inbox' = inbox /\ \E msgs : Send(s, msgs, h)
      BY <1>0, <1>3, <2>1 DEF ShowCampaign, backend
    <2> QED BY <2>2, <2>3
  <1>4. ASSUME NEW k \in Keys, ShowCampaignOnce(s, k)
        PROVE  \E msgs, h : /\ UNCHANGED <<doc, item, poll, direct>> /\ h \in Gui
                            /\ Send(s, msgs, h) /\ inbox' = inbox /\ h.shown = g.shown
    <2>1. PICK h : h = [g EXCEPT !.on = k, !.waits = "page"]
      OBVIOUS
    <2>2. h \in Gui /\ h.shown = g.shown
      BY <1>0, <2>1 DEF Gui
    <2>3. UNCHANGED <<doc, item, poll, direct>> /\ inbox' = inbox /\ \E msgs : Send(s, msgs, h)
      BY <1>0, <1>4, <2>1 DEF ShowCampaignOnce, backend
    <2> QED BY <2>2, <2>3
  <1>5. ASSUME NEW k \in Keys, StoreDocument(s, k)
        PROVE  \E msgs, h : /\ UNCHANGED <<doc, item, poll, direct>> /\ h \in Gui
                            /\ Send(s, msgs, h) /\ inbox' = inbox /\ h.shown = g.shown
    <2>1. PICK h : h = [g EXCEPT !.waits = "store"]
      OBVIOUS
    <2>2. h \in Gui /\ h.shown = g.shown
      BY <1>0, <2>1 DEF Gui
    <2>3. UNCHANGED <<doc, item, poll, direct>> /\ inbox' = inbox /\ \E msgs : Send(s, msgs, h)
      BY <1>0, <1>5, <2>1 DEF StoreDocument, backend
    <2> QED BY <2>2, <2>3
  <1>6. ASSUME unsubscribeIfSubscribedToAnything(s)
        PROVE  \E msgs, h : /\ UNCHANGED <<doc, item, poll, direct>> /\ h \in Gui
                            /\ Send(s, msgs, h) /\ inbox' = inbox /\ h.shown = g.shown
    <2>1. PICK h : h = [g EXCEPT !.on = NoKey]
      OBVIOUS
    <2>2. h \in Gui /\ h.shown = g.shown
      BY <1>0, <2>1 DEF Gui
    <2>3. UNCHANGED <<doc, item, poll, direct>> /\ inbox' = inbox /\ \E msgs : Send(s, msgs, h)
      BY <1>0, <1>6, <2>1 DEF unsubscribeIfSubscribedToAnything, backend
    <2> QED BY <2>2, <2>3
  <1>7. ASSUME Login(s)
        PROVE  \E msgs, h : /\ UNCHANGED <<doc, item, poll, direct>> /\ h \in Gui
                            /\ Send(s, msgs, h) /\ inbox' = [inbox EXCEPT ![s] = <<>>]
                            /\ h.shown = g.shown
    <2>1. PICK h : h = [g EXCEPT !.sid = @ + 1]
      OBVIOUS
    <2>2. h \in Gui /\ h.shown = g.shown
      BY <1>0, <2>1 DEF Gui, Sids
    <2>3. /\ UNCHANGED <<doc, item, poll, direct>> /\ inbox' = [inbox EXCEPT ![s] = <<>>]
          /\ \E msgs : Send(s, msgs, h)
      BY <1>0, <1>7, <2>1 DEF Login, backend
    <2> QED BY <2>2, <2>3
  <1>8. ASSUME finalize(s)
        PROVE  \E msgs, h : /\ UNCHANGED <<doc, item, poll, direct>> /\ h \in Gui
                            /\ Send(s, msgs, h) /\ inbox' = [inbox EXCEPT ![s] = <<>>]
                            /\ h.shown = Blank
    <2>1. PICK h : h = [NewGui EXCEPT !.sid = g.sid + 1, !.sent = g.sent]
      OBVIOUS
    <2>2. h \in Gui /\ h.shown = Blank
      <3>1. g.sid + 1 \in Sids /\ g.sent \in Nat
        BY <1>0 DEF Gui, Sids
      <3>2. NewGui \in Gui /\ NewGui.shown = Blank
        BY EmptyStart DEF NewGui
      <3> QED BY <2>1, <3>1, <3>2 DEF Gui
    <2>3. /\ UNCHANGED <<doc, item, poll, direct>> /\ inbox' = [inbox EXCEPT ![s] = <<>>]
          /\ \E msgs : Send(s, msgs, h)
      BY <1>0, <1>8, <2>1 DEF finalize, backend
    <2> QED BY <2>2, <2>3
  <1>9. ASSUME inbox[s] # <<>>, inbox' = [inbox EXCEPT ![s] = Tail(@)],
               UNCHANGED <<doc, item, poll, direct>>,
               \A q \in Sessions : q # s => gui'[q] = gui[q],
               gui'[s].shown = gui[s].shown \/ gui'[s].shown = Head(inbox[s]).what
        PROVE  /\ \A q \in Sessions : q # s => inbox'[q] = inbox[q] /\ gui'[q] = gui[q]
               /\ Seen(s)' \subseteq Seen(s) \cup {Blank}
               /\ InOrder(s) => InOrder(s)'
    <2>1. PICK b, c : b = inbox[s] /\ c = Tail(b)
      OBVIOUS
    <2>2. inbox'[s] = c /\ \A q \in Sessions : q # s => inbox'[q] = inbox[q]
      BY <1>1, <1>9, <2>1
    <2>3. /\ Len(b) \in Nat /\ Len(c) = Len(b) - 1 /\ 1 \in 1..Len(b) /\ Head(b) = b[1]
          /\ \A i \in 1..Len(c) : i + 1 \in 1..Len(b) /\ c[i] = b[i + 1] /\ 1 < i + 1
      BY <1>1, <1>9, <2>1
    <2>4. Head(inbox[s]).what \in Posted(s) /\ \A i \in 1..Len(c) : c[i].what \in Posted(s)
      BY <2>1, <2>3 DEF Posted
    <2>5. Seen(s)' \subseteq Seen(s)
      BY <1>9, <2>2, <2>4 DEF Seen, Posted
    <2>6. ASSUME InOrder(s) PROVE InOrder(s)'
      <3>1. \A i, j \in 1..Len(c) : i < j /\ c[i].what.key = c[j].what.key =>
              c[i].what.cas <= c[j].what.cas
        <4> SUFFICES ASSUME NEW i \in 1..Len(c), NEW j \in 1..Len(c), i < j,
                            c[i].what.key = c[j].what.key
                     PROVE  c[i].what.cas <= c[j].what.cas
          OBVIOUS
        <4>1. i + 1 < j + 1
          OBVIOUS
        <4>2. i + 1 \in 1..Len(b) /\ j + 1 \in 1..Len(b) /\ c[i] = b[i + 1] /\ c[j] = b[j + 1]
          BY <2>3
        <4> QED BY <2>1, <2>6, <4>1, <4>2 DEF InOrder
      <3>2. \A i \in 1..Len(c) : c[i].what.key = gui'[s].shown.key => gui'[s].shown.cas <= c[i].what.cas
        <4>1. CASE gui'[s].shown = gui[s].shown
          BY <2>4, <2>6, <4>1 DEF InOrder
        <4>2. CASE gui'[s].shown = Head(inbox[s]).what
          <5> SUFFICES ASSUME NEW i \in 1..Len(c), c[i].what.key = b[1].what.key
                       PROVE  b[1].what.cas <= c[i].what.cas
            BY <2>1, <2>3, <4>2
          <5> QED BY <2>1, <2>3, <2>6 DEF InOrder
        <4> QED BY <1>9, <4>1, <4>2
      <3> QED BY <2>2, <3>1, <3>2 DEF InOrder, Posted
    <2> QED BY <1>9, <2>2, <2>5, <2>6
  <1>10. ASSUME UPDATE(s) \/ storeFinished(s)
         PROVE  /\ inbox[s] # <<>> /\ inbox' = [inbox EXCEPT ![s] = Tail(@)]
                /\ UNCHANGED <<doc, item, poll, direct>>
                /\ \A q \in Sessions : q # s => gui'[q] = gui[q]
                /\ gui'[s].shown = gui[s].shown \/ gui'[s].shown = Head(inbox[s]).what
    <2>1. CASE UPDATE(s)
      <3>1. CASE g.on = NoKey
        BY <1>0, <2>1, <3>1 DEF UPDATE, backend
      <3>2. CASE g.on # NoKey
        <4>1. PICK w, o, a : /\ w = Remembered(g.shown, Head(inbox[s]).what)
                             /\ o = IF s \notin Js THEN NoKey ELSE g.on
                             /\ a = IF g.waits = "page" THEN "no" ELSE g.waits
          OBVIOUS
        <4>2. PICK h : h = [g EXCEPT !.shown = w, !.on = o, !.waits = a]
          OBVIOUS
        <4>3. h.shown = w
          BY <1>0, <4>2 DEF Gui
        <4>4. gui' = [gui EXCEPT ![s] = h]
          BY <1>0, <2>1, <3>2, <4>1, <4>2 DEF UPDATE
        <4>5. gui'[s] = h /\ \A q \in Sessions : q # s => gui'[q] = gui[q]
          BY <1>1, <4>4
        <4>6. /\ inbox[s] # <<>> /\ inbox' = [inbox EXCEPT ![s] = Tail(@)]
              /\ UNCHANGED <<doc, item, poll, direct>>
          BY <2>1 DEF UPDATE, backend
        <4>7. w = g.shown \/ w = Head(inbox[s]).what
          BY <4>1 DEF Remembered
        <4> QED BY <1>0, <4>3, <4>5, <4>6, <4>7
      <3> QED BY <3>1, <3>2
    <2>2. CASE storeFinished(s)
      <3>1. PICK h : h = [g EXCEPT !.waits = "no"]
        OBVIOUS
      <3>2. h.shown = g.shown
        BY <1>0, <3>1 DEF Gui
      <3>3. gui' = [gui EXCEPT ![s] = h]
        BY <1>0, <2>2, <3>1 DEF storeFinished
      <3>4. gui'[s] = h /\ \A q \in Sessions : q # s => gui'[q] = gui[q]
        BY <1>1, <3>3
      <3>5. /\ inbox[s] # <<>> /\ inbox' = [inbox EXCEPT ![s] = Tail(@)]
            /\ UNCHANGED <<doc, item, poll, direct>>
        BY <2>2 DEF storeFinished, backend
      <3> QED BY <1>0, <3>2, <3>4, <3>5
    <2> QED BY <1>10, <2>1, <2>2
  <1>11. \/ /\ UNCHANGED <<doc, item, poll, direct>>
            /\ \E msgs, h : /\ h \in Gui /\ Send(s, msgs, h)
                            /\ \/ inbox' = inbox /\ h.shown = g.shown
                               \/ /\ inbox' = [inbox EXCEPT ![s] = <<>>]
                                  /\ h.shown = g.shown \/ h.shown = Blank
         \/ UPDATE(s) \/ storeFinished(s)
    BY <1>3, <1>4, <1>5, <1>6, <1>7, <1>8, Zenon DEF SessionStep
  <1>12. UNCHANGED <<doc, item, poll, direct>>
    BY <1>10, <1>11, Zenon
  <1>13. CASE UPDATE(s) \/ storeFinished(s)
    BY <1>9, <1>10, <1>12, <1>13, Zenon
  <1>14. CASE ~(UPDATE(s) \/ storeFinished(s))
    BY <1>2, <1>11, <1>12, <1>14, Zenon
  <1> QED BY <1>12, <1>13, <1>14

LEMMA TakeTells ==
  ASSUME CountInv, NEW m \in wire, Take(m)
  PROVE  /\ m.key \in Keys /\ UNCHANGED <<doc, gui>>
         /\ \A k \in Keys : /\ item'[k].cas = item[k].cas \/ item'[k].cas = 0
                            /\ poll'[k] = poll[k] \/ poll'[k].phase = "sent"
         /\ \A d \in direct' : d \in direct \/
              (d.msg = m /\ d.phase = "sent" /\ m.mode \in {"single", "store"})
         /\ \/ inbox' = inbox
            \/ /\ item'[m.key].cas = item[m.key].cas /\ item[m.key].cas > 0
               /\ poll'[m.key].phase = "none"
               /\ \A s \in Sessions : Tells(s, m.key, item[m.key].cas)
               /\ \A s \in Sessions : s # m.from => inbox'[s] = inbox[s]
  <1>1. Taken(m) /\ TypeInv /\ TypeOK /\ OnePollPerItem
    BY Parts DEF CountInv, Take, Discard, TakeUnsubscribe, TakeChangeSessionId, TakeSubscribe, TakeSingle,
                 TakeStore, Took
  <1>2. PICK p, k : p = m.from /\ k = m.key /\ p \in Sessions /\ k \in Keys
    BY <1>1, TakenParts
  <1>3. UNCHANGED <<doc, gui>> /\ item \in [Keys -> Item] /\ inbox \in [Sessions -> Seq(Post)]
        /\ poll \in [Keys -> Poll]
    BY <1>1, TakenParts DEF TypeOK
  <1>4. PICK i : i = item[k] /\ i \in Item
    BY <1>2, <1>3
  \* An item of which only subscribers or what is put aside change.
  <1>5. ASSUME NEW j, j.cas = i.cas, item' = [item EXCEPT ![k] = j]
        PROVE  \A q \in Keys : item'[q].cas = item[q].cas
    BY <1>2, <1>3, <1>4, <1>5
  <1>6. CASE Discard(m) \/ TakeStore(m)
    <2>1. /\ UNCHANGED <<item, poll, inbox>>
          /\ direct' = direct \/
               (m.mode = "store" /\ direct' = direct \cup {[msg |-> m, phase |-> "sent", cas |-> 0]})
      BY <1>6 DEF Discard, TakeStore, backend
    <2> QED BY <1>2, <1>3, <2>1
  <1>7. CASE TakeUnsubscribe(m)
    <2>1. PICK u : u = [i.unsub EXCEPT ![p] = @ + 1]
      OBVIOUS
    <2>2. PICK j : j = [i EXCEPT !.unsub = u]
      OBVIOUS
    <2>3. j.cas = i.cas
      BY <1>4, <2>2 DEF Item
    <2>4. item' = [item EXCEPT ![k] = j] \/ item' = item
      BY <1>2, <1>3, <1>4, <1>7, <2>1, <2>2 DEF TakeUnsubscribe, Item
    <2>5. \A q \in Keys : item'[q].cas = item[q].cas
      BY <1>5, <2>3, <2>4
    <2>6. UNCHANGED <<poll, inbox, direct>>
      BY <1>7 DEF TakeUnsubscribe
    <2> QED BY <1>2, <1>3, <2>5, <2>6
  <1>8. CASE TakeChangeSessionId(m)
    <2>1. PICK u : u = [i.chg EXCEPT ![p] = Append(@, m.sid)]
      OBVIOUS
    <2>2. PICK j : j = [i EXCEPT !.chg = u]
      OBVIOUS
    <2>3. j.cas = i.cas
      BY <1>4, <2>2 DEF Item
    <2>4. item' = [item EXCEPT ![k] = j] \/ item' = item
      BY <1>2, <1>3, <1>4, <1>8, <2>1, <2>2 DEF TakeChangeSessionId, Item
    <2>5. \A q \in Keys : item'[q].cas = item[q].cas
      BY <1>5, <2>3, <2>4
    <2>6. UNCHANGED <<poll, inbox, direct>>
      BY <1>8 DEF TakeChangeSessionId
    <2> QED BY <1>2, <1>3, <2>5, <2>6
  <1>9. CASE TakeSingle(m)
    <2>1. PICK u : u = [i.new EXCEPT ![p] = AsSingle(m)]
      OBVIOUS
    <2>2. PICK j : j = [i EXCEPT !.new = u]
      OBVIOUS
    <2>3. j.cas = i.cas
      BY <1>4, <2>2 DEF Item
    <2>4. /\ m.mode = "single" /\ UNCHANGED <<poll, inbox>>
          /\ \/ item' = [item EXCEPT ![k] = j] /\ direct' = direct
             \/ /\ item' = item
                /\ direct' = direct \cup {[msg |-> m, phase |-> "sent", cas |-> 0]}
      BY <1>2, <1>3, <1>4, <1>9, <2>1, <2>2 DEF TakeSingle, Item
    <2>5. \A q \in Keys : item'[q].cas = item[q].cas
      BY <1>5, <2>3, <2>4
    <2> QED BY <1>2, <1>3, <2>4, <2>5
  <1>10. CASE TakeSubscribe(m)
    <2>1. PICK r : r = [mode |-> "subscribe", sid |-> m.sid]
      OBVIOUS
    <2>2. /\ direct' = direct
          /\ \/ /\ i.cached /\ ~i.fetching /\ item' = [item EXCEPT ![k].old[p] = r] /\ poll' = poll
                /\ inbox' = [inbox EXCEPT ![p] = @ \o Post1(p, m.sid, Page(k, i.cas))]
             \/ item' = [item EXCEPT ![k].new[p] = r] /\ poll' = poll /\ inbox' = inbox
             \/ /\ item' = [item EXCEPT ![k] =
                     [NoItem EXCEPT !.cached = TRUE, !.fetching = TRUE, !.new[p] = r]]
                /\ poll' = [poll EXCEPT ![k] = [NoPoll EXCEPT !.phase = "sent", !.by = p, !.sid = m.sid]]
                /\ inbox' = inbox
      BY <1>2, <1>4, <1>10, <2>1, Zenon DEF TakeSubscribe
    <2>3. CASE /\ i.cached /\ ~i.fetching /\ item' = [item EXCEPT ![k].old[p] = r] /\ poll' = poll
               /\ inbox' = [inbox EXCEPT ![p] = @ \o Post1(p, m.sid, Page(k, i.cas))]
      <3>1. PICK u : u = [i.old EXCEPT ![p] = r]
        OBVIOUS
      <3>2. PICK j : j = [i EXCEPT !.old = u]
        OBVIOUS
      <3>3. j.cas = i.cas
        BY <1>4, <3>2 DEF Item
      <3>4. item' = [item EXCEPT ![k] = j]
        BY <1>2, <1>3, <1>4, <2>3, <3>1, <3>2 DEF Item
      <3>5. \A q \in Keys : item'[q].cas = item[q].cas
        BY <1>5, <3>3, <3>4
      <3>6. i.cas > 0 /\ poll[k].phase = "none" /\ i.cas \in Version
        BY <1>1, <1>2, <1>4, <2>3 DEF OnePollPerItem, Item
      <3>7. PICK x : x = Page(k, i.cas)
        OBVIOUS
      <3>8. x \in Post /\ (x.what = Blank \/ (i.cas > 0 /\ x.what = [key |-> k, cas |-> i.cas]))
        BY <1>2, <3>6, <3>7, PageTold
      <3>9. /\ inbox'[p] = inbox[p] \o Post1(p, m.sid, x)
            /\ \A s \in Sessions : s # p => inbox'[s] = inbox[s]
        BY <1>2, <1>3, <2>3, <3>7
      <3>10. Tells(p, k, i.cas)
        BY <1>1, <1>2, <1>3, <3>8, <3>9, OnePostTold
      <3>11. \A s \in Sessions : s # p => Tells(s, k, i.cas)
        BY <1>3, <3>9, NothingTold
      <3> QED BY <1>2, <1>3, <1>4, <2>2, <2>3, <3>5, <3>6, <3>9, <3>10, <3>11
    <2>4. CASE item' = [item EXCEPT ![k].new[p] = r] /\ poll' = poll /\ inbox' = inbox
      <3>1. PICK u : u = [i.new EXCEPT ![p] = r]
        OBVIOUS
      <3>2. PICK j : j = [i EXCEPT !.new = u]
        OBVIOUS
      <3>3. j.cas = i.cas
        BY <1>4, <3>2 DEF Item
      <3>4. item' = [item EXCEPT ![k] = j]
        BY <1>2, <1>3, <1>4, <2>4, <3>1, <3>2 DEF Item
      <3>5. \A q \in Keys : item'[q].cas = item[q].cas
        BY <1>5, <3>3, <3>4
      <3> QED BY <1>2, <1>3, <2>2, <2>4, <3>5
    <2>5. CASE /\ item' = [item EXCEPT ![k] =
                    [NoItem EXCEPT !.cached = TRUE, !.fetching = TRUE, !.new[p] = r]]
               /\ poll' = [poll EXCEPT ![k] = [NoPoll EXCEPT !.phase = "sent", !.by = p, !.sid = m.sid]]
               /\ inbox' = inbox
      <3>1. PICK n : n = NoItem /\ n \in Item /\ n.cas = 0
        BY EmptyStart
      <3>2. PICK u : u = [n.new EXCEPT ![p] = r]
        OBVIOUS
      <3>3. PICK j : j = [n EXCEPT !.cached = TRUE, !.fetching = TRUE, !.new = u]
        OBVIOUS
      <3>4. j.cas = 0
        BY <3>1, <3>3 DEF Item
      <3>5. item' = [item EXCEPT ![k] = j]
        BY <2>5, <3>1, <3>2, <3>3 DEF Item
      <3>6. \A q \in Keys : item'[q].cas = item[q].cas \/ item'[q].cas = 0
        BY <1>2, <1>3, <3>4, <3>5
      <3>7. PICK c : c = [NoPoll EXCEPT !.phase = "sent", !.by = p, !.sid = m.sid]
        OBVIOUS
      <3>8. c.phase = "sent"
        BY <3>7, EmptyStart DEF Poll
      <3>9. \A q \in Keys : poll'[q] = poll[q] \/ poll'[q].phase = "sent"
        BY <1>2, <1>3, <2>5, <3>7, <3>8
      <3> QED BY <1>2, <1>3, <2>2, <2>5, <3>6, <3>9
    <2> QED BY <2>2, <2>3, <2>4, <2>5, Zenon
  <1> QED BY <1>6, <1>7, <1>8, <1>9, <1>10, Zenon DEF Take

LEMMA DirectTells ==
  ASSUME TypeInv, NEW d \in direct, DirectStep(d)
  PROVE  /\ UNCHANGED <<item, poll, gui, wire>> /\ \A k \in Keys : doc[k] <= doc'[k]
         /\ \A e \in direct' : e \in direct \/
              (e.msg = d.msg /\ (e.phase = "answered" => e.cas = doc'[d.msg.key]))
         /\ \A s \in Sessions :
              \/ Tells(s, d.msg.key, 0)
              \/ /\ s = d.msg.from /\ d.msg.mode # "store" /\ d.phase = "answered"
                 /\ Tells(s, d.msg.key, d.cas)
  <1>1. PICK m : m = d.msg /\ m \in Message /\ d \in Direct
    BY Parts, TypeParts
  <1>2. /\ m.from \in Sessions /\ m.key \in Keys /\ d.cas \in Version
        /\ inbox \in [Sessions -> Seq(Post)] /\ doc \in [Keys -> Version] /\ TypeOK
    BY <1>1, Parts DEF Message, Direct, TypeOK
  <1>3. \A k \in Keys : doc[k] \in Nat
    BY Parts
  <1>4. CASE inbox' = inbox /\ UNCHANGED gui
    <2>1. \A s \in Sessions : Tells(s, m.key, 0)
      BY <1>2, <1>4, NothingTold
    <2>2. CASE AnswerDirect(d)
      <3>1. PICK e : e = [d EXCEPT !.phase = "answered", !.cas = doc'[m.key]]
        OBVIOUS
      <3>2. e.msg = m /\ e.phase = "answered" /\ e.cas = doc'[m.key]
        BY <1>1, <3>1 DEF Direct
      <3>3. UNCHANGED <<item, poll, gui, wire>> /\ direct' = (direct \ {d}) \cup {e}
            /\ (doc' = doc \/ doc' = [doc EXCEPT ![m.key] = @ + 1])
        BY <1>1, <2>2, <3>1 DEF AnswerDirect
      <3>4. \A k \in Keys : doc[k] <= doc'[k]
        BY <1>2, <1>3, <3>3
      <3> QED BY <1>1, <2>1, <3>2, <3>3, <3>4
    <2>3. CASE backoffDirect(d) \/ retryDirect(d)
      <3>1. PICK e, f : e = [d EXCEPT !.phase = "backoff"] /\ f = [d EXCEPT !.phase = "sent"]
        OBVIOUS
      <3>2. e.msg = m /\ e.phase # "answered" /\ f.msg = m /\ f.phase # "answered"
        BY <1>1, <3>1 DEF Direct
      <3>3. /\ UNCHANGED <<doc, item, poll, gui, wire>>
            /\ \A x \in direct' : x \in direct \/ x = e \/ x = f
        BY <2>3, <3>1 DEF backoffDirect, retryDirect
      <3> QED BY <1>1, <1>3, <2>1, <3>2, <3>3
    <2>4. CASE DirectAnswered(d) \/ DirectError(d)
      <3>1. UNCHANGED <<doc, item, poll, gui, wire>> /\ direct' = direct \ {d}
        BY <2>4 DEF DirectAnswered, DirectError
      <3> QED BY <1>1, <1>3, <2>1, <3>1
    <2> QED BY <2>2, <2>3, <2>4 DEF DirectStep
  <1>5. CASE DirectAnswered(d) \/ DirectError(d)
    <2>1. UNCHANGED <<doc, item, poll, gui, wire>> /\ direct' = direct \ {d}
      BY <1>5 DEF DirectAnswered, DirectError
    <2>2. PICK x : /\ x = Stored \/ x = Page(m.key, 0) \/
                        (x = Page(m.key, d.cas) /\ m.mode # "store" /\ d.phase = "answered")
                   /\ inbox' = [inbox EXCEPT ![m.from] = @ \o Post1(m.from, m.sid, x)]
      BY <1>1, <1>5 DEF DirectAnswered, DirectError
    <2>3. /\ inbox'[m.from] = inbox[m.from] \o Post1(m.from, m.sid, x)
          /\ \A s \in Sessions : s # m.from => inbox'[s] = inbox[s]
      BY <1>2, <2>2
    <2>4. \A s \in Sessions : s # m.from => Tells(s, m.key, 0)
      BY <1>2, <2>1, <2>3, NothingTold
    <2>5. CASE x = Stored \/ x = Page(m.key, 0)
      <3>1. x \in Post /\ x.what = Blank
        BY <1>2, <2>5, Posts, Bounds DEF Stored, Page
      <3>2. Tells(m.from, m.key, 0)
        BY <1>2, <2>1, <2>3, <3>1, OnePostTold
      <3> QED BY <1>1, <1>3, <2>1, <2>4, <3>2
    <2>6. CASE x = Page(m.key, d.cas) /\ m.mode # "store" /\ d.phase = "answered"
      <3>1. x \in Post /\ (x.what = Blank \/ (d.cas > 0 /\ x.what = [key |-> m.key, cas |-> d.cas]))
        BY <1>2, <2>6, PageTold
      <3>2. Tells(m.from, m.key, d.cas)
        BY <1>2, <2>1, <2>3, <3>1, OnePostTold
      <3> QED BY <1>1, <1>3, <2>1, <2>4, <2>6, <3>2
    <2> QED BY <2>2, <2>5, <2>6
  <1>6. ~(DirectAnswered(d) \/ DirectError(d)) => inbox' = inbox /\ UNCHANGED gui
    BY DEF DirectStep, AnswerDirect, backoffDirect, retryDirect
  <1> QED BY <1>4, <1>5, <1>6

LEMMA PollTells ==
  ASSUME CountInv, NEW k \in Keys, PollStep(k)
  PROVE  /\ UNCHANGED <<doc, direct, gui, wire>>
         /\ \A q \in Keys : q # k => item'[q] = item[q] /\ poll'[q] = poll[q]
         /\ \/ /\ UNCHANGED <<item, inbox>> /\ poll[k].phase = "sent"
               /\ poll'[k].phase = "answered" /\ poll'[k].cas = doc[k]
            \/ /\ poll[k].phase = "answered" /\ poll[k].cas > 0
               /\ item'[k].cas = poll[k].cas /\ poll'[k].phase = "none"
               /\ \A s \in Sessions : Tells(s, k, poll[k].cas)
            \/ /\ item'[k].cas = item[k].cas \/ item'[k].cas = 0
               /\ poll'[k].phase # "answered"
               /\ \A s \in Sessions : Tells(s, k, 0)
  <1>1. /\ TypeOK /\ PollsOK /\ item \in [Keys -> Item] /\ poll \in [Keys -> Poll]
        /\ inbox \in [Sessions -> Seq(Post)]
    BY Parts DEF CountInv, TypeOK
  <1>2. PICK i, p : i = item[k] /\ p = poll[k] /\ i \in Item /\ p \in Poll /\ p.cas \in Version
    BY <1>1 DEF Poll
  <1>3. UNCHANGED <<doc, direct, gui, wire>>
    BY Zenon DEF PollStep, AnswerPoll, PollFound, PollNotFound, PollError, backoffPoll, retryPoll,
                 PollingTimeout
  <1>4. \A j : item' = [item EXCEPT ![k] = j] => /\ item'[k] = j
                                               /\ \A q \in Keys : q # k => item'[q] = item[q]
    BY <1>1
  <1>5. \A c : poll' = [poll EXCEPT ![k] = c] => /\ poll'[k] = c
                                               /\ \A q \in Keys : q # k => poll'[q] = poll[q]
    BY <1>1
  <1>6. inbox' = inbox => \A s \in Sessions : Tells(s, k, 0)
    BY <1>1, <1>3, NothingTold
  <1>7. CASE AnswerPoll(k)
    <2>1. PICK c : c = [p EXCEPT !.phase = "answered", !.cas = doc[k]]
      OBVIOUS
    <2>2. c.phase = "answered" /\ c.cas = doc[k]
      BY <1>2, <2>1 DEF Poll
    <2>3. /\ poll' = [poll EXCEPT ![k] = c] /\ UNCHANGED <<item, inbox>> /\ p.phase = "sent"
      BY <1>1, <1>2, <1>7, <2>1 DEF AnswerPoll, Poll
    <2> QED BY <1>2, <1>3, <1>5, <2>2, <2>3
  <1>8. CASE PollFound(k)
    <2>1. PICK j, n, v : j = Rebound(Unsubscribed(i)) /\ v = p.cas /\ n = Polled(j, v)
      OBVIOUS
    <2>2. n.cas = v
      <3>1. Unsubscribed(i) \in Item
        BY <1>2, ItemSteps
      <3>2. j \in Item
        BY <2>1, <3>1, ItemSteps
      <3> QED BY <2>1, <3>2, ItemSteps
    <2>3. /\ p.phase = "answered" /\ v > 0 /\ inbox' = Told(k, j, v)
          /\ item' = [item EXCEPT ![k] = n] /\ poll' = [poll EXCEPT ![k] = NoPoll]
      BY <1>2, <1>8, <2>1, Zenon DEF PollFound
    <2>4. item'[k].cas = v /\ poll'[k].phase = "none"
      BY <1>4, <1>5, <2>2, <2>3, EmptyStart
    <2>5. ASSUME NEW s \in Sessions PROVE Tells(s, k, v)
      <3>1. PICK x : x = Page(k, v)
        OBVIOUS
      <3>2. x \in Post /\ (x.what = Blank \/ (v > 0 /\ x.what = [key |-> k, cas |-> v]))
        BY <1>2, <2>1, <3>1, PageTold
      <3>3. PICK a, b : /\ a \in {<<>>, <<x>>} /\ b \in {<<>>, <<x>>}
                        /\ inbox'[s] = inbox[s] \o a \o b
        <4>1. \A sid : Post1(s, sid, x) \in {<<>>, <<x>>}
          BY DEF Post1
        <4> QED BY <2>3, <3>1, <4>1 DEF Told
      <3>4. PICK y : y = inbox[s] /\ y \in Seq(Post)
        BY <1>1
      <3>5. PICK z : z = a \o b
        OBVIOUS
      <3>6. y \o a \o b = y \o z /\ z \in Seq(Post) /\ \A n1 \in 1..Len(z) : z[n1] = x
        <4>1. CASE a = <<>> /\ b = <<>>
          BY <3>4, <3>5, <4>1
        <4>2. CASE a = <<x>> /\ b = <<>>
          BY <3>2, <3>4, <3>5, <4>2
        <4>3. CASE a = <<>> /\ b = <<x>>
          BY <3>2, <3>4, <3>5, <4>3
        <4>4. CASE a = <<x>> /\ b = <<x>>
          BY <3>2, <3>4, <3>5, <4>4
        <4> QED BY <3>3, <4>1, <4>2, <4>3, <4>4
      <3> QED BY <1>3, <3>2, <3>3, <3>4, <3>6 DEF Tells
    <2> QED BY <1>2, <1>3, <1>4, <1>5, <2>1, <2>3, <2>4, <2>5
  <1>9. CASE PollNotFound(k)
    <2>1. PICK u : u = [i.new EXCEPT ![p.by] = Nobody]
      OBVIOUS
    <2>2. PICK j : j = [i EXCEPT !.new = u]
      OBVIOUS
    <2>3. j.cas = i.cas
      BY <1>2, <2>2 DEF Item
    <2>4. /\ item' = [item EXCEPT ![k] = j] /\ poll' = [poll EXCEPT ![k] = NoPoll]
          /\ inbox' = [inbox EXCEPT ![p.by] = @ \o Post1(p.by, p.sid, Page(k, 0))]
          /\ p.phase = "answered"
      BY <1>1, <1>2, <1>9, <2>1, <2>2 DEF PollNotFound, Item
    <2>5. p.by \in Sessions
      BY <1>1, <1>2, <2>4 DEF PollsOK
    <2>6. Page(k, 0) \in Post /\ Page(k, 0).what = Blank
      BY Posts, Bounds DEF Page
    <2>7. PICK x, b : x = Page(k, 0) /\ b = p.by
      OBVIOUS
    <2>8. /\ inbox'[b] = inbox[b] \o Post1(b, p.sid, x)
          /\ \A s \in Sessions : s # b => inbox'[s] = inbox[s]
      BY <1>1, <2>4, <2>5, <2>7
    <2>9. Tells(b, k, 0)
      BY <1>1, <1>3, <2>5, <2>6, <2>7, <2>8, OnePostTold
    <2>10. \A s \in Sessions : s # b => Tells(s, k, 0)
      BY <1>1, <1>3, <2>8, NothingTold
    <2>11. poll'[k].phase = "none" /\ item'[k].cas = item[k].cas
      BY <1>2, <1>4, <1>5, <2>3, <2>4, EmptyStart
    <2> QED BY <1>3, <1>4, <1>5, <2>4, <2>9, <2>10, <2>11
  <1>10. CASE PollError(k)
    <2>1. PICK j : j = [i EXCEPT !.timer = TRUE]
      OBVIOUS
    <2>2. j.cas = i.cas
      BY <1>2, <2>1 DEF Item
    <2>3. item' = [item EXCEPT ![k] = j] /\ poll' = [poll EXCEPT ![k] = NoPoll] /\ inbox' = inbox
      BY <1>1, <1>2, <1>10, <2>1 DEF PollError, Item
    <2>4. poll'[k].phase = "none" /\ item'[k].cas = item[k].cas
      BY <1>2, <1>4, <1>5, <2>2, <2>3, EmptyStart
    <2> QED BY <1>3, <1>4, <1>5, <1>6, <2>3, <2>4
  <1>11. CASE backoffPoll(k) \/ retryPoll(k)
    <2>1. PICK b, c : b = [p EXCEPT !.phase = "backoff"] /\ c = [p EXCEPT !.phase = "sent"]
      OBVIOUS
    <2>2. b.phase = "backoff" /\ c.phase = "sent"
      BY <1>2, <2>1 DEF Poll
    <2>3. /\ UNCHANGED <<item, inbox>>
          /\ poll' = [poll EXCEPT ![k] = b] \/ poll' = [poll EXCEPT ![k] = c]
      BY <1>1, <1>2, <1>11, <2>1 DEF backoffPoll, retryPoll, Poll
    <2>4. poll'[k].phase # "answered" /\ \A q \in Keys : q # k => poll'[q] = poll[q]
      BY <1>5, <2>2, <2>3
    <2> QED BY <1>3, <1>6, <2>3, <2>4
  <1>12. CASE PollingTimeout(k)
    <2>1. inbox' = inbox /\ i.timer
      BY <1>2, <1>12, Zenon DEF PollingTimeout
    <2>2. PICK j : j = [i EXCEPT !.fetching = TRUE, !.timer = FALSE]
      OBVIOUS
    <2>3. j.cas = i.cas
      BY <1>2, <2>2 DEF Item
    <2>4. \/ /\ item' = [item EXCEPT ![k] = j]
             /\ \E s, sid : poll' = [poll EXCEPT ![k] =
                                      [NoPoll EXCEPT !.phase = "sent", !.by = s, !.sid = sid]]
          \/ item' = [item EXCEPT ![k] = NoItem] /\ poll' = poll
      <3>1. \/ /\ item' = [item EXCEPT ![k].fetching = TRUE, ![k].timer = FALSE]
               /\ \E s, sid : poll' = [poll EXCEPT ![k] =
                                        [NoPoll EXCEPT !.phase = "sent", !.by = s, !.sid = sid]]
            \/ item' = [item EXCEPT ![k] = NoItem] /\ poll' = poll
        BY <1>12, Zenon DEF PollingTimeout
      <3>2. [item EXCEPT ![k].fetching = TRUE, ![k].timer = FALSE] = [item EXCEPT ![k] = j]
        BY <1>1, <1>2, <2>2 DEF Item
      <3> QED BY <3>1, <3>2, Zenon
    <2>5. CASE /\ item' = [item EXCEPT ![k] = j]
               /\ \E s, sid : poll' = [poll EXCEPT ![k] =
                                        [NoPoll EXCEPT !.phase = "sent", !.by = s, !.sid = sid]]
      <3>1. PICK s, sid : poll' = [poll EXCEPT ![k] =
                                    [NoPoll EXCEPT !.phase = "sent", !.by = s, !.sid = sid]]
        BY <2>5
      <3>2. PICK c : c = [NoPoll EXCEPT !.phase = "sent", !.by = s, !.sid = sid]
        OBVIOUS
      <3>3. c.phase = "sent"
        BY <3>2, EmptyStart DEF Poll
      <3>4. poll'[k].phase = "sent" /\ item'[k].cas = item[k].cas
        BY <1>2, <1>4, <1>5, <2>3, <2>5, <3>1, <3>2, <3>3
      <3> QED BY <1>3, <1>4, <1>5, <1>6, <2>1, <2>5, <3>1, <3>4
    <2>6. CASE item' = [item EXCEPT ![k] = NoItem] /\ poll' = poll
      <3>1. item'[k].cas = 0 /\ poll'[k].phase = "none"
        <4>1. p.phase = "none"
          BY <1>2, <2>1 DEF CountInv, OnePollPerItem
        <4> QED BY <1>2, <1>4, <2>6, <4>1, EmptyStart
      <3> QED BY <1>3, <1>4, <1>6, <2>1, <2>6, <3>1
    <2> QED BY <2>4, <2>5, <2>6, Zenon
  <1> QED BY <1>7, <1>8, <1>9, <1>10, <1>11, <1>12, Zenon DEF PollStep

-----------------------------------------------------------------------------
(* Versions only grow.                                                      *)

LEMMA SeenBounded ==
  ASSUME TypeInv, TypeInv', VersionsOK, NEW s \in Sessions, NEW k, NEW v \in Nat,
         \A q \in Keys : doc[q] <= doc'[q], v > 0 => k \in Keys /\ v <= doc'[k],
         Seen(s)' \subseteq Seen(s) \cup {Blank} \cup (IF v > 0 THEN {[key |-> k, cas |-> v]} ELSE {})
  PROVE  (\A w \in Seen(s) : IF w.key = NoKey THEN w.cas = 0 ELSE w.cas <= doc[w.key])'
  <1> SUFFICES ASSUME NEW w \in Seen(s)'
               PROVE  IF w.key = NoKey THEN w.cas = 0 ELSE w.cas <= doc'[w.key]
    OBVIOUS
  <1>1. \A q \in Keys : doc[q] \in Nat /\ doc'[q] \in Nat
    BY Parts, Bounds DEF TypeInv, TypeOK
  <1>2. CASE w \in Seen(s)
    <2>1. w.key \in Keys \cup {NoKey} /\ w.cas \in Nat
      BY <1>2, Parts, SeenTypes
    <2>2. IF w.key = NoKey THEN w.cas = 0 ELSE w.cas <= doc[w.key]
      BY <1>2 DEF VersionsOK
    <2> QED BY <1>1, <2>1, <2>2
  <1>3. CASE w = Blank
    BY <1>3, EmptyStart
  <1>4. CASE v > 0 /\ w = [key |-> k, cas |-> v]
    BY <1>4, Bounds
  <1> QED BY <1>2, <1>3, <1>4

\* A session that is told nothing has seen at most that there is no such document.
LEMMA SameSeen ==
  ASSUME NEW s, inbox'[s] = inbox[s], gui'[s] = gui[s]
  PROVE  Seen(s)' = Seen(s) /\ InOrder(s)' = InOrder(s)
  BY DEF Seen, Posted, InOrder

LEMMA VersionsStep ==
  ASSUME CountInv, CountInv', VersionsOK, [Next]_vars
  PROVE  VersionsOK'
  <1>1. /\ TypeInv /\ TypeInv' /\ TypeOK /\ OnePollPerItem
        /\ \A k \in Keys : doc[k] \in Nat /\ doc'[k] \in Nat /\ item[k].cas \in Nat
        /\ \A k \in Keys : poll[k].cas \in Nat
        /\ \A d \in direct : d.cas \in Nat /\ d.msg.key \in Keys
    <2>1. TypeInv /\ TypeInv' /\ TypeOK /\ OnePollPerItem
      BY Parts DEF CountInv
    <2>2. \A k \in Keys : doc[k] \in Nat /\ doc'[k] \in Nat
      BY <2>1, Bounds DEF TypeInv, TypeOK
    <2>3. \A k \in Keys : item[k].cas \in Nat /\ poll[k].cas \in Nat
      BY <2>1, TypeParts, Bounds DEF Item, Poll
    <2>4. \A d \in direct : d.cas \in Nat /\ d.msg.key \in Keys
      BY <2>1, TypeParts, Bounds DEF Direct, Message
    <2> QED BY <2>1, <2>2, <2>3, <2>4
  <1>2. \A s \in Sessions : \A w \in Seen(s) : w.key = NoKey => w.cas = 0
    BY DEF VersionsOK
  <1>3. ASSUME UNCHANGED <<item, poll, direct>>, \A k \in Keys : doc[k] <= doc'[k],
               \A s \in Sessions : Seen(s)' \subseteq Seen(s) \cup {Blank}
        PROVE  VersionsOK'
    <2>1. PICK z : z = 0 /\ z \in Nat
      OBVIOUS
    <2>2. \A s \in Sessions :
            (\A w \in Seen(s) : IF w.key = NoKey THEN w.cas = 0 ELSE w.cas <= doc[w.key])'
      <3> SUFFICES ASSUME NEW s \in Sessions
                   PROVE (\A w \in Seen(s) : IF w.key = NoKey THEN w.cas = 0 ELSE w.cas <= doc[w.key])'
        OBVIOUS
      <3>1. Seen(s)' \subseteq Seen(s) \cup {Blank} \cup
                               (IF z > 0 THEN {[key |-> NoKey, cas |-> z]} ELSE {})
        BY <1>3
      <3>2. z > 0 => NoKey \in Keys /\ z <= doc'[NoKey]
        BY <2>1
      <3> QED BY <1>1, <1>3, <2>1, <3>1, <3>2, SeenBounded
    <2>3. \A k \in Keys :
            /\ item'[k].cas <= doc'[k]
            /\ poll'[k].phase = "answered" => item'[k].cas <= poll'[k].cas /\ poll'[k].cas <= doc'[k]
      BY <1>1, <1>3 DEF VersionsOK
    <2>4. \A d \in direct' : d.phase = "answered" => d.cas <= doc'[d.msg.key]
      BY <1>1, <1>3 DEF VersionsOK
    <2> QED BY <2>2, <2>3, <2>4 DEF VersionsOK
  <1>4. ASSUME NEW s \in Sessions, SessionStep(s) PROVE VersionsOK'
    <2>1. /\ UNCHANGED <<doc, item, poll, direct>>
          /\ \A q \in Sessions : q # s => inbox'[q] = inbox[q] /\ gui'[q] = gui[q]
          /\ Seen(s)' \subseteq Seen(s) \cup {Blank}
      BY <1>1, <1>4, SessionSees
    <2>2. \A q \in Sessions : Seen(q)' \subseteq Seen(q) \cup {Blank}
      BY <2>1, SameSeen
    <2>3. \A k \in Keys : doc[k] <= doc'[k]
      BY <1>1, <2>1
    <2> QED BY <1>3, <2>1, <2>2, <2>3
  <1>5. ASSUME NEW m \in wire, Take(m) PROVE VersionsOK'
    <2>1. PICK k : k = m.key /\ k \in Keys
      BY <1>5, TakeTells
    <2>2. /\ UNCHANGED <<doc, gui>>
          /\ \A q \in Keys : /\ item'[q].cas = item[q].cas \/ item'[q].cas = 0
                             /\ poll'[q] = poll[q] \/ poll'[q].phase = "sent"
          /\ \A d \in direct' : d \in direct \/ d.phase = "sent"
      BY <1>5, TakeTells
    <2>3. PICK v : v = item[k].cas /\ v \in Nat
      BY <1>1, <2>1
    <2>4. inbox' = inbox \/ (v > 0 /\ \A s \in Sessions : Tells(s, k, v))
      BY <1>5, <2>1, <2>3, TakeTells
    <2>5. ASSUME NEW s \in Sessions
          PROVE  (\A w \in Seen(s) : IF w.key = NoKey THEN w.cas = 0 ELSE w.cas <= doc[w.key])'
      <3>1. Seen(s)' \subseteq Seen(s) \cup {Blank} \cup (IF v > 0 THEN {[key |-> k, cas |-> v]} ELSE {})
        <4>1. CASE inbox' = inbox
          BY <2>2, <4>1, SameSeen
        <4>2. CASE Tells(s, k, v)
          BY <1>1, <1>2, <2>1, <2>3, <4>2, ToldInOrder
        <4> QED BY <2>4, <4>1, <4>2
      <3>2. v <= doc'[k] /\ \A q \in Keys : doc[q] <= doc'[q]
        BY <1>1, <2>1, <2>2, <2>3 DEF VersionsOK
      <3> QED BY <1>1, <2>1, <2>3, <3>1, <3>2, SeenBounded
    <2>6. \A q \in Keys :
            /\ item'[q].cas <= doc'[q]
            /\ poll'[q].phase = "answered" => item'[q].cas <= poll'[q].cas /\ poll'[q].cas <= doc'[q]
      BY <1>1, <2>2 DEF VersionsOK
    <2>7. \A d \in direct' : d.phase = "answered" => d.cas <= doc'[d.msg.key]
      BY <1>1, <2>2 DEF VersionsOK
    <2> QED BY <2>5, <2>6, <2>7 DEF VersionsOK
  <1>6. ASSUME NEW k \in Keys, PollStep(k) PROVE VersionsOK'
    <2>1. /\ UNCHANGED <<doc, direct, gui, wire>>
          /\ \A q \in Keys : q # k => item'[q] = item[q] /\ poll'[q] = poll[q]
      BY <1>6, PollTells
    <2>2. PICK v : v = poll[k].cas /\ v \in Nat
      BY <1>1
    <2>3. \/ /\ UNCHANGED <<item, inbox>> /\ poll'[k].phase = "answered" /\ poll'[k].cas = doc[k]
          \/ /\ poll[k].phase = "answered" /\ item'[k].cas = v /\ poll'[k].phase = "none"
             /\ \A s \in Sessions : Tells(s, k, v)
          \/ /\ item'[k].cas = item[k].cas \/ item'[k].cas = 0
             /\ poll'[k].phase # "answered" /\ \A s \in Sessions : Tells(s, k, 0)
      BY <1>6, <2>2, PollTells
    <2>4. /\ item'[k].cas <= doc'[k]
          /\ poll'[k].phase = "answered" => item'[k].cas <= poll'[k].cas /\ poll'[k].cas <= doc'[k]
      BY <1>1, <2>1, <2>2, <2>3 DEF VersionsOK
    <2>5. \A q \in Keys :
            /\ item'[q].cas <= doc'[q]
            /\ poll'[q].phase = "answered" => item'[q].cas <= poll'[q].cas /\ poll'[q].cas <= doc'[q]
      BY <2>1, <2>4 DEF VersionsOK
    <2>6. \A d \in direct' : d.phase = "answered" => d.cas <= doc'[d.msg.key]
      BY <2>1 DEF VersionsOK
    <2>7. ASSUME NEW s \in Sessions
          PROVE  (\A w \in Seen(s) : IF w.key = NoKey THEN w.cas = 0 ELSE w.cas <= doc[w.key])'
      <3>1. PICK u : /\ u \in Nat /\ u <= doc'[k]
                     /\ Seen(s)' \subseteq Seen(s) \cup {Blank} \cup
                                          (IF u > 0 THEN {[key |-> k, cas |-> u]} ELSE {})
        <4>1. 0 \in Nat /\ 0 <= doc'[k]
          BY <1>1
        <4>2. CASE inbox' = inbox
          BY <2>1, <4>1, <4>2, SameSeen
        <4>3. CASE poll[k].phase = "answered" /\ Tells(s, k, v)
          <5>1. v <= doc'[k]
            BY <2>1, <2>2, <4>3 DEF VersionsOK
          <5> QED BY <1>1, <1>2, <2>2, <4>3, <5>1, ToldInOrder
        <4>4. CASE Tells(s, k, 0)
          BY <1>1, <1>2, <4>1, <4>4, ToldInOrder
        <4> QED BY <2>3, <4>2, <4>3, <4>4
      <3>2. \A q \in Keys : doc[q] <= doc'[q]
        BY <1>1, <2>1
      <3> QED BY <1>1, <3>1, <3>2, SeenBounded
    <2> QED BY <2>5, <2>6, <2>7 DEF VersionsOK
  <1>7. ASSUME NEW d \in direct, DirectStep(d) PROVE VersionsOK'
    <2>1. PICK k, v : k = d.msg.key /\ v = d.cas /\ k \in Keys /\ v \in Nat
      BY <1>1
    <2>2. /\ UNCHANGED <<item, poll, gui>> /\ \A q \in Keys : doc[q] <= doc'[q]
          /\ \A e \in direct' : e \in direct \/
               (e.msg = d.msg /\ (e.phase = "answered" => e.cas = doc'[k]))
      BY <1>1, <1>7, <2>1, DirectTells
    <2>3. \A q \in Keys :
            /\ item'[q].cas <= doc'[q]
            /\ poll'[q].phase = "answered" => item'[q].cas <= poll'[q].cas /\ poll'[q].cas <= doc'[q]
      BY <1>1, <2>2 DEF VersionsOK
    <2>4. \A e \in direct' : e.phase = "answered" => e.cas <= doc'[e.msg.key]
      BY <1>1, <2>1, <2>2 DEF VersionsOK
    <2>5. ASSUME NEW s \in Sessions
          PROVE  (\A w \in Seen(s) : IF w.key = NoKey THEN w.cas = 0 ELSE w.cas <= doc[w.key])'
      <3>1. PICK u : /\ u \in Nat /\ u <= doc'[k]
                     /\ Seen(s)' \subseteq Seen(s) \cup {Blank} \cup
                                          (IF u > 0 THEN {[key |-> k, cas |-> u]} ELSE {})
        <4>1. 0 \in Nat /\ 0 <= doc'[k]
          BY <1>1, <2>1
        <4>2. CASE Tells(s, k, 0)
          BY <1>1, <1>2, <2>1, <4>1, <4>2, ToldInOrder
        <4>3. CASE d.phase = "answered" /\ Tells(s, k, v)
          <5>1. v <= doc'[k]
            BY <1>1, <2>1, <2>2, <4>3 DEF VersionsOK
          <5> QED BY <1>1, <1>2, <2>1, <4>3, <5>1, ToldInOrder
        <4> QED BY <1>1, <1>7, <2>1, <4>2, <4>3, DirectTells
      <3> QED BY <1>1, <2>1, <2>2, <3>1, SeenBounded
    <2> QED BY <2>3, <2>4, <2>5 DEF VersionsOK
  <1>8. ASSUME \/ \E k \in Keys : OtherStore(k)
               \/ BeginStopping \/ finalCleanupAndJoin \/ UNCHANGED vars
        PROVE  VersionsOK'
    <2>1. /\ UNCHANGED <<item, poll, direct, gui, inbox>>
          /\ doc' = doc \/ \E k \in Keys : doc' = [doc EXCEPT ![k] = @ + 1]
      BY <1>8 DEF OtherStore, BeginStopping, finalCleanupAndJoin, vars, backend
    <2>2. \A k \in Keys : doc[k] <= doc'[k]
      <3>1. doc \in [Keys -> Version]
        BY <1>1 DEF TypeOK
      <3>2. CASE doc' = doc
        BY <1>1, <3>2
      <3>3. ASSUME NEW k \in Keys, doc' = [doc EXCEPT ![k] = @ + 1]
            PROVE  \A q \in Keys : doc[q] <= doc'[q]
        <4>1. \A q \in Keys : doc'[q] = IF q = k THEN doc[q] + 1 ELSE doc[q]
          BY <3>1, <3>3
        <4> QED BY <1>1, <4>1
      <3> QED BY <2>1, <3>2, <3>3
    <2>3. \A s \in Sessions : Seen(s)' \subseteq Seen(s) \cup {Blank}
      BY <2>1, SameSeen
    <2> QED BY <1>3, <2>1, <2>2, <2>3
  <1> QED BY <1>4, <1>5, <1>6, <1>7, <1>8, Zenon DEF Next

-----------------------------------------------------------------------------
(* Sessions with JavaScript are told in order.                              *)

LEMMA NewsKept ==
  ASSUME NEW s, NEW k, NEW v \in Nat,
         Seen(s)' \subseteq Seen(s) \cup {Blank} \cup (IF v > 0 THEN {[key |-> k, cas |-> v]} ELSE {}),
         \A q \in Keys : /\ item'[q].cas \in Nat /\ poll'[q].cas \in Nat
                         /\ item'[q].cas > 0 =>
                              NotNewer(s, q, item'[q].cas) /\ (q = k => v <= item'[q].cas)
                         /\ poll'[q].phase = "answered" =>
                              NotNewer(s, q, poll'[q].cas) /\ (q = k => v <= poll'[q].cas)
  PROVE  ItemsAreNew(s)'
  <1>1. ASSUME NEW q \in Keys, NEW u \in Nat, NotNewer(s, q, u), q = k => v <= u,
               NEW w \in Seen(s)', w.key = q
        PROVE  w.cas <= u
    <2>1. CASE w \in Seen(s)
      BY <1>1, <2>1 DEF NotNewer
    <2>2. CASE w = Blank
      BY <1>1, <2>2, EmptyStart
    <2>3. CASE v > 0 /\ w = [key |-> k, cas |-> v]
      BY <1>1, <2>3
    <2> QED BY <1>1, <2>1, <2>2, <2>3
  <1>2. ASSUME NEW q \in Keys, item'[q].cas > 0
        PROVE  \A w \in Seen(s)' : w.key = q => w.cas <= item'[q].cas
    <2>1. PICK u \in Nat : u = item'[q].cas
      OBVIOUS
    <2> QED BY <1>1, <1>2, <2>1
  <1>3. ASSUME NEW q \in Keys, poll'[q].phase = "answered"
        PROVE  \A w \in Seen(s)' : w.key = q => w.cas <= poll'[q].cas
    <2>1. PICK u \in Nat : u = poll'[q].cas
      OBVIOUS
    <2> QED BY <1>1, <1>3, <2>1
  <1> QED BY <1>2, <1>3 DEF ItemsAreNew, NotNewer

LEMMA NewsStep ==
  ASSUME CountInv, CountInv', BeliefInv, VersionsOK, NewsInv, [Next]_vars
  PROVE  NewsInv'
  <1>1. /\ TypeInv /\ TypeInv' /\ TypeOK /\ Js \subseteq Sessions
        /\ \A k \in Keys : item[k].cas \in Nat /\ item'[k].cas \in Nat
                           /\ poll[k].cas \in Nat /\ poll'[k].cas \in Nat /\ doc[k] \in Nat
        /\ \A d \in direct : d.msg.key \in Keys
    <2>1. TypeInv /\ TypeInv' /\ TypeOK
      BY Parts DEF CountInv
    <2>2. \A k \in Keys : item[k].cas \in Nat /\ poll[k].cas \in Nat
      BY <2>1, TypeParts, Bounds DEF Item, Poll
    <2>3. \A k \in Keys : item'[k].cas \in Nat /\ poll'[k].cas \in Nat
      BY <2>1, Bounds DEF TypeInv, TypeOK, Item, Poll
    <2>4. \A d \in direct : d.msg.key \in Keys
      BY <2>1, TypeParts DEF Message
    <2> QED BY <2>1, <2>2, <2>3, <2>4, Parts, Bounds
  <1>2. ASSUME NEW s \in Js
        PROVE  /\ s \in Sessions /\ InOrder(s) /\ ItemsAreNew(s)
               /\ \A w \in Seen(s) : w.key = NoKey => w.cas = 0
               /\ \A d \in direct : d.msg.from = s => d.msg.mode = "store"
    BY <1>1, <1>2 DEF NewsInv, VersionsOK
  <1>3. ASSUME UNCHANGED <<item, poll, direct>>, NEW s \in Js,
               Seen(s)' \subseteq Seen(s) \cup {Blank}, InOrder(s)'
        PROVE  /\ InOrder(s)' /\ ItemsAreNew(s)'
               /\ \A d \in direct' : d.msg.from = s => d.msg.mode = "store"
    <2>1. PICK z : z = 0 /\ z \in Nat
      OBVIOUS
    <2>2. Seen(s)' \subseteq Seen(s) \cup {Blank} \cup (IF z > 0 THEN {[key |-> NoKey, cas |-> z]} ELSE {})
      BY <1>3
    <2>3. \A q \in Keys : /\ item'[q].cas \in Nat /\ poll'[q].cas \in Nat
                          /\ item'[q].cas > 0 =>
                               NotNewer(s, q, item'[q].cas) /\ (q = NoKey => z <= item'[q].cas)
                          /\ poll'[q].phase = "answered" =>
                               NotNewer(s, q, poll'[q].cas) /\ (q = NoKey => z <= poll'[q].cas)
      BY <1>1, <1>2, <1>3, <2>1, Bounds DEF ItemsAreNew
    <2>4. ItemsAreNew(s)'
      BY <2>1, <2>2, <2>3, NewsKept
    <2> QED BY <1>2, <1>3, <2>4
  <1>4. ASSUME NEW p \in Sessions, SessionStep(p) PROVE NewsInv'
    <2>1. /\ UNCHANGED <<item, poll, direct>>
          /\ \A q \in Sessions : q # p => inbox'[q] = inbox[q] /\ gui'[q] = gui[q]
          /\ Seen(p)' \subseteq Seen(p) \cup {Blank} /\ (InOrder(p) => InOrder(p)')
      BY <1>1, <1>4, SessionSees
    <2>2. \A s \in Js : Seen(s)' \subseteq Seen(s) \cup {Blank} /\ InOrder(s)'
      BY <1>1, <1>2, <2>1, SameSeen
    <2> QED BY <1>3, <2>1, <2>2 DEF NewsInv
  <1>5. ASSUME NEW m \in wire, Take(m) PROVE NewsInv'
    <2>1. PICK k, v : k = m.key /\ k \in Keys /\ v = item[k].cas /\ v \in Nat
      BY <1>1, <1>5, TakeTells
    <2>2. /\ UNCHANGED gui
          /\ \A q \in Keys : /\ item'[q].cas = item[q].cas \/ item'[q].cas = 0
                             /\ poll'[q] = poll[q] \/ poll'[q].phase = "sent"
          /\ \A d \in direct' : d \in direct \/ (d.msg = m /\ m.mode \in {"single", "store"})
      BY <1>5, TakeTells
    <2>3. \/ inbox' = inbox
          \/ /\ item'[k].cas = v /\ v > 0 /\ poll'[k].phase = "none"
             /\ \A s \in Sessions : Tells(s, k, v)
      BY <1>5, <2>1, TakeTells
    <2>4. SUFFICES ASSUME NEW s \in Js PROVE InOrder(s)' /\ ItemsAreNew(s)'
      <3>1. \A s \in Js : \A d \in direct' : d.msg.from = s => d.msg.mode = "store"
        BY <1>2, <2>2 DEF BeliefInv
      <3> QED BY <2>4, <3>1 DEF NewsInv
    <2>5. \A q \in Keys : /\ item'[q].cas > 0 => NotNewer(s, q, item'[q].cas)
                          /\ poll'[q].phase = "answered" => NotNewer(s, q, poll'[q].cas)
      <3>1. \A q \in Keys : /\ item'[q].cas > 0 => item'[q].cas = item[q].cas
                            /\ poll'[q].phase = "answered" => poll'[q] = poll[q]
        BY <2>2
      <3> QED BY <1>2, <3>1 DEF ItemsAreNew
    <2>6. CASE inbox' = inbox
      <3>1. PICK z : z = 0 /\ z \in Nat
        OBVIOUS
      <3>2. Seen(s)' = Seen(s) /\ InOrder(s)'
        BY <1>2, <2>2, <2>6, SameSeen
      <3>3. Seen(s)' \subseteq Seen(s) \cup {Blank} \cup (IF z > 0 THEN {[key |-> k, cas |-> z]} ELSE {})
        BY <3>2
      <3>4. \A q \in Keys : /\ item'[q].cas \in Nat /\ poll'[q].cas \in Nat
                            /\ z <= item'[q].cas /\ z <= poll'[q].cas
        BY <1>1, <3>1
      <3>5. ItemsAreNew(s)'
        BY <2>5, <3>1, <3>3, <3>4, NewsKept
      <3> QED BY <3>2, <3>5
    <2>7. CASE item'[k].cas = v /\ v > 0 /\ poll'[k].phase = "none" /\ Tells(s, k, v)
      <3>1. NotNewer(s, k, v)
        BY <1>2, <2>1, <2>7 DEF ItemsAreNew
      <3>2. /\ InOrder(s)'
            /\ Seen(s)' \subseteq Seen(s) \cup {Blank} \cup
                                  (IF v > 0 THEN {[key |-> k, cas |-> v]} ELSE {})
        BY <1>1, <1>2, <2>1, <2>7, <3>1, ToldInOrder
      <3>3. \A q \in Keys : /\ item'[q].cas \in Nat /\ poll'[q].cas \in Nat
                            /\ q = k => v <= item'[q].cas /\ poll'[q].phase # "answered"
        BY <1>1, <2>1, <2>7
      <3>4. ItemsAreNew(s)'
        BY <2>1, <2>5, <3>2, <3>3, NewsKept
      <3> QED BY <3>2, <3>4
    <2> QED BY <1>2, <2>3, <2>6, <2>7
  <1>6. ASSUME NEW k \in Keys, PollStep(k) PROVE NewsInv'
    <2>1. UNCHANGED <<direct, gui>> /\ \A q \in Keys : q # k => item'[q] = item[q] /\ poll'[q] = poll[q]
      BY <1>6, PollTells
    <2>2. PICK v : v = poll[k].cas /\ v \in Nat
      BY <1>1
    <2>3. \/ /\ UNCHANGED <<item, inbox>> /\ poll'[k].phase = "answered" /\ poll'[k].cas = doc[k]
          \/ /\ poll[k].phase = "answered" /\ item'[k].cas = v /\ poll'[k].phase = "none"
             /\ \A s \in Sessions : Tells(s, k, v)
          \/ /\ item'[k].cas = item[k].cas \/ item'[k].cas = 0
             /\ poll'[k].phase # "answered" /\ \A s \in Sessions : Tells(s, k, 0)
      BY <1>6, <2>2, PollTells
    <2>4. SUFFICES ASSUME NEW s \in Js PROVE InOrder(s)' /\ ItemsAreNew(s)'
      BY <1>2, <2>1, <2>4 DEF NewsInv
    <2>5. \A q \in Keys : q # k =>
             /\ item'[q].cas > 0 => NotNewer(s, q, item'[q].cas)
             /\ poll'[q].phase = "answered" => NotNewer(s, q, poll'[q].cas)
      BY <1>2, <2>1 DEF ItemsAreNew
    <2>6. PICK u \in Nat :
             /\ InOrder(s)'
             /\ Seen(s)' \subseteq Seen(s) \cup {Blank} \cup
                                   (IF u > 0 THEN {[key |-> k, cas |-> u]} ELSE {})
             /\ item'[k].cas > 0 => NotNewer(s, k, item'[k].cas) /\ u <= item'[k].cas
             /\ poll'[k].phase = "answered" => NotNewer(s, k, poll'[k].cas) /\ u <= poll'[k].cas
      <3>1. CASE UNCHANGED <<item, inbox>> /\ poll'[k].phase = "answered" /\ poll'[k].cas = doc[k]
        <4>1. Seen(s)' = Seen(s) /\ InOrder(s)'
          BY <1>2, <2>1, <3>1, SameSeen
        <4>2. NotNewer(s, k, doc[k])
          BY <1>2, Bounds DEF VersionsOK, NotNewer
        <4>3. item'[k].cas > 0 => NotNewer(s, k, item'[k].cas)
          BY <1>2, <3>1 DEF ItemsAreNew
        <4>4. 0 <= item'[k].cas /\ 0 <= poll'[k].cas /\ 0 \in Nat
          BY <1>1
        <4>5. Seen(s)' \subseteq Seen(s) \cup {Blank} \cup
                                 (IF 0 > 0 THEN {[key |-> k, cas |-> 0]} ELSE {})
          BY <4>1
        <4> QED BY <3>1, <4>1, <4>2, <4>3, <4>4, <4>5
      <3>2. CASE /\ poll[k].phase = "answered" /\ item'[k].cas = v /\ poll'[k].phase = "none"
                 /\ Tells(s, k, v)
        <4>1. NotNewer(s, k, v)
          BY <1>2, <2>2, <3>2 DEF ItemsAreNew
        <4>2. /\ InOrder(s)'
              /\ Seen(s)' \subseteq Seen(s) \cup {Blank} \cup
                                    (IF v > 0 THEN {[key |-> k, cas |-> v]} ELSE {})
          BY <1>1, <1>2, <2>2, <3>2, <4>1, ToldInOrder
        <4> QED BY <2>2, <3>2, <4>1, <4>2
      <3>3. CASE /\ item'[k].cas = item[k].cas \/ item'[k].cas = 0
                 /\ poll'[k].phase # "answered" /\ Tells(s, k, 0)
        <4>1. /\ InOrder(s)'
              /\ Seen(s)' \subseteq Seen(s) \cup {Blank} \cup
                                    (IF 0 > 0 THEN {[key |-> k, cas |-> 0]} ELSE {})
          BY <1>1, <1>2, <3>3, ToldInOrder
        <4>2. item'[k].cas > 0 => NotNewer(s, k, item'[k].cas)
          BY <1>2, <3>3 DEF ItemsAreNew
        <4>3. 0 <= item'[k].cas /\ 0 \in Nat
          BY <1>1
        <4> QED BY <3>3, <4>1, <4>2, <4>3
      <3> QED BY <1>2, <2>3, <3>1, <3>2, <3>3
    <2>7. ItemsAreNew(s)'
      BY <1>1, <2>5, <2>6, NewsKept
    <2> QED BY <2>6, <2>7
  <1>7. ASSUME NEW d \in direct, DirectStep(d) PROVE NewsInv'
    <2>1. PICK k : k = d.msg.key /\ k \in Keys
      BY <1>1, <1>7
    <2>2. /\ UNCHANGED <<item, poll, gui>>
          /\ \A e \in direct' : e \in direct \/ e.msg = d.msg
      BY <1>1, <1>7, DirectTells
    <2>3. ASSUME NEW s \in Js PROVE InOrder(s)' /\ ItemsAreNew(s)'
      <3>1. Tells(s, k, 0)
        BY <1>1, <1>2, <1>7, <2>1, DirectTells
      <3>2. /\ InOrder(s)'
            /\ Seen(s)' \subseteq Seen(s) \cup {Blank} \cup (IF 0 > 0 THEN {[key |-> k, cas |-> 0]} ELSE {})
        BY <1>1, <1>2, <2>1, <3>1, ToldInOrder
      <3>3. \A q \in Keys : /\ item'[q].cas \in Nat /\ poll'[q].cas \in Nat
                            /\ item'[q].cas > 0 =>
                                 NotNewer(s, q, item'[q].cas) /\ (q = k => 0 <= item'[q].cas)
                            /\ poll'[q].phase = "answered" =>
                                 NotNewer(s, q, poll'[q].cas) /\ (q = k => 0 <= poll'[q].cas)
        BY <1>1, <1>2, <2>2 DEF ItemsAreNew
      <3>4. ItemsAreNew(s)'
        BY <3>2, <3>3, NewsKept
      <3> QED BY <3>2, <3>4
    <2>4. \A s \in Js : \A e \in direct' : e.msg.from = s => e.msg.mode = "store"
      BY <1>2, <1>7, <2>2
    <2> QED BY <2>3, <2>4 DEF NewsInv
  <1>8. ASSUME \/ \E k \in Keys : OtherStore(k)
               \/ BeginStopping \/ finalCleanupAndJoin \/ UNCHANGED vars
        PROVE  NewsInv'
    <2>1. UNCHANGED <<item, poll, direct, gui, inbox>>
      BY <1>8 DEF OtherStore, BeginStopping, finalCleanupAndJoin, vars, backend
    <2>2. \A s \in Js : Seen(s)' \subseteq Seen(s) \cup {Blank} /\ InOrder(s)'
      BY <1>2, <2>1, SameSeen
    <2> QED BY <1>3, <2>1, <2>2 DEF NewsInv
  <1> QED BY <1>4, <1>5, <1>6, <1>7, <1>8, Zenon DEF Next

-----------------------------------------------------------------------------
(* Sessions without JavaScript: what most steps leave of their request.     *)

LEMMA OnceTypes ==
  ASSUME TypeInv, NEW s \in Sessions
  PROVE  /\ gui[s] \in Gui /\ gui[s].sid \in Nat /\ gui[s].sent \in Nat /\ asked[s] \in Nat
         /\ inbox[s] \in Seq(Post)
         /\ \A k \in Keys : doc[k] \in Nat /\ item[k] \in Item /\ poll[k] \in Poll
         /\ \A k \in Keys : /\ item[k].new \in [Sessions -> Request] /\ item[k].old \in [Sessions -> Request]
                            /\ item[k].chg \in [Sessions -> Seq(Sids)]
                            /\ item[k].new[s].sid \in Nat /\ poll[k].sid \in Nat /\ poll[k].cas \in Nat
         /\ Nobody.sid = 0 /\ Nobody.mode = "none"
  <1>1. TypeOK
    BY Parts
  <1>2. /\ gui[s] \in Gui /\ gui[s].sid \in Nat /\ gui[s].sent \in Nat
    BY <1>1, TypeParts DEF Gui, Sids
  <1>3. asked[s] \in Nat /\ inbox[s] \in Seq(Post)
    BY <1>1, TypeParts, Bounds
  <1>4. \A k \in Keys : doc[k] \in Nat /\ item[k] \in Item /\ poll[k] \in Poll
    BY <1>1, TypeParts, Bounds
  <1>5. \A k \in Keys : /\ item[k].new \in [Sessions -> Request] /\ item[k].old \in [Sessions -> Request]
                        /\ item[k].chg \in [Sessions -> Seq(Sids)]
                        /\ poll[k].sid \in Nat /\ poll[k].cas \in Nat
    BY <1>4, Bounds DEF Item, Poll, Sids
  <1>6. \A k \in Keys : item[k].new[s].sid \in Nat
    BY <1>5 DEF Request, Sids
  <1>7. Nobody.sid = 0 /\ Nobody.mode = "none"
    BY DEF Nobody
  <1> QED BY <1>2, <1>3, <1>4, <1>5, <1>6, <1>7

\* The entry of session s in item k, and the poll for it, are what they were, or
\* have ended; the poll may have been made from the entry, or answered.  What is
\* for a session that ended does not matter.
KeptStill(s, k) ==
  /\ \/ item'[k].new[s] = Nobody
     \/ item'[k].new[s].sid \in 0..(gui[s].sid - 1) /\ item'[k].new[s].mode = "single"
     \/ /\ item[k].new[s] # Nobody /\ item'[k].new[s].sid = item[k].new[s].sid
        /\ item'[k].new[s].mode # "subscribe"
        /\ item'[k].new[s].mode = "next" =>
             item[k].new[s].mode = "next" \/ poll'[k].phase # "answered"
  /\ item'[k].old[s] = Nobody /\ item'[k].chg[s] = <<>>
  /\ poll'[k].phase # "none" /\ poll'[k].by = s =>
       \/ poll[k].phase # "none" /\ poll[k].by = s /\ poll'[k].sid = poll[k].sid
       \/ item[k].new[s] # Nobody /\ poll'[k].sid = item[k].new[s].sid
  /\ poll'[k].phase = "answered" =>
       poll'[k].cas = doc[k] \/ (poll[k].phase = "answered" /\ poll'[k].cas = poll[k].cas)

LEMMA NothingKept ==
  ASSUME TypeInv, NEW s \in Sessions, SaysLittle(s), NEW k \in Keys,
         item'[k] = item[k], poll'[k] = poll[k]
  PROVE  KeptStill(s, k)
  BY DEF KeptStill, SaysLittle

\* A request that is nowhere, or elsewhere, is not in the queues.
LEMMA QueuedStill ==
  ASSUME NEW s, NEW at, NEW b, Queued(s, at), b = at \/ at # "wire", gui'[s] = gui[s],
         \A m \in wire' : m.from = s => m \in wire
  PROVE  Queued(s, b)'
  BY DEF Queued, IsNow

LEMMA UnderWayStill ==
  ASSUME NEW s, NEW at, NEW b, UnderWay(s, at), b = at \/ at # "direct",
         gui'[s] = gui[s], asked'[s] = asked[s],
         \A e \in direct' : e.msg.from = s /\ e.msg.sid = gui[s].sid => e \in direct
  PROVE  UnderWay(s, b)'
  BY DEF UnderWay, IsNow

LEMMA HeldStill ==
  ASSUME TypeInv, NEW s \in Sessions, NEW at, NEW b, Held(s, at), Waits(s, at), b = at \/ at # "item",
         gui'[s] = gui[s], asked'[s] = asked[s], \A k \in Keys : KeptStill(s, k)
  PROVE  Held(s, b)'
  <1> SUFFICES ASSUME NEW k \in Keys, (IsKept(s, k) \/ PollsFor(s, k))'
               PROVE  /\ b = "item" /\ gui[s].waits = "page" /\ gui[s].on = k
                      /\ IsKept(s, k)' /\ item'[k].new[s].mode = "next" /\ poll'[k].phase = "answered"
                           => asked[s] <= poll'[k].cas
    BY DEF Held
  <1>0. gui[s].sid \in Nat /\ gui[s].sid \notin 0..(gui[s].sid - 1)
    BY OnceTypes
  <1>1. IsKept(s, k)' => IsKept(s, k)
    BY <1>0 DEF KeptStill, IsKept, IsNow
  <1>2. PollsFor(s, k)' => IsKept(s, k) \/ PollsFor(s, k)
    BY DEF KeptStill, IsKept, PollsFor, IsNow
  <1>3. /\ at = "item" /\ gui[s].waits = "page" /\ gui[s].on = k
        /\ IsKept(s, k) /\ item[k].new[s].mode = "next" /\ poll[k].phase = "answered"
             => asked[s] <= poll[k].cas
    BY <1>1, <1>2 DEF Held
  <1>4. asked[s] <= doc[k]
    BY <1>3 DEF Waits
  <1>5. ASSUME IsKept(s, k)', item'[k].new[s].mode = "next", poll'[k].phase = "answered"
        PROVE  asked[s] <= poll'[k].cas
    <2>1. item'[k].new[s] # Nobody /\ item'[k].new[s].mode # "single"
      BY <1>5 DEF IsKept
    <2>2. item[k].new[s].mode = "next"
      BY <1>5, <2>1 DEF KeptStill
    <2>3. poll'[k].cas = doc[k] \/ (poll[k].phase = "answered" /\ poll'[k].cas = poll[k].cas)
      BY <1>5 DEF KeptStill
    <2> QED BY <1>1, <1>3, <1>4, <1>5, <2>2, <2>3
  <1> QED BY <1>3, <1>5

LEMMA WaitsStill ==
  ASSUME TypeInv, NEW s \in Sessions, NEW at, NEW b, Waits(s, at), b = at \/ gui[s].waits # "no",
         gui'[s] = gui[s], asked'[s] = asked[s],
         \A k \in Keys : doc'[k] \in Nat /\ doc[k] <= doc'[k]
  PROVE  Waits(s, b)'
  <1>1. asked[s] \in Nat /\ \A k \in Keys : doc[k] \in Nat
    BY OnceTypes
  <1>2. gui[s].waits = "page" =>
          /\ gui[s].on \in Keys /\ asked[s] <= doc'[gui[s].on]
          /\ gui[s].shown.key = gui[s].on => gui[s].shown.cas <= asked[s]
    BY <1>1 DEF Waits
  <1> QED BY <1>2 DEF Waits

LEMMA ArrivedStill ==
  ASSUME NEW s, NEW at, NEW b, Arrived(s, at), b = at \/ at # "inbox",
         gui'[s] = gui[s], asked'[s] = asked[s], inbox'[s] = inbox[s]
  PROVE  Arrived(s, b)'
  BY DEF Arrived

LEMMA LittleSaid ==
  ASSUME TypeInv, NEW s \in Sessions, SaysLittle(s), gui'[s].sid \in Nat, gui[s].sid <= gui'[s].sid,
         \A m \in wire' : m.from = s => m \in wire \/ m.mode \in {"single", "store", "unsubscribe"},
         \A k \in Keys : KeptStill(s, k)
  PROVE  SaysLittle(s)'
  <1>1. \A m \in wire' : m.from = s => m.mode \in {"single", "store", "unsubscribe"}
    BY DEF SaysLittle
  <1>2. ASSUME NEW k \in Keys
        PROVE  /\ item'[k].old[s] = Nobody /\ item'[k].chg[s] = <<>>
               /\ item'[k].new[s].mode # "subscribe" /\ item'[k].new[s].sid <= gui'[s].sid
               /\ poll'[k].phase # "none" /\ poll'[k].by = s => poll'[k].sid <= gui'[s].sid
    <2>1. /\ gui[s].sid \in Nat /\ item[k].new[s].sid \in Nat /\ poll[k].sid \in Nat
          /\ Nobody.sid = 0 /\ Nobody.mode = "none"
      BY OnceTypes
    <2>2. /\ item[k].new[s].sid <= gui[s].sid
          /\ poll[k].phase # "none" /\ poll[k].by = s => poll[k].sid <= gui[s].sid
      BY DEF SaysLittle
    <2>3. item'[k].new[s].mode # "subscribe" /\ item'[k].new[s].sid <= gui'[s].sid
      <3>1. PICK g, h, r, i : g = gui[s].sid /\ h = gui'[s].sid /\ r = item'[k].new[s] /\ i = item[k].new[s]
        OBVIOUS
      <3>2. g \in Nat /\ h \in Nat /\ g <= h /\ i.sid \in Nat /\ i.sid <= g
        BY <2>1, <2>2, <3>1
      <3>3. \/ r = Nobody
            \/ r.sid \in 0..(g - 1) /\ r.mode = "single"
            \/ r.sid = i.sid /\ r.mode # "subscribe"
        BY <3>1 DEF KeptStill
      <3>4. r.mode # "subscribe" /\ (r.sid = 0 \/ r.sid = i.sid \/ r.sid \in 0..(g - 1))
        BY <2>1, <3>3
      <3> QED BY <3>1, <3>2, <3>4
    <2>4. poll'[k].phase # "none" /\ poll'[k].by = s => poll'[k].sid <= gui'[s].sid
      BY <2>1, <2>2 DEF KeptStill
    <2> QED BY <2>3, <2>4 DEF KeptStill
  <1> QED BY <1>1, <1>2 DEF SaysLittle

\* A step that is not about session s, or ends what it asked for.
LEMMA OnceStill ==
  ASSUME TypeInv, NEW s \in Sessions, NEW at, Once(s, at), SaysLittle(s),
         gui'[s] = gui[s], asked'[s] = asked[s], inbox'[s] = inbox[s],
         \A k \in Keys : doc'[k] \in Nat /\ doc[k] <= doc'[k],
         \A m \in wire' : m.from = s => m \in wire,
         \A e \in direct' : e.msg.from = s /\ e.msg.sid = gui[s].sid => e \in direct,
         \A k \in Keys : KeptStill(s, k)
  PROVE  Once(s, at)' /\ SaysLittle(s)'
  <1>1. Queued(s, at)' /\ UnderWay(s, at)'
    BY QueuedStill, UnderWayStill DEF Once
  <1>2. Held(s, at)'
    BY HeldStill DEF Once
  <1>3. Arrived(s, at)' /\ Waits(s, at)'
    BY ArrivedStill, WaitsStill DEF Once
  <1>4. gui[s].sid \in Nat /\ gui[s].sid <= gui[s].sid
    BY OnceTypes
  <1>5. SaysLittle(s)'
    BY <1>4, LittleSaid
  <1> QED BY <1>1, <1>2, <1>3, <1>5 DEF Once

\* What is in one place is in no other.
LEMMA NotQueued ==
  ASSUME NEW s, NEW at, NEW b, gui'[s].sid = gui[s].sid, Once(s, at), at # "wire",
         \A m \in wire' : m.from = s => m \in wire
  PROVE  Queued(s, b)'
  BY DEF Once, Queued, IsNow

LEMMA NotUnderWay ==
  ASSUME NEW s, NEW at, NEW b, gui'[s].sid = gui[s].sid, Once(s, at), at # "direct",
         \A e \in direct' : e.msg.from = s => e \in direct
  PROVE  UnderWay(s, b)'
  BY DEF Once, UnderWay, IsNow

LEMMA NotHeld ==
  ASSUME NEW s, NEW at, NEW b, gui'[s].sid = gui[s].sid, Once(s, at), at # "item",
         item' = item, poll' = poll
  PROVE  Held(s, b)'
  BY DEF Once, Held, IsKept, PollsFor, IsNow

LEMMA NotArrived ==
  ASSUME NEW s, NEW at, NEW b, Once(s, at), at # "inbox", inbox'[s] = inbox[s]
  PROVE  Arrived(s, b)'
  BY DEF Once, Arrived

\* One more request, of a session that waits for none.
LEMMA OnceAsks ==
  ASSUME TypeInv, VersionsOK, NEW s \in Sessions, NEW at, Once(s, at), SaysLittle(s), gui[s].waits = "no",
         NEW k \in Keys, NEW m, m.from = s, m.n = gui[s].sent + 1, m.key = k, m.sid = gui[s].sid,
         NEW h \in Gui, h.sid = gui[s].sid, h.shown = gui[s].shown, Send(s, {m}, h), h.sent = gui[s].sent,
         \/ m.mode = "single" /\ h.waits = "page" /\ h.on = k /\ asked'[s] = doc[k]
         \/ m.mode = "store" /\ h.waits = "store" /\ h.on = gui[s].on /\ asked'[s] = asked[s],
         UNCHANGED <<doc, item, poll, direct, inbox>>
  PROVE  SaysLittle(s)' /\ Once(s, "wire")'
  <1>1. gui[s].sid \in Nat /\ gui[s].sent \in Nat /\ asked[s] \in Nat
    BY OnceTypes
  <1>2. at = "none" /\ gui[s].on = NoKey
    BY DEF Once, Waits
  <1>3. /\ gui'[s].sid = gui[s].sid /\ gui'[s].on = h.on /\ gui'[s].shown = gui[s].shown
        /\ gui'[s].waits = h.waits /\ gui'[s].sent = gui[s].sent + 1 /\ wire' = wire \cup {m}
    <2>1. Cardinality({m}) = 1
      BY FS_Singleton
    <2>2. PICK g : g = [h EXCEPT !.sent = h.sent + 1]
      OBVIOUS
    <2>3. gui \in [Sessions -> Gui]
      BY Parts DEF TypeOK
    <2>4. gui' = [gui EXCEPT ![s] = g] /\ wire' = wire \cup {m}
      BY <2>1, <2>2 DEF Send, Gui
    <2>5. gui'[s] = g
      BY <2>3, <2>4
    <2>6. /\ g.sid = h.sid /\ g.on = h.on /\ g.shown = h.shown /\ g.waits = h.waits
          /\ g.sent = h.sent + 1
      BY <2>2 DEF Gui
    <2> QED BY <2>4, <2>5, <2>6
  <1>4. UnderWay(s, "wire")' /\ Held(s, "wire")' /\ Arrived(s, "wire")'
    <2>1. \A e \in direct' : e.msg.from = s => e \in direct
      OBVIOUS
    <2>2. at # "direct" /\ at # "item" /\ at # "inbox"
      BY <1>2
    <2> QED BY <1>3, <2>1, <2>2, NotUnderWay, NotHeld, NotArrived
  <1>5. Queued(s, "wire")'
    <2>1. \A w \in wire : w.from = s => ~IsNow(s, w.sid)
      BY <1>2 DEF Once, Queued
    <2> QED BY <1>3, <2>1 DEF Queued, IsNow
  <1>6. Waits(s, "wire")'
    <2>1. gui[s].shown.key = k => gui[s].shown.cas <= doc[k]
      BY Bounds DEF VersionsOK, Seen
    <2>2. doc[k] \in Nat
      BY Parts
    <2>3. CASE m.mode = "single" /\ h.waits = "page" /\ h.on = k /\ asked'[s] = doc[k]
      BY <1>3, <2>1, <2>2, <2>3 DEF Waits
    <2>4. CASE m.mode = "store" /\ h.waits = "store" /\ h.on = gui[s].on /\ asked'[s] = asked[s]
      BY <1>2, <1>3, <2>4 DEF Waits
    <2> QED BY <2>3, <2>4
  <1>7. SaysLittle(s)'
    BY <1>3 DEF SaysLittle
  <1> QED BY <1>4, <1>5, <1>6, <1>7 DEF Once

\* What was posted is read.
LEMMA OnceReads ==
  ASSUME TypeInv, VersionsOK, NEW s \in Sessions \ Js, NEW at, Once(s, at), SaysLittle(s),
         UPDATE(s) \/ storeFinished(s)
  PROVE  /\ SaysLittle(s)' /\ Once(s, "none")'
         /\ gui'[s].shown.key = gui[s].shown.key => gui'[s].shown.cas >= gui[s].shown.cas
  <1>1. PICK g, b, p : g = gui[s] /\ b = inbox[s] /\ p = Head(b) /\ b # <<>> /\ g \in Gui /\ b \in Seq(Post)
    BY OnceTypes DEF UPDATE, storeFinished
  <1>2. at = "inbox" /\ Len(b) = 1
    BY <1>1 DEF Once, Arrived
  <1>3. /\ UNCHANGED <<doc, item, poll, direct, wire, asked>>
        /\ inbox' = [inbox EXCEPT ![s] = Tail(@)]
    BY DEF UPDATE, storeFinished, backend, hist
  <1>4. inbox'[s] = <<>>
    <2>1. Tail(b) = <<>>
      <3>1. Tail(b) \in Seq(Post) /\ Len(Tail(b)) = 0
        BY <1>1, <1>2
      <3> QED BY <3>1, EmptySeq
    <2>2. inbox \in [Sessions -> Seq(Post)]
      BY Parts DEF TypeOK
    <2> QED BY <1>1, <1>3, <2>1, <2>2
  <1>5. /\ gui'[s].sid = g.sid /\ gui'[s].waits = "no" /\ gui'[s].on = NoKey
        /\ gui'[s].shown = g.shown \/ (gui'[s].shown = p.what /\ p.to = "page" /\ p.what # Blank)
    <2>1. gui \in [Sessions -> Gui]
      BY Parts DEF TypeOK
    <2>2. CASE UPDATE(s)
      <3>1. p.to = "page"
        BY <1>1, <2>2 DEF UPDATE
      <3>2. g.waits = "page" /\ g.on # NoKey
        BY <1>1, <3>1, Bounds DEF Once, Arrived, Waits
      <3>3. PICK w, h : /\ w = Remembered(g.shown, p.what)
                        /\ h = [g EXCEPT !.shown = w, !.on = NoKey, !.waits = "no"]
        OBVIOUS
      <3>4. gui' = [gui EXCEPT ![s] = h]
        BY <1>1, <2>2, <3>2, <3>3 DEF UPDATE
      <3>5. h.sid = g.sid /\ h.waits = "no" /\ h.on = NoKey /\ h.shown = w
        BY <1>1, <3>3 DEF Gui
      <3>6. w = g.shown \/ (w = p.what /\ p.what # Blank)
        BY <3>3 DEF Remembered
      <3> QED BY <2>1, <3>1, <3>4, <3>5, <3>6
    <2>3. CASE storeFinished(s)
      <3>1. p.to = "store"
        BY <1>1, <2>3 DEF storeFinished
      <3>2. g.waits = "store" /\ g.on = NoKey
        BY <1>1, <3>1 DEF Once, Arrived, Waits
      <3>3. PICK h : h = [g EXCEPT !.waits = "no"]
        OBVIOUS
      <3>4. gui' = [gui EXCEPT ![s] = h]
        BY <1>1, <2>3, <3>3 DEF storeFinished
      <3>5. h.sid = g.sid /\ h.waits = "no" /\ h.on = NoKey /\ h.shown = g.shown
        BY <1>1, <3>2, <3>3 DEF Gui
      <3> QED BY <2>1, <3>4, <3>5
    <2> QED BY <2>2, <2>3
  <1>6. Queued(s, "none")' /\ UnderWay(s, "none")' /\ Held(s, "none")'
    <2>1. /\ \A m \in wire' : m.from = s => m \in wire
          /\ \A e \in direct' : e.msg.from = s => e \in direct
      BY <1>3
    <2>2. at # "wire" /\ at # "direct" /\ at # "item" /\ gui'[s].sid = gui[s].sid
      BY <1>1, <1>2, <1>5
    <2> QED BY <1>3, <2>1, <2>2, NotQueued, NotUnderWay, NotHeld
  <1>7. Arrived(s, "none")' /\ Waits(s, "none")'
    BY <1>4, <1>5 DEF Arrived, Waits
  <1>8. SaysLittle(s)'
    BY <1>1, <1>3, <1>5 DEF SaysLittle
  <1>9. gui'[s].shown.key = gui[s].shown.key => gui'[s].shown.cas >= gui[s].shown.cas
    <2>1. g.shown \in Shown /\ g.shown.cas \in Nat /\ p.what \in Shown /\ p.what.cas \in Nat /\ asked[s] \in Nat
      <3>1. p \in Post
        BY <1>1
      <3>2. g.shown \in Shown /\ p.what \in Shown
        BY <1>1, <3>1 DEF Gui, Post
      <3> QED BY <3>2, OnceTypes, Bounds DEF Shown
    <2>2. CASE gui'[s].shown = g.shown
      BY <1>1, <2>1, <2>2
    <2>3. CASE gui'[s].shown = p.what /\ p.to = "page" /\ p.what # Blank
      <3>1. g.waits = "page" /\ p.what.key = g.on /\ asked[s] <= p.what.cas
        BY <1>1, <2>3 DEF Once, Arrived
      <3>2. g.shown.key = g.on => g.shown.cas <= asked[s]
        BY <1>1, <3>1 DEF Once, Waits
      <3> QED BY <1>1, <2>1, <2>3, <3>1, <3>2
    <2> QED BY <1>5, <2>2, <2>3
  <1> QED BY <1>6, <1>7, <1>8, <1>9 DEF Once

\* It is closed: what is still on its way is not for the one that comes after.
LEMMA OnceEnds ==
  ASSUME TypeInv, NEW s \in Sessions, NEW at, Once(s, at), SaysLittle(s), finalize(s)
  PROVE  /\ SaysLittle(s)' /\ Once(s, "none")'
         /\ gui'[s].shown = Blank /\ gui'[s].sid = gui[s].sid + 1
  <1>1. PICK g : g = gui[s] /\ g \in Gui /\ g.sid \in Nat /\ g.sent \in Nat /\ g.on \in Keys \cup {NoKey}
    BY OnceTypes DEF Gui
  <1>2. TypeOK /\ inbox \in [Sessions -> Seq(Post)]
    BY Parts DEF TypeOK
  <1>3. PICK h : h = [NewGui EXCEPT !.sid = g.sid + 1, !.sent = g.sent]
    OBVIOUS
  <1>4. /\ h \in Gui /\ h.shown = Blank /\ h.sid = g.sid + 1 /\ h.on = NoKey /\ h.waits = "no"
    <2>1. g.sid + 1 \in Sids
      BY <1>1 DEF Sids
    <2>2. NewGui \in Gui /\ NewGui.shown = Blank /\ NewGui.on = NoKey /\ NewGui.waits = "no"
      BY EmptyStart DEF NewGui
    <2> QED BY <1>1, <1>3, <2>1, <2>2 DEF Gui
  <1>5. PICK msgs : msgs = IF g.on = NoKey THEN {} ELSE {Msg(s, 1, "unsubscribe", g.on)}
    OBVIOUS
  <1>6. /\ Send(s, msgs, h) /\ inbox' = [inbox EXCEPT ![s] = <<>>]
        /\ UNCHANGED <<doc, item, poll, direct, asked>>
    BY <1>1, <1>3, <1>5 DEF finalize, backend, hist
  <1>7. \A m \in msgs : m.mode = "unsubscribe" /\ m.sid = g.sid
    BY <1>1, <1>2, <1>5, MsgType
  <1>8. /\ gui'[s].shown = Blank /\ gui'[s].sid = g.sid + 1 /\ gui'[s].on = NoKey /\ gui'[s].waits = "no"
        /\ wire' = wire \cup msgs
    BY <1>2, <1>4, <1>6, SendEffect
  <1>9. \A m \in wire' : m.from = s => m.sid < gui'[s].sid /\ m.mode \in {"single", "store", "unsubscribe"}
    <2>1. \A m \in wire : m.from = s => m.sid \in Nat /\ m.sid <= g.sid
      BY <1>1, Parts DEF MessagesOK, Known, Message, Sids
    <2>2. \A m \in wire : m.from = s => m.mode \in {"single", "store", "unsubscribe"}
      BY DEF SaysLittle
    <2> QED BY <1>1, <1>7, <1>8, <2>1, <2>2
  <1>10. Queued(s, "none")'
    <2>1. gui'[s].sid \in Nat /\ \A m \in wire' : m.from = s => m.sid # gui'[s].sid
      <3>1. \A m \in wire' : m.sid \in Nat
        BY <1>1, <1>7, <1>8, Parts DEF Message, Sids
      <3> QED BY <1>1, <1>8, <1>9, <3>1
    <2> QED BY <2>1 DEF Queued, IsNow
  <1>11. UnderWay(s, "none")'
    <2>1. \A d \in direct : d.msg.from = s => d.msg.sid \in Nat /\ d.msg.sid <= g.sid
      BY <1>1, Parts, TypeParts DEF MessagesOK, Known, Message, Sids
    <2>2. \A d \in direct' : d.msg.from = s => d.msg.sid # gui'[s].sid
      BY <1>1, <1>6, <1>8, <2>1
    <2> QED BY <2>2 DEF UnderWay, IsNow
  <1>12. /\ \A k \in Keys : /\ item[k].new[s].sid \in Nat /\ item[k].new[s].sid <= g.sid
                            /\ poll[k].sid \in Nat
                            /\ poll[k].phase # "none" /\ poll[k].by = s => poll[k].sid <= g.sid
    BY <1>1, OnceTypes DEF SaysLittle
  <1>13. Held(s, "none")'
    <2>1. \A k \in Keys : /\ item[k].new[s].sid # gui'[s].sid
                          /\ poll[k].phase # "none" /\ poll[k].by = s => poll[k].sid # gui'[s].sid
      BY <1>1, <1>8, <1>12
    <2> QED BY <1>6, <2>1 DEF Held, IsKept, PollsFor, IsNow
  <1>14. Arrived(s, "none")'
    <2>1. inbox'[s] = <<>>
      BY <1>2, <1>6
    <2> QED BY <2>1 DEF Arrived
  <1>15. Waits(s, "none")'
    BY <1>8 DEF Waits
  <1>16. SaysLittle(s)'
    <2>1. \A k \in Keys : /\ item[k].new[s].sid <= gui'[s].sid
                          /\ poll[k].phase # "none" /\ poll[k].by = s => poll[k].sid <= gui'[s].sid
      BY <1>1, <1>8, <1>12
    <2> QED BY <1>6, <1>9, <2>1 DEF SaysLittle
  <1> QED BY <1>1, <1>8, <1>10, <1>11, <1>13, <1>14, <1>15, <1>16 DEF Once

\* What one session does is nothing to another.
LEMMA OthersSay ==
  ASSUME TypeInv, NEW p \in Sessions, SessionStep(p), NEW s \in Sessions, s # p
  PROVE  asked'[s] = asked[s] /\ \A m \in wire' : m.from = s => m \in wire
  <1>1. TypeOK /\ asked \in [Sessions -> Version]
    BY Parts DEF TypeOK
  <1>2. asked' = asked \/ \E k \in Keys : asked' = [asked EXCEPT ![p] = doc[k]]
    BY Zenon DEF SessionStep, ShowCampaign, ShowCampaignOnce, StoreDocument, Login, finalize,
                 unsubscribeIfSubscribedToAnything, UPDATE, storeFinished, hist
  <1>3. CASE Says(p)
    <2>1. PICK msgs, g : Said(p, msgs, g)
      BY <1>1, <1>3, SaysSaid
    <2>2. wire' = wire \cup msgs /\ \A m \in msgs : m.from = p
      BY <2>1 DEF Said, Send
    <2> QED BY <1>1, <1>2, <2>2
  <1>4. CASE UPDATE(p) \/ storeFinished(p)
    BY <1>1, <1>2, <1>4 DEF UPDATE, storeFinished
  <1> QED BY <1>3, <1>4 DEF SessionStep, Says

LEMMA OnceSession ==
  ASSUME TypeInv, VersionsOK, OnceInv, NEW p \in Sessions, SessionStep(p)
  PROVE  /\ OnceInv'
         /\ \A s \in Sessions \ Js :
              gui'[s].shown.key = gui[s].shown.key => gui'[s].shown.cas >= gui[s].shown.cas
  <1>1. /\ TypeOK /\ UNCHANGED <<doc, item, poll, direct>>
        /\ \A q \in Sessions : q # p => inbox'[q] = inbox[q] /\ gui'[q] = gui[q]
    BY Parts, SessionSees
  <1>2. SUFFICES ASSUME NEW s \in Sessions \ Js
                 PROVE  /\ OnceIn(s)'
                        /\ gui'[s].shown.key = gui[s].shown.key => gui'[s].shown.cas >= gui[s].shown.cas
    BY DEF OnceInv, OnceIn
  <1>3. PICK at \in {"none", "wire", "direct", "item", "inbox"} : Once(s, at)
    BY DEF OnceInv, OnceIn
  <1>4. /\ SaysLittle(s) /\ gui[s].shown.cas \in Nat /\ \A k \in Keys : doc[k] \in Nat
    BY <1>1, OnceTypes, Bounds DEF OnceInv, OnceIn, Gui, Shown
  <1>5. gui[s].waits = "no" => gui[s].on = NoKey
    BY <1>3 DEF Once, Waits
  <1>6. CASE s # p
    <2>1. /\ inbox'[s] = inbox[s] /\ gui'[s] = gui[s] /\ asked'[s] = asked[s]
          /\ \A m \in wire' : m.from = s => m \in wire
      BY <1>1, <1>6, OthersSay
    <2>2. \A e \in direct' : e.msg.from = s /\ e.msg.sid = gui[s].sid => e \in direct
      BY <1>1
    <2>3. \A k \in Keys : doc'[k] \in Nat /\ doc[k] <= doc'[k]
      BY <1>1, <1>4
    <2>4. \A k \in Keys : KeptStill(s, k)
      BY <1>1, <1>4, NothingKept
    <2>5. Once(s, at)' /\ SaysLittle(s)'
      BY <1>3, <1>4, <2>1, <2>2, <2>3, <2>4, OnceStill
    <2> QED BY <1>4, <2>1, <2>5 DEF OnceIn
  <1>7. CASE s = p /\ finalize(s)
    <2>1. SaysLittle(s)' /\ Once(s, "none")' /\ gui'[s].shown = Blank
      BY <1>3, <1>4, <1>7, OnceEnds
    <2>2. gui[s].shown.key = NoKey => gui[s].shown.cas = 0
      BY DEF VersionsOK, Seen
    <2> QED BY <2>1, <2>2, EmptyStart DEF OnceIn
  <1>8. CASE s = p /\ (UPDATE(s) \/ storeFinished(s))
    BY <1>3, <1>4, <1>8, OnceReads DEF OnceIn
  <1>9. ASSUME NEW k \in Keys, ShowCampaignOnce(s, k)
        PROVE  OnceIn(s)' /\ gui'[s].shown = gui[s].shown
    <2>1. PICK g : g = gui[s] /\ g \in Gui
      BY OnceTypes
    <2>2. PICK h, m : h = [g EXCEPT !.on = k, !.waits = "page"] /\ m = Msg(s, 1, "single", k)
      OBVIOUS
    <2>3. /\ h \in Gui /\ h.sid = gui[s].sid /\ h.shown = gui[s].shown /\ h.sent = gui[s].sent
          /\ h.waits = "page" /\ h.on = k
      BY <2>1, <2>2 DEF Gui
    <2>4. m.from = s /\ m.n = gui[s].sent + 1 /\ m.mode = "single" /\ m.key = k /\ m.sid = gui[s].sid
      BY <1>1, <2>2, MsgType
    <2>5. Send(s, {m}, h) /\ gui[s].waits = "no" /\ UNCHANGED <<doc, item, poll, direct, inbox>>
      BY <1>9, <2>1, <2>2 DEF ShowCampaignOnce, backend
    <2>6. asked'[s] = doc[k]
      BY <1>1, <1>9 DEF ShowCampaignOnce, TypeOK
    <2>7. \/ m.mode = "single" /\ h.waits = "page" /\ h.on = k /\ asked'[s] = doc[k]
          \/ m.mode = "store" /\ h.waits = "store" /\ h.on = gui[s].on /\ asked'[s] = asked[s]
      BY <2>3, <2>4, <2>6
    <2>8. SaysLittle(s)' /\ Once(s, "wire")'
      BY <1>3, <1>4, <2>3, <2>4, <2>5, <2>7, OnceAsks
    <2>9. gui'[s].shown = gui[s].shown
      BY <1>1, <2>3, <2>5, SendEffect
    <2> QED BY <2>8, <2>9 DEF OnceIn
  <1>10. ASSUME NEW k \in Keys, StoreDocument(s, k)
         PROVE  OnceIn(s)' /\ gui'[s].shown = gui[s].shown
    <2>1. PICK g : g = gui[s] /\ g \in Gui
      BY OnceTypes
    <2>2. PICK h, m : h = [g EXCEPT !.waits = "store"] /\ m = Msg(s, 1, "store", k)
      OBVIOUS
    <2>3. /\ h \in Gui /\ h.sid = gui[s].sid /\ h.shown = gui[s].shown /\ h.sent = gui[s].sent
          /\ h.waits = "store" /\ h.on = gui[s].on
      BY <2>1, <2>2 DEF Gui
    <2>4. m.from = s /\ m.n = gui[s].sent + 1 /\ m.mode = "store" /\ m.key = k /\ m.sid = gui[s].sid
      BY <1>1, <2>2, MsgType
    <2>5. Send(s, {m}, h) /\ gui[s].waits = "no" /\ UNCHANGED <<doc, item, poll, direct, inbox>>
      BY <1>10, <2>1, <2>2 DEF StoreDocument, backend
    <2>6. asked'[s] = asked[s]
      BY <1>10 DEF StoreDocument, hist
    <2>7. \/ m.mode = "single" /\ h.waits = "page" /\ h.on = k /\ asked'[s] = doc[k]
          \/ m.mode = "store" /\ h.waits = "store" /\ h.on = gui[s].on /\ asked'[s] = asked[s]
      BY <2>3, <2>4, <2>6
    <2>8. SaysLittle(s)' /\ Once(s, "wire")'
      BY <1>3, <1>4, <2>3, <2>4, <2>5, <2>7, OnceAsks
    <2>9. gui'[s].shown = gui[s].shown
      BY <1>1, <2>3, <2>5, SendEffect
    <2> QED BY <2>8, <2>9 DEF OnceIn
  <1>11. ~unsubscribeIfSubscribedToAnything(s) /\ ~Login(s) /\ \A k \in Keys : ~ShowCampaign(s, k)
    <2>1. ~unsubscribeIfSubscribedToAnything(s)
      BY <1>5, Zenon DEF unsubscribeIfSubscribedToAnything
    <2>2. ~Login(s)
      BY <1>5, Zenon DEF Login
    <2>3. \A k \in Keys : ~ShowCampaign(s, k)
      BY Zenon DEF ShowCampaign
    <2> QED BY <2>1, <2>2, <2>3
  <1>12. CASE s = p /\ \E k \in Keys : ShowCampaignOnce(s, k) \/ StoreDocument(s, k)
    BY <1>4, <1>9, <1>10, <1>12
  <1> QED BY <1>6, <1>7, <1>8, <1>11, <1>12, Zenon DEF SessionStep

\* An item of which the session's entry is what it was.
LEMMA EntryKept ==
  ASSUME TypeInv, NEW s \in Sessions, SaysLittle(s), NEW k \in Keys,
         item'[k].new[s] = item[k].new[s], item'[k].old[s] = item[k].old[s],
         item'[k].chg[s] = item[k].chg[s], poll'[k] = poll[k]
  PROVE  KeptStill(s, k)
  BY DEF KeptStill, SaysLittle

\* Taking a message leaves what is kept of all sessions but the one it is from.
LEMMA TakeKeeps ==
  ASSUME TypeInv, NEW m \in wire, Take(m), NEW s \in Sessions, SaysLittle(s),
         s = m.from => UNCHANGED item \/ m.mode # "single",
         NEW k \in Keys
  PROVE  KeptStill(s, k)
  <1>1. PICK p : p = m.from /\ p \in Sessions /\ m.key \in Keys /\ m.sid \in Nat
    BY Parts DEF Message, Sids
  <1>2. /\ TypeOK /\ item \in [Keys -> Item] /\ poll \in [Keys -> Poll]
        /\ s = p => m.mode \in {"single", "store", "unsubscribe"}
    BY <1>1, Parts DEF TypeOK, SaysLittle
  <1>3. PICK i : i = item[m.key] /\ i \in Item
    BY <1>1, <1>2
  <1>4. /\ i.new \in [Sessions -> Request] /\ i.old \in [Sessions -> Request]
        /\ i.unsub \in [Sessions -> Nat] /\ i.chg \in [Sessions -> Seq(Sids)]
    BY <1>3 DEF Item
  \* Of the item of another campaign there is nothing to show.
  <1>5. ASSUME NEW j, item' = [item EXCEPT ![m.key] = j], poll' = poll,
               j.new[s] = i.new[s], j.old[s] = i.old[s], j.chg[s] = i.chg[s]
        PROVE  KeptStill(s, k)
    <2>1. CASE k = m.key
      <3>1. item'[k] = j /\ item[k] = i /\ poll'[k] = poll[k]
        BY <1>1, <1>2, <1>3, <1>5, <2>1
      <3> QED BY <1>5, <3>1, EntryKept
    <2>2. CASE k # m.key
      <3>1. item'[k] = item[k] /\ poll'[k] = poll[k]
        BY <1>1, <1>2, <1>5, <2>2
      <3> QED BY <3>1, NothingKept
    <2> QED BY <2>1, <2>2
  <1>6. CASE item' = item /\ poll' = poll
    BY <1>6, NothingKept
  <1>7. CASE TakeUnsubscribe(m)
    <2>1. PICK u : u = [i.unsub EXCEPT ![p] = @ + 1]
      OBVIOUS
    <2>2. PICK j : j = [i EXCEPT !.unsub = u]
      OBVIOUS
    <2>3. j.new = i.new /\ j.old = i.old /\ j.chg = i.chg
      BY <1>3, <2>2 DEF Item
    <2>4. (item' = [item EXCEPT ![m.key] = j] \/ item' = item) /\ poll' = poll
      BY <1>1, <1>2, <1>3, <1>7, <2>1, <2>2 DEF TakeUnsubscribe, Item
    <2> QED BY <1>5, <1>6, <2>3, <2>4
  <1>8. CASE TakeChangeSessionId(m)
    <2>1. PICK u : u = [i.chg EXCEPT ![p] = Append(@, m.sid)]
      OBVIOUS
    <2>2. PICK j : j = [i EXCEPT !.chg = u]
      OBVIOUS
    <2>3. j.new = i.new /\ j.old = i.old /\ j.chg = u
      BY <1>3, <2>2 DEF Item
    <2>4. s # p
      BY <1>2, <1>8 DEF TakeChangeSessionId
    <2>5. u[s] = i.chg[s]
      BY <1>4, <2>1, <2>4
    <2>6. (item' = [item EXCEPT ![m.key] = j] \/ item' = item) /\ poll' = poll
      BY <1>1, <1>2, <1>3, <1>8, <2>1, <2>2 DEF TakeChangeSessionId, Item
    <2> QED BY <1>5, <1>6, <2>3, <2>5, <2>6
  <1>9. CASE TakeSingle(m)
    <2>1. PICK u : u = [i.new EXCEPT ![p] = AsSingle(m)]
      OBVIOUS
    <2>2. PICK j : j = [i EXCEPT !.new = u]
      OBVIOUS
    <2>3. j.new = u /\ j.old = i.old /\ j.chg = i.chg
      BY <1>3, <2>2 DEF Item
    <2>4. (item' = [item EXCEPT ![m.key] = j] \/ item' = item) /\ poll' = poll /\ m.mode = "single"
      BY <1>1, <1>2, <1>3, <1>9, <2>1, <2>2 DEF TakeSingle, Item
    <2>5. item' = item \/ s # p
      BY <1>1, <2>4
    <2>6. s # p => u[s] = i.new[s]
      BY <1>4, <2>1
    <2> QED BY <1>5, <1>6, <2>3, <2>4, <2>5, <2>6
  <1>10. CASE TakeSubscribe(m)
    <2>1. PICK r : r = [mode |-> "subscribe", sid |-> m.sid]
      OBVIOUS
    <2>2. \/ item' = [item EXCEPT ![m.key].old[p] = r] /\ poll' = poll
          \/ item' = [item EXCEPT ![m.key].new[p] = r] /\ poll' = poll
          \/ /\ item' = [item EXCEPT ![m.key] =
                  [NoItem EXCEPT !.cached = TRUE, !.fetching = TRUE, !.new[p] = r]]
             /\ poll' = [poll EXCEPT ![m.key] = [NoPoll EXCEPT !.phase = "sent", !.by = p, !.sid = m.sid]]
      BY <1>1, <1>10, <2>1, Zenon DEF TakeSubscribe
    <2>3. s # p
      <3>1. m.mode = "subscribe"
        BY <1>10, Zenon DEF TakeSubscribe
      <3> QED BY <1>2, <3>1
    <2>4. CASE item' = [item EXCEPT ![m.key].old[p] = r] /\ poll' = poll
      <3>1. PICK u : u = [i.old EXCEPT ![p] = r]
        OBVIOUS
      <3>2. PICK j : j = [i EXCEPT !.old = u]
        OBVIOUS
      <3>3. j.new = i.new /\ j.old = u /\ j.chg = i.chg
        BY <1>3, <3>2 DEF Item
      <3>4. item' = [item EXCEPT ![m.key] = j]
        BY <1>1, <1>2, <1>3, <2>4, <3>1, <3>2 DEF Item
      <3>5. u[s] = i.old[s]
        BY <1>4, <2>3, <3>1
      <3> QED BY <1>5, <2>4, <3>3, <3>4, <3>5
    <2>5. CASE item' = [item EXCEPT ![m.key].new[p] = r] /\ poll' = poll
      <3>1. PICK u : u = [i.new EXCEPT ![p] = r]
        OBVIOUS
      <3>2. PICK j : j = [i EXCEPT !.new = u]
        OBVIOUS
      <3>3. j.new = u /\ j.old = i.old /\ j.chg = i.chg
        BY <1>3, <3>2 DEF Item
      <3>4. item' = [item EXCEPT ![m.key] = j]
        BY <1>1, <1>2, <1>3, <2>5, <3>1, <3>2 DEF Item
      <3>5. u[s] = i.new[s]
        BY <1>4, <2>3, <3>1
      <3> QED BY <1>5, <2>5, <3>3, <3>4, <3>5
    <2>6. CASE /\ item' = [item EXCEPT ![m.key] =
                    [NoItem EXCEPT !.cached = TRUE, !.fetching = TRUE, !.new[p] = r]]
               /\ poll' = [poll EXCEPT ![m.key] = [NoPoll EXCEPT !.phase = "sent", !.by = p, !.sid = m.sid]]
      <3>1. PICK n : /\ n = NoItem /\ n \in Item /\ n.new \in [Sessions -> Request]
                     /\ n.new[s] = Nobody /\ n.old[s] = Nobody /\ n.chg[s] = <<>>
        BY EmptyStart DEF Item
      <3>2. PICK u, c : /\ u = [n.new EXCEPT ![p] = r]
                        /\ c = [NoPoll EXCEPT !.phase = "sent", !.by = p, !.sid = m.sid]
        OBVIOUS
      <3>3. PICK j : j = [n EXCEPT !.cached = TRUE, !.fetching = TRUE, !.new = u]
        OBVIOUS
      <3>4. j.new[s] = Nobody /\ j.old[s] = Nobody /\ j.chg[s] = <<>>
        <4>1. u[s] = Nobody
          BY <2>3, <3>1, <3>2
        <4> QED BY <3>1, <3>3, <4>1 DEF Item
      <3>5. item' = [item EXCEPT ![m.key] = j] /\ poll' = [poll EXCEPT ![m.key] = c]
        BY <2>6, <3>1, <3>2, <3>3 DEF Item
      <3>6. c.by = p /\ c.phase = "sent"
        BY <3>2, EmptyStart DEF Poll
      <3>7. CASE k = m.key
        <4>1. item'[k] = j /\ poll'[k] = c
          BY <1>1, <1>2, <3>5, <3>7
        <4> QED BY <2>3, <3>4, <3>6, <4>1 DEF KeptStill
      <3>8. CASE k # m.key
        <4>1. item'[k] = item[k] /\ poll'[k] = poll[k]
          BY <1>1, <1>2, <3>5, <3>8
        <4> QED BY <4>1, NothingKept
      <3> QED BY <3>7, <3>8
    <2> QED BY <2>2, <2>4, <2>5, <2>6, Zenon
  <1>11. CASE Discard(m) \/ TakeStore(m)
    <2>1. item' = item /\ poll' = poll
      BY <1>11 DEF Discard, TakeStore, backend
    <2> QED BY <1>6, <2>1
  <1> QED BY <1>7, <1>8, <1>9, <1>10, <1>11, Zenon DEF Take

\* A request of its own gets under way.
LEMMA OnceGoes ==
  ASSUME TypeInv, NEW s \in Sessions, NEW at, Once(s, at), SaysLittle(s),
         NEW m \in wire, m.from = s, m.sid = gui[s].sid, m.mode \in {"single", "store"}, wire' = wire \ {m},
         direct' = direct \cup {[msg |-> m, phase |-> "sent", cas |-> 0]},
         UNCHANGED <<doc, item, poll, gui, inbox, asked>>
  PROVE  SaysLittle(s)' /\ Once(s, "direct")'
  <1>1. /\ at = "wire" /\ m.n = gui[s].sent
        /\ \/ m.mode = "single" /\ gui[s].waits = "page" /\ gui[s].on = m.key
           \/ m.mode = "store" /\ gui[s].waits = "store"
    BY DEF Once, Queued, IsNow
  <1>2. at # "direct" /\ at # "item" /\ at # "inbox" /\ gui[s].waits # "no"
    BY <1>1
  <1>3. Queued(s, "direct")'
    <2>1. \A w \in wire : w.from = s /\ w.sid = gui[s].sid => w = m
      <3>1. \A w \in wire : w.from = s /\ w.sid = gui[s].sid => w.n = gui[s].sent
        BY DEF Once, Queued, IsNow
      <3> QED BY <1>1, <3>1, Parts DEF MessagesOK, Id
    <2> QED BY <2>1 DEF Queued, IsNow
  <1>4. UnderWay(s, "direct")'
    <2>1. \A e \in direct : e.msg.from = s => e.msg.sid # gui[s].sid
      BY <1>2 DEF Once, UnderWay, IsNow
    <2>2. PICK d : d = [msg |-> m, phase |-> "sent", cas |-> 0]
      OBVIOUS
    <2>3. d.msg = m /\ d.phase = "sent" /\ direct' = direct \cup {d}
      BY <2>2
    <2> QED BY <1>1, <2>1, <2>3 DEF UnderWay, IsNow
  <1>5. Held(s, "direct")' /\ Arrived(s, "direct")'
    BY <1>2, NotHeld, NotArrived
  <1>6. Waits(s, "direct")'
    BY <1>2 DEF Once, Waits
  <1>7. SaysLittle(s)'
    BY DEF SaysLittle
  <1> QED BY <1>3, <1>4, <1>5, <1>6, <1>7 DEF Once

\* It is put among the new subscribers, and let one poll pass.
LEMMA OnceKept ==
  ASSUME TypeInv, NEW s \in Sessions, NEW at, Once(s, at), SaysLittle(s),
         NEW m \in wire, m.from = s, m.sid = gui[s].sid, m.mode = "single", wire' = wire \ {m},
         m.key \in Keys, item'[m.key].new[s] = AsSingle(m),
         item'[m.key].old[s] = item[m.key].old[s], item'[m.key].chg[s] = item[m.key].chg[s],
         \A q \in Keys : q # m.key => item'[q] = item[q],
         UNCHANGED <<doc, direct, poll, gui, inbox, asked>>
  PROVE  SaysLittle(s)' /\ Once(s, "item")'
  <1>1. at = "wire" /\ m.n = gui[s].sent /\ gui[s].waits = "page" /\ gui[s].on = m.key
    BY DEF Once, Queued, IsNow
  <1>2. at # "direct" /\ at # "item" /\ at # "inbox" /\ gui[s].waits # "no"
    BY <1>1
  <1>3. Queued(s, "item")'
    <2>1. \A w \in wire : w.from = s /\ w.sid = gui[s].sid => w = m
      <3>1. \A w \in wire : w.from = s /\ w.sid = gui[s].sid => w.n = gui[s].sent
        BY DEF Once, Queued, IsNow
      <3> QED BY <1>1, <3>1, Parts DEF MessagesOK, Id
    <2> QED BY <2>1 DEF Queued, IsNow
  <1>4. UnderWay(s, "item")' /\ Arrived(s, "item")'
    <2>1. \A e \in direct' : e.msg.from = s => e \in direct
      OBVIOUS
    <2> QED BY <1>2, <2>1, NotUnderWay, NotArrived
  <1>5. AsSingle(m).mode = "single" /\ AsSingle(m).sid = gui[s].sid
    BY DEF AsSingle
  <1>6. Held(s, "item")'
    <2>1. \A q \in Keys : ~IsKept(s, q) /\ ~PollsFor(s, q)
      BY <1>2 DEF Once, Held
    <2>2. \A q \in Keys : ~PollsFor(s, q)'
      BY <2>1 DEF PollsFor, IsNow
    <2>3. \A q \in Keys : q # m.key => ~IsKept(s, q)'
      BY <2>1 DEF IsKept, IsNow
    <2> QED BY <1>1, <1>5, <2>2, <2>3 DEF Held
  <1>7. Waits(s, "item")'
    BY <1>2 DEF Once, Waits
  <1>8. SaysLittle(s)'
    <2>1. gui[s].sid \in Nat
      BY OnceTypes
    <2>2. \A q \in Keys : /\ item'[q].old[s] = Nobody /\ item'[q].chg[s] = <<>>
                          /\ item'[q].new[s].mode # "subscribe" /\ item'[q].new[s].sid <= gui[s].sid
      BY <1>5, <2>1 DEF SaysLittle
    <2> QED BY <2>2 DEF SaysLittle
  <1> QED BY <1>3, <1>4, <1>6, <1>7, <1>8 DEF Once

LEMMA OnceTake ==
  ASSUME CountInv, OnceInv, NEW m \in wire, Take(m)
  PROVE  OnceInv'
  <1>1. /\ TypeInv /\ TypeOK /\ Taken(m) /\ m.key \in Keys /\ m.from \in Sessions /\ m.sid \in Nat
        /\ wire' = wire \ {m} /\ UNCHANGED <<doc, gui, asked>> /\ item \in [Keys -> Item]
    <2>1. TypeInv /\ TypeOK
      BY Parts DEF CountInv
    <2>2. Taken(m)
      BY Zenon DEF Take, Discard, TakeUnsubscribe, TakeChangeSessionId, TakeSubscribe, TakeSingle,
                   TakeStore, Took
    <2> QED BY <2>1, <2>2, TakenParts DEF TypeOK
  <1>2. SUFFICES ASSUME NEW s \in Sessions \ Js PROVE OnceIn(s)'
    BY DEF OnceInv
  <1>3. PICK at \in {"none", "wire", "direct", "item", "inbox"} : Once(s, at)
    BY DEF OnceInv, OnceIn
  <1>4. SaysLittle(s) /\ gui[s].sid \in Nat /\ \A k \in Keys : doc[k] \in Nat
    BY <1>1, OnceTypes, Parts DEF OnceInv, OnceIn
  <1>5. inbox'[s] = inbox[s]
    <2>1. CASE m.from = s
      <3>1. m.mode # "subscribe"
        BY <1>4, <2>1 DEF SaysLittle
      <3>2. inbox' = inbox
        BY <3>1, Zenon DEF Take, Discard, TakeUnsubscribe, TakeChangeSessionId, TakeSubscribe, TakeSingle,
                     TakeStore
      <3> QED BY <3>2
    <2>2. CASE m.from # s
      BY <2>2, TakeTells
    <2> QED BY <2>1, <2>2
  <1>6. ASSUME \A k \in Keys : KeptStill(s, k),
               \A e \in direct' : e.msg.from = s /\ e.msg.sid = gui[s].sid => e \in direct
        PROVE  OnceIn(s)'
    <2>1. \A w \in wire' : w.from = s => w \in wire
      BY <1>1
    <2>2. \A k \in Keys : doc'[k] \in Nat /\ doc[k] <= doc'[k]
      BY <1>1, <1>4
    <2>3. gui'[s] = gui[s] /\ asked'[s] = asked[s]
      BY <1>1
    <2>4. Once(s, at)' /\ SaysLittle(s)'
      BY <1>1, <1>3, <1>4, <1>5, <1>6, <2>1, <2>2, <2>3, OnceStill
    <2> QED BY <2>4 DEF OnceIn
  <1>7. PICK d : d = [msg |-> m, phase |-> "sent", cas |-> 0] /\ d.msg = m
    <2>1. PICK e : e = [msg |-> m, phase |-> "sent", cas |-> 0]
      OBVIOUS
    <2>2. e.msg = m
      BY <2>1
    <2> QED BY <2>1, <2>2
  <1>8. \/ direct' = direct
        \/ /\ direct' = direct \cup {d} /\ m.mode \in {"single", "store"}
           /\ UNCHANGED <<item, poll, inbox>>
    BY <1>7, Zenon DEF Take, Discard, TakeUnsubscribe, TakeChangeSessionId, TakeSubscribe, TakeSingle,
                 TakeStore, backend
  <1>9. CASE /\ direct' = direct \cup {d} /\ m.mode \in {"single", "store"}
             /\ UNCHANGED <<item, poll, inbox>>
    <2>1. CASE m.from = s /\ m.sid = gui[s].sid
      <3>1. direct' = direct \cup {[msg |-> m, phase |-> "sent", cas |-> 0]}
        BY <1>7, <1>9
      <3>2. UNCHANGED <<doc, item, poll, gui, inbox, asked>>
        BY <1>1, <1>9
      <3>3. SaysLittle(s)' /\ Once(s, "direct")'
        BY <1>1, <1>3, <1>4, <1>9, <2>1, <3>1, <3>2, OnceGoes
      <3> QED BY <3>3 DEF OnceIn
    <2>2. CASE m.from # s \/ m.sid # gui[s].sid
      <3>1. \A e \in direct' : e.msg.from = s /\ e.msg.sid = gui[s].sid => e \in direct
        BY <1>7, <1>9, <2>2
      <3>2. \A k \in Keys : KeptStill(s, k)
        BY <1>1, <1>4, <1>9, NothingKept
      <3> QED BY <1>6, <3>1, <3>2
    <2> QED BY <2>1, <2>2
  <1>10. CASE direct' = direct /\ (s = m.from => UNCHANGED item \/ m.mode # "single")
    BY <1>1, <1>4, <1>6, <1>10, TakeKeeps
  <1>11. CASE direct' = direct /\ s = m.from /\ item' # item /\ m.mode = "single"
    <2>1. PICK k, i : k = m.key /\ i = item[k] /\ i \in Item /\ k \in Keys
      BY <1>1
    <2>2. PICK u : u = [i.new EXCEPT ![s] = AsSingle(m)]
      OBVIOUS
    <2>3. PICK j : j = [i EXCEPT !.new = u]
      OBVIOUS
    <2>4. TakeSingle(m)
      BY <1>11, Zenon DEF Take, Discard, TakeUnsubscribe, TakeChangeSessionId, TakeSubscribe, TakeStore,
                    backend
    <2>5. item' = [item EXCEPT ![k] = j] /\ poll' = poll /\ inbox' = inbox
      BY <1>1, <1>11, <2>1, <2>2, <2>3, <2>4 DEF TakeSingle, Item
    <2>6. i.new \in [Sessions -> Request]
      BY <2>1 DEF Item
    <2>7. j.new = u /\ j.old = i.old /\ j.chg = i.chg /\ u[s] = AsSingle(m)
      BY <2>1, <2>2, <2>3, <2>6 DEF Item
    <2>8. item'[k] = j /\ \A q \in Keys : q # k => item'[q] = item[q]
      BY <1>1, <2>1, <2>5
    <2>9. CASE m.sid = gui[s].sid
      <3>1. /\ item'[m.key].new[s] = AsSingle(m) /\ item'[m.key].old[s] = item[m.key].old[s]
            /\ item'[m.key].chg[s] = item[m.key].chg[s]
            /\ \A q \in Keys : q # m.key => item'[q] = item[q]
        BY <2>1, <2>7, <2>8
      <3>2. UNCHANGED <<doc, direct, poll, gui, inbox, asked>> /\ m.from = s /\ m.mode = "single"
        BY <1>1, <1>11, <2>5
      <3>3. SaysLittle(s)' /\ Once(s, "item")'
        BY <1>1, <1>3, <1>4, <2>9, <3>1, <3>2, OnceKept
      <3> QED BY <3>3 DEF OnceIn
    <2>10. CASE m.sid # gui[s].sid
      <3>1. m.sid \in 0..(gui[s].sid - 1)
        <4>1. m.sid <= gui[s].sid
          BY <1>1, <1>11, Parts DEF MessagesOK, Known
        <4> QED BY <1>1, <1>4, <2>10, <4>1
      <3>2. AsSingle(m).mode = "single" /\ AsSingle(m).sid = m.sid
        BY DEF AsSingle
      <3>3. KeptStill(s, k)
        BY <1>4, <2>1, <2>5, <2>7, <2>8, <3>1, <3>2 DEF KeptStill, SaysLittle
      <3>4. \A q \in Keys : KeptStill(s, q)
        <4> SUFFICES ASSUME NEW q \in Keys, q # k PROVE KeptStill(s, q)
          BY <3>3
        <4>1. item'[q] = item[q] /\ poll'[q] = poll[q]
          BY <2>5, <2>8
        <4> QED BY <1>1, <1>4, <4>1, NothingKept
      <3> QED BY <1>6, <1>11, <3>4
    <2> QED BY <2>9, <2>10
  <1> QED BY <1>8, <1>9, <1>10, <1>11

\* What it waited for is posted to it, and nothing is kept.
LEMMA Delivered ==
  ASSUME NEW s \in Sessions, NEW at, Once(s, at), at # "inbox", NEW p, inbox'[s] = inbox[s] \o <<p>>,
         gui'[s] = gui[s], asked'[s] = asked[s],
         \/ /\ p.to = "page" /\ gui[s].waits = "page"
            /\ p.what # Blank => p.what.key = gui[s].on /\ asked[s] <= p.what.cas
         \/ p.to = "store" /\ p.what = Blank /\ gui[s].waits = "store"
  PROVE  Arrived(s, "inbox")'
  <1>1. inbox[s] = <<>>
    BY DEF Once, Arrived
  <1>2. inbox'[s] = <<p>>
    BY <1>1
  <1>3. PICK b : b = <<p>>
    OBVIOUS
  <1>4. Len(b) = 1 /\ Head(b) = p
    BY <1>3
  <1> QED BY <1>2, <1>3, <1>4 DEF Arrived

LEMMA OnceTold ==
  ASSUME TypeInv, NEW s \in Sessions, NEW at, Once(s, at), SaysLittle(s),
         NEW k \in Keys, IsKept(s, k) \/ PollsFor(s, k),
         item'[k].new[s] = Nobody, item'[k].old[s] = Nobody, item'[k].chg[s] = <<>>,
         poll'[k].phase = "none",
         \A q \in Keys : q # k => item'[q] = item[q] /\ poll'[q] = poll[q],
         NEW p, p.to = "page", p.what # Blank => p.what.key = k /\ asked[s] <= p.what.cas,
         inbox'[s] = inbox[s] \o <<p>>, UNCHANGED <<doc, wire, direct, gui, asked>>
  PROVE  SaysLittle(s)' /\ Once(s, "inbox")'
  <1>1. at = "item" /\ gui[s].waits = "page" /\ gui[s].on = k
    BY DEF Once, Held
  <1>2. /\ at # "wire" /\ at # "direct" /\ at # "inbox" /\ gui[s].waits # "no"
        /\ gui'[s] = gui[s] /\ asked'[s] = asked[s]
    BY <1>1
  <1>3. Queued(s, "inbox")' /\ UnderWay(s, "inbox")'
    <2>1. \A e \in direct' : e.msg.from = s => e \in direct
      OBVIOUS
    <2>2. \A m \in wire' : m.from = s => m \in wire
      OBVIOUS
    <2> QED BY <1>2, <2>1, <2>2, NotQueued, NotUnderWay
  <1>4. Held(s, "inbox")'
    <2>1. \A q \in Keys : q # k => ~IsKept(s, q) /\ ~PollsFor(s, q)
      BY <1>1 DEF Once, Held
    <2>2. \A q \in Keys : ~IsKept(s, q)' /\ ~PollsFor(s, q)'
      BY <2>1 DEF IsKept, PollsFor, IsNow
    <2> QED BY <2>2 DEF Held
  <1>5. Arrived(s, "inbox")'
    BY <1>1, <1>2, Delivered
  <1>6. Waits(s, "inbox")'
    BY <1>2 DEF Once, Waits
  <1>7. SaysLittle(s)'
    <2>1. gui[s].sid \in Nat /\ Nobody.sid = 0 /\ Nobody.mode = "none"
      BY OnceTypes
    <2> QED BY <2>1 DEF SaysLittle
  <1> QED BY <1>3, <1>4, <1>5, <1>6, <1>7 DEF Once

\* What the end of a poll leaves of a page without JavaScript.
LEMMA OncePolled ==
  ASSUME TypeInv, NEW s \in Sessions, SaysLittle(s), NEW k \in Keys, NEW v \in Version,
         NEW i, i = Rebound(Unsubscribed(item[k])), NEW n, n = Polled(i, v)
  PROVE  /\ i.old[s] = Nobody /\ (i.new[s] = Nobody \/ i.new[s] = item[k].new[s])
         /\ n.old[s] = Nobody /\ n.chg[s] = <<>>
         /\ i.new[s].mode = "single" => n.new[s].mode = "next" /\ n.new[s].sid = i.new[s].sid
         /\ i.new[s].mode # "single" => n.new[s] = Nobody
  <1>1. PICK o : o = item[k] /\ o \in Item
    BY OnceTypes
  <1>2. o.old[s] = Nobody /\ o.chg[s] = <<>> /\ o.new[s].mode # "subscribe" /\ Nobody.mode = "none"
    BY <1>1, OnceTypes DEF SaysLittle
  <1>3. PICK x : x = NoItem /\ x.unsub[s] = 0 /\ x.chg[s] = <<>>
    BY EmptyStart
  <1>4. PICK j : j = Unsubscribed(o) /\ j \in Item
    BY <1>1, ItemSteps
  <1>5. (j.new[s] = Nobody \/ j.new[s] = o.new[s]) /\ j.old[s] = Nobody /\ j.chg[s] = <<>>
    <2>1. PICK jn, jo : /\ jn = [q \in Sessions |-> IF o.unsub[q] > 0 THEN Nobody ELSE o.new[q]]
                        /\ jo = [q \in Sessions |->
                                   IF o.unsub[q] > (IF o.new[q] = Nobody THEN 0 ELSE 1)
                                   THEN Nobody ELSE o.old[q]]
      OBVIOUS
    <2>2. j = [o EXCEPT !.new = jn, !.old = jo, !.unsub = x.unsub]
      BY <1>3, <1>4, <2>1 DEF Unsubscribed
    <2>3. j.new = jn /\ j.old = jo /\ j.chg = o.chg
      BY <1>1, <2>2 DEF Item
    <2> QED BY <1>2, <2>1, <2>3
  <1>6. i.new[s] = j.new[s] /\ i.old[s] = Nobody /\ i.chg[s] = <<>> /\ i \in Item
    <2>1. PICK jn, jo :
            /\ jn = [q \in Sessions |->
                       IF j.chg[q] # <<>> /\ (j.new[q] # Nobody \/ j.old[q] # Nobody)
                       THEN [mode |-> "subscribe", sid |-> Head(j.chg[q])] ELSE j.new[q]]
            /\ jo = [q \in Sessions |->
                       IF (j.chg[q] # <<>> /\ (j.new[q] # Nobody \/ j.old[q] # Nobody))
                          /\ j.new[q] = Nobody
                       THEN Nobody ELSE j.old[q]]
      OBVIOUS
    <2>2. i = [j EXCEPT !.new = jn, !.old = jo, !.chg = x.chg]
      BY <1>1, <1>3, <1>4, <2>1, Zenon DEF Rebound
    <2>3. i.new = jn /\ i.old = jo /\ i.chg = x.chg
      BY <1>4, <2>2 DEF Item
    <2>4. i \in Item
      BY <1>1, <1>4, ItemSteps
    <2> QED BY <1>3, <1>5, <2>1, <2>3, <2>4
  <1>7. /\ n.old[s] = Nobody /\ n.chg[s] = <<>>
        /\ n.new[s] = IF i.new[s].mode = "single" THEN [i.new[s] EXCEPT !.mode = "next"] ELSE Nobody
    <2>1. PICK an, ao :
            /\ an = [q \in Sessions |-> IF i.new[q].mode = "single"
                                        THEN [i.new[q] EXCEPT !.mode = "next"] ELSE Nobody]
            /\ ao = [q \in Sessions |-> IF i.new[q].mode = "subscribe" THEN i.new[q] ELSE i.old[q]]
      OBVIOUS
    <2>2. PICK a : a = [i EXCEPT !.new = an, !.old = ao]
      OBVIOUS
    <2>3. a.new = an /\ a.old = ao /\ a.chg = i.chg /\ DOMAIN a = DOMAIN i
      BY <1>6, <2>2 DEF Item
    <2>4. n = [a EXCEPT !.fetching = FALSE, !.cas = v, !.timer = TRUE]
      BY <2>1, <2>2 DEF Polled, Aged
    <2>5. n.new = a.new /\ n.old = a.old /\ n.chg = a.chg
      BY <1>6, <2>3, <2>4 DEF Item
    <2>6. i.new[s].mode # "subscribe"
      BY <1>2, <1>5, <1>6
    <2> QED BY <1>6, <2>1, <2>3, <2>5, <2>6
  <1>8. \A r \in Request : [r EXCEPT !.mode = "next"].mode = "next" /\ [r EXCEPT !.mode = "next"].sid = r.sid
    BY DEF Request
  <1>9. i.new[s] \in Request
    BY <1>6 DEF Item
  <1>10. CASE i.new[s].mode = "single"
    <2>1. PICK r : r = i.new[s]
      OBVIOUS
    <2>2. r \in Request /\ n.new[s] = [r EXCEPT !.mode = "next"]
      BY <1>7, <1>9, <1>10, <2>1
    <2>3. n.new[s].mode = "next" /\ n.new[s].sid = r.sid
      BY <1>8, <2>2
    <2> QED BY <1>1, <1>5, <1>6, <1>7, <1>10, <2>1, <2>3
  <1>11. CASE i.new[s].mode # "single"
    <2>1. n.new[s] = Nobody
      BY <1>7, <1>11
    <2> QED BY <1>1, <1>5, <1>6, <1>7, <1>11, <2>1
  <1> QED BY <1>10, <1>11

\* A step of a poll that tells the session nothing.
LEMMA PollKeeps ==
  ASSUME CountInv, NEW s \in Sessions, NEW at \in {"none", "wire", "direct", "item", "inbox"},
         Once(s, at), SaysLittle(s), NEW k \in Keys,
         UNCHANGED <<doc, direct, wire, gui, asked>>, inbox'[s] = inbox[s], KeptStill(s, k),
         \A q \in Keys : q # k => item'[q] = item[q] /\ poll'[q] = poll[q]
  PROVE  OnceIn(s)'
  <1>1. TypeInv /\ \A q \in Keys : doc'[q] \in Nat /\ doc[q] <= doc'[q]
    BY Parts DEF CountInv
  <1>2. \A q \in Keys : KeptStill(s, q)
    <2> SUFFICES ASSUME NEW q \in Keys, q # k PROVE KeptStill(s, q)
      OBVIOUS
    <2>1. item'[q] = item[q] /\ poll'[q] = poll[q]
      OBVIOUS
    <2> QED BY <1>1, <2>1, NothingKept
  <1>3. /\ gui'[s] = gui[s] /\ asked'[s] = asked[s]
        /\ \A m \in wire' : m.from = s => m \in wire
        /\ \A e \in direct' : e.msg.from = s /\ e.msg.sid = gui[s].sid => e \in direct
    OBVIOUS
  <1>4. Once(s, at)' /\ SaysLittle(s)'
    BY <1>1, <1>2, <1>3, OnceStill
  <1> QED BY <1>4 DEF OnceIn

LEMMA OncePoll ==
  ASSUME CountInv, OnceInv, NEW k \in Keys, PollStep(k)
  PROVE  OnceInv'
  <1>1. /\ TypeInv /\ TypeOK /\ PollsOK /\ item \in [Keys -> Item] /\ poll \in [Keys -> Poll]
        /\ inbox \in [Sessions -> Seq(Post)]
    BY Parts DEF CountInv, TypeOK
  <1>2. PICK i, p : i = item[k] /\ p = poll[k] /\ i \in Item /\ p \in Poll
    BY <1>1
  <1>3. UNCHANGED <<doc, direct, gui, wire, asked>>
    BY Zenon DEF PollStep, AnswerPoll, PollFound, PollNotFound, PollError, backoffPoll, retryPoll,
                 PollingTimeout, hist
  <1>4. \A q \in Keys : q # k => item'[q] = item[q] /\ poll'[q] = poll[q]
    BY PollTells
  <1>5. SUFFICES ASSUME NEW s \in Sessions \ Js PROVE OnceIn(s)'
    BY DEF OnceInv
  <1>6. PICK at \in {"none", "wire", "direct", "item", "inbox"} : Once(s, at)
    BY DEF OnceInv, OnceIn
  <1>7. SaysLittle(s) /\ i.old[s] = Nobody /\ i.chg[s] = <<>> /\ i.new[s].mode # "subscribe"
    BY <1>2 DEF OnceInv, OnceIn, SaysLittle
  <1>8. ASSUME inbox'[s] = inbox[s], KeptStill(s, k) PROVE OnceIn(s)'
    BY <1>3, <1>4, <1>6, <1>7, <1>8, PollKeeps
  <1>9. \A j : item' = [item EXCEPT ![k] = j] => item'[k] = j
    BY <1>1
  <1>10. \A c : poll' = [poll EXCEPT ![k] = c] => poll'[k] = c
    BY <1>1
  <1>11. i.new \in [Sessions -> Request] /\ i.old \in [Sessions -> Request]
    BY <1>2 DEF Item
  <1>12. CASE AnswerPoll(k) \/ backoffPoll(k) \/ retryPoll(k)
    <2>1. PICK a, b, c : /\ a = [p EXCEPT !.phase = "answered", !.cas = doc[k]]
                         /\ b = [p EXCEPT !.phase = "backoff"] /\ c = [p EXCEPT !.phase = "sent"]
      OBVIOUS
    <2>2. /\ a.phase = "answered" /\ a.cas = doc[k] /\ a.by = p.by /\ a.sid = p.sid
          /\ b.phase = "backoff" /\ b.by = p.by /\ b.sid = p.sid
          /\ c.phase = "sent" /\ c.by = p.by /\ c.sid = p.sid
      BY <1>2, <2>1 DEF Poll
    <2>3. /\ item' = item /\ inbox' = inbox /\ p.phase # "none"
          /\ \/ poll' = [poll EXCEPT ![k] = a] \/ poll' = [poll EXCEPT ![k] = b]
             \/ poll' = [poll EXCEPT ![k] = c]
      BY <1>1, <1>2, <1>12, <2>1 DEF AnswerPoll, backoffPoll, retryPoll, Poll
    <2>4. poll'[k] \in {a, b, c}
      BY <1>10, <2>3
    <2>5. /\ poll'[k].by = p.by /\ poll'[k].sid = p.sid
          /\ poll'[k].phase = "answered" => poll'[k].cas = doc[k]
      BY <2>2, <2>4
    <2>6. KeptStill(s, k)
      BY <1>2, <1>7, <2>3, <2>5 DEF KeptStill
    <2> QED BY <1>8, <2>3, <2>6
  <1>13. CASE PollError(k)
    <2>1. PICK j : j = [i EXCEPT !.timer = TRUE]
      OBVIOUS
    <2>2. j.new = i.new /\ j.old = i.old /\ j.chg = i.chg
      BY <1>2, <2>1 DEF Item
    <2>3. item' = [item EXCEPT ![k] = j] /\ poll' = [poll EXCEPT ![k] = NoPoll] /\ inbox' = inbox
      BY <1>1, <1>2, <1>13, <2>1 DEF PollError, Item
    <2>4. item'[k] = j /\ poll'[k].phase = "none"
      BY <1>9, <1>10, <2>3, EmptyStart
    <2>5. KeptStill(s, k)
      BY <1>2, <1>7, <2>2, <2>4 DEF KeptStill
    <2> QED BY <1>8, <2>3, <2>5
  <1>14. CASE PollingTimeout(k)
    <2>1. PICK subs : subs = IF \E q \in Sessions : i.old[q] # Nobody THEN i.old ELSE i.new
      OBVIOUS
    <2>2. \/ /\ item' = [item EXCEPT ![k].fetching = TRUE, ![k].timer = FALSE]
             /\ \E q \in Sessions : /\ subs[q] # Nobody
                                    /\ poll' = [poll EXCEPT ![k] =
                                         [NoPoll EXCEPT !.phase = "sent", !.by = q, !.sid = subs[q].sid]]
          \/ item' = [item EXCEPT ![k] = NoItem] /\ poll' = poll
      BY <1>2, <1>14, <2>1, Zenon DEF PollingTimeout
    <2>3. inbox'[s] = inbox[s]
      BY <1>14, Zenon DEF PollingTimeout
    <2>4. CASE /\ item' = [item EXCEPT ![k].fetching = TRUE, ![k].timer = FALSE]
               /\ \E q \in Sessions : /\ subs[q] # Nobody
                                      /\ poll' = [poll EXCEPT ![k] =
                                           [NoPoll EXCEPT !.phase = "sent", !.by = q, !.sid = subs[q].sid]]
      <3>1. PICK q \in Sessions :
              /\ subs[q] # Nobody
              /\ poll' = [poll EXCEPT ![k] =
                            [NoPoll EXCEPT !.phase = "sent", !.by = q, !.sid = subs[q].sid]]
        BY <2>4, Zenon
      <3>2. PICK c : c = [NoPoll EXCEPT !.phase = "sent", !.by = q, !.sid = subs[q].sid]
        OBVIOUS
      <3>3. c.phase = "sent" /\ c.by = q /\ c.sid = subs[q].sid
        BY <3>2, EmptyStart DEF Poll
      <3>4. PICK j : j = [i EXCEPT !.fetching = TRUE, !.timer = FALSE]
        OBVIOUS
      <3>5. j.new = i.new /\ j.old = i.old /\ j.chg = i.chg
        BY <1>2, <3>4 DEF Item
      <3>6. item' = [item EXCEPT ![k] = j]
        BY <1>1, <1>2, <2>4, <3>4 DEF Item
      <3>7. item'[k] = j /\ poll'[k] = c
        BY <1>9, <1>10, <3>1, <3>2, <3>6
      <3>8. q = s => i.new[s] # Nobody /\ c.sid = i.new[s].sid
        BY <1>7, <2>1, <3>1, <3>3
      <3>9. KeptStill(s, k)
        BY <1>2, <1>7, <3>3, <3>5, <3>7, <3>8 DEF KeptStill
      <3> QED BY <1>8, <2>3, <3>9
    <2>5. CASE item' = [item EXCEPT ![k] = NoItem] /\ poll' = poll
      <3>1. PICK n : n = NoItem /\ n.new[s] = Nobody /\ n.old[s] = Nobody /\ n.chg[s] = <<>>
        BY EmptyStart
      <3>2. item'[k] = n
        BY <1>9, <2>5, <3>1
      <3>3. KeptStill(s, k)
        BY <1>2, <2>5, <3>1, <3>2 DEF KeptStill
      <3> QED BY <1>8, <2>3, <3>3
    <2> QED BY <2>2, <2>4, <2>5, Zenon
  <1>15. CASE PollNotFound(k)
    <2>1. PICK u : u = [i.new EXCEPT ![p.by] = Nobody]
      OBVIOUS
    <2>2. PICK j : j = [i EXCEPT !.new = u]
      OBVIOUS
    <2>3. j.new = u /\ j.old = i.old /\ j.chg = i.chg
      BY <1>2, <2>2 DEF Item
    <2>4. /\ item' = [item EXCEPT ![k] = j] /\ poll' = [poll EXCEPT ![k] = NoPoll]
          /\ inbox' = [inbox EXCEPT ![p.by] = @ \o Post1(p.by, p.sid, Page(k, 0))]
          /\ p.phase = "answered"
      BY <1>1, <1>2, <1>15, <2>1, <2>2 DEF PollNotFound, Item
    <2>5. p.by \in Sessions
      BY <1>1, <1>2, <2>4 DEF PollsOK
    <2>6. item'[k] = j /\ poll'[k].phase = "none"
      BY <1>9, <1>10, <2>4, EmptyStart
    <2>7. u[s] = IF s = p.by THEN Nobody ELSE i.new[s]
      BY <1>11, <2>1, <2>5
    <2>8. KeptStill(s, k)
      BY <1>2, <1>7, <2>3, <2>6, <2>7 DEF KeptStill
    <2>9. PICK x : x = Page(k, 0)
      OBVIOUS
    <2>10. x.to = "page" /\ x.what = Blank
      BY <2>9 DEF Page
    <2>11. CASE s = p.by /\ p.sid = gui[s].sid
      <3>1. inbox'[s] = inbox[s] \o <<x>>
        <4>1. Post1(p.by, p.sid, x) = <<x>>
          BY <2>11 DEF Post1
        <4> QED BY <1>1, <2>4, <2>9, <2>11, <4>1
      <3>2. PollsFor(s, k)
        BY <1>2, <2>4, <2>11 DEF PollsFor, IsNow
      <3>3. item'[k].new[s] = Nobody /\ item'[k].old[s] = Nobody /\ item'[k].chg[s] = <<>>
        BY <1>7, <2>3, <2>6, <2>7, <2>11
      <3>4. x.what # Blank => x.what.key = k /\ asked[s] <= x.what.cas
        BY <2>10
      <3>5. SaysLittle(s)' /\ Once(s, "inbox")'
        BY <1>1, <1>3, <1>4, <1>6, <1>7, <2>6, <2>10, <3>1, <3>2, <3>3, <3>4, OnceTold
      <3> QED BY <3>5 DEF OnceIn
    <2>12. CASE s # p.by \/ p.sid # gui[s].sid
      <3>1. inbox'[s] = inbox[s]
        <4>1. CASE s # p.by
          BY <1>1, <2>4, <2>5, <4>1
        <4>2. CASE s = p.by /\ p.sid # gui[s].sid
          <5>1. Post1(p.by, p.sid, x) = <<>>
            BY <4>2 DEF Post1
          <5>2. inbox'[s] = inbox[s] \o <<>> /\ inbox[s] \in Seq(Post)
            BY <1>1, <2>4, <2>9, <4>2, <5>1
          <5> QED BY <5>2
        <4> QED BY <2>12, <4>1, <4>2
      <3> QED BY <1>8, <2>8, <3>1
    <2> QED BY <2>11, <2>12
  <1>16. CASE PollFound(k)
    <2>1. PICK v, r, n : v = p.cas /\ r = Rebound(Unsubscribed(i)) /\ n = Polled(r, v)
      OBVIOUS
    <2>2. /\ p.phase = "answered" /\ v > 0 /\ inbox' = Told(k, r, v)
          /\ item' = [item EXCEPT ![k] = n] /\ poll' = [poll EXCEPT ![k] = NoPoll]
      BY <1>2, <1>16, <2>1, Zenon DEF PollFound
    <2>3. v \in Version /\ v \in Nat
      BY <1>2, <2>1, Bounds DEF Poll
    <2>4. /\ r.old[s] = Nobody /\ (r.new[s] = Nobody \/ r.new[s] = i.new[s])
          /\ n.old[s] = Nobody /\ n.chg[s] = <<>>
          /\ r.new[s].mode = "single" => n.new[s].mode = "next" /\ n.new[s].sid = r.new[s].sid
          /\ r.new[s].mode # "single" => n.new[s] = Nobody
      BY <1>1, <1>2, <1>7, <2>1, <2>3, OncePolled
    <2>5. item'[k] = n /\ poll'[k].phase = "none"
      BY <1>9, <1>10, <2>2, EmptyStart
    <2>6. Nobody.mode = "none" /\ r.new[s].mode # "subscribe"
      BY <1>7, <2>4, EmptyStart
    <2>7. KeptStill(s, k)
      BY <1>2, <2>4, <2>5, <2>6 DEF KeptStill
    <2>8. PICK x : x = Page(k, v)
      OBVIOUS
    <2>9. x.to = "page" /\ x.what = [key |-> k, cas |-> v]
      BY <2>2, <2>3, <2>8 DEF Page
    <2>10. inbox'[s] = inbox[s] \o (IF r.new[s].mode = "next" THEN Post1(s, r.new[s].sid, x) ELSE <<>>)
      <3>1. inbox'[s] = inbox[s]
                        \o (IF r.new[s].mode \in {"subscribe", "next"}
                            THEN Post1(s, r.new[s].sid, x) ELSE <<>>)
                        \o <<>>
        BY <2>2, <2>4, <2>8 DEF Told
      <3>2. PICK b, a : b = inbox[s] /\ a = IF r.new[s].mode = "next" THEN Post1(s, r.new[s].sid, x) ELSE <<>>
        OBVIOUS
      <3>3. inbox'[s] = b \o a \o <<>>
        BY <2>6, <3>1, <3>2
      <3>4. b \in Seq(Post) /\ (a = <<>> \/ a = <<x>>)
        BY <1>1, <3>2 DEF Post1
      <3>5. x \in Post
        BY <2>3, <2>8, Posts
      <3>6. b \o a \in Seq(Post)
        <4>1. a \in Seq(Post)
          <5>1. CASE a = <<>>
            BY <5>1
          <5>2. CASE a = <<x>>
            BY <3>5, <5>2
          <5> QED BY <3>4, <5>1, <5>2
        <4> QED BY <3>4, <4>1
      <3>7. b \o a \o <<>> = b \o a
        BY <3>6
      <3> QED BY <3>2, <3>3, <3>7
    <2>11. CASE r.new[s].mode = "next" /\ r.new[s].sid = gui[s].sid
      <3>1. inbox'[s] = inbox[s] \o <<x>>
        <4>1. Post1(s, r.new[s].sid, x) = <<x>>
          BY <2>11 DEF Post1
        <4> QED BY <2>10, <2>11, <4>1
      <3>2. r.new[s] = i.new[s] /\ i.new[s] # Nobody
        BY <2>4, <2>6, <2>11
      <3>3. IsKept(s, k) /\ item[k].new[s].mode = "next" /\ poll[k].phase = "answered"
        BY <1>2, <2>2, <2>11, <3>2 DEF IsKept, IsNow
      <3>4. asked[s] <= v
        BY <1>2, <1>6, <2>1, <3>3 DEF Once, Held
      <3>5. x.what # Blank => x.what.key = k /\ asked[s] <= x.what.cas
        BY <2>9, <3>4
      <3>6. item'[k].new[s] = Nobody /\ item'[k].old[s] = Nobody /\ item'[k].chg[s] = <<>>
        BY <2>4, <2>5, <2>11
      <3>7. SaysLittle(s)' /\ Once(s, "inbox")'
        BY <1>1, <1>3, <1>4, <1>6, <1>7, <2>5, <2>9, <3>1, <3>3, <3>5, <3>6, OnceTold
      <3> QED BY <3>7 DEF OnceIn
    <2>12. CASE r.new[s].mode # "next" \/ r.new[s].sid # gui[s].sid
      <3>1. inbox'[s] = inbox[s] \o <<>>
        BY <2>10, <2>12 DEF Post1
      <3>2. inbox[s] \o <<>> = inbox[s]
        BY <1>1
      <3> QED BY <1>8, <2>7, <3>1, <3>2
    <2> QED BY <2>11, <2>12
  <1> QED BY <1>12, <1>13, <1>14, <1>15, <1>16 DEF PollStep

\* What is under way is answered, or tried again.
LEMMA OnceAnswered ==
  ASSUME TypeInv, TypeInv', NEW s \in Sessions, NEW at, Once(s, at), SaysLittle(s),
         NEW d \in direct, d.msg.from = s, d.msg.sid = gui[s].sid,
         NEW e, e.msg = d.msg, e.phase = "answered" => e.cas = doc'[d.msg.key],
         direct' = (direct \ {d}) \cup {e}, \A k \in Keys : doc[k] <= doc'[k],
         UNCHANGED <<item, poll, wire, gui, inbox, asked>>
  PROVE  SaysLittle(s)' /\ Once(s, "direct")'
  <1>1. PICK m : m = d.msg
    OBVIOUS
  <1>2. /\ at = "direct" /\ m.n = gui[s].sent
        /\ \/ m.mode = "single" /\ gui[s].waits = "page" /\ gui[s].on = m.key
           \/ m.mode = "store" /\ gui[s].waits = "store"
    BY <1>1 DEF Once, UnderWay, IsNow
  <1>3. /\ at # "wire" /\ at # "item" /\ at # "inbox" /\ gui[s].waits # "no"
        /\ gui'[s] = gui[s] /\ asked'[s] = asked[s] /\ item' = item /\ poll' = poll
    BY <1>2
  <1>4. \A k \in Keys : doc'[k] \in Nat /\ doc[k] \in Nat /\ doc[k] <= doc'[k]
    BY Parts, Bounds DEF TypeInv, TypeOK
  <1>5. Waits(s, "direct")'
    BY <1>3, <1>4, WaitsStill DEF Once
  <1>6. UnderWay(s, "direct")'
    <2>1. \A x \in direct : x.msg.from = s /\ IsNow(s, x.msg.sid) =>
            /\ x.msg.n = gui[s].sent
            /\ \/ /\ x.msg.mode = "single" /\ gui[s].waits = "page" /\ gui[s].on = x.msg.key
                  /\ x.phase = "answered" => asked[s] <= x.cas
               \/ x.msg.mode = "store" /\ gui[s].waits = "store"
      BY DEF Once, UnderWay
    <2>2. gui[s].waits = "page" /\ e.phase = "answered" /\ gui[s].on = m.key => asked[s] <= e.cas
      BY <1>1, <1>3, <1>5 DEF Waits
    <2> QED BY <1>1, <1>2, <1>3, <2>1, <2>2 DEF UnderWay, IsNow
  <1>7. Queued(s, "direct")' /\ Held(s, "direct")' /\ Arrived(s, "direct")'
    <2>1. \A w \in wire' : w.from = s => w \in wire
      OBVIOUS
    <2> QED BY <1>3, <2>1, NotQueued, NotHeld, NotArrived
  <1>8. SaysLittle(s)'
    BY DEF SaysLittle
  <1> QED BY <1>5, <1>6, <1>7, <1>8 DEF Once

\* The session is answered.
LEMMA OnceBack ==
  ASSUME TypeInv, NEW s \in Sessions, NEW at, Once(s, at), SaysLittle(s),
         NEW d \in direct, d.msg.from = s, d.msg.sid = gui[s].sid, direct' = direct \ {d},
         NEW p, inbox'[s] = inbox[s] \o <<p>>,
         \/ d.msg.mode = "store" /\ p = Stored
         \/ d.msg.mode # "store" /\ p = Page(d.msg.key, 0)
         \/ d.msg.mode # "store" /\ p = Page(d.msg.key, d.cas) /\ d.phase = "answered",
         UNCHANGED <<doc, item, poll, wire, gui, asked>>
  PROVE  SaysLittle(s)' /\ Once(s, "inbox")'
  <1>1. PICK m : m = d.msg
    OBVIOUS
  <1>2. /\ at = "direct" /\ m.n = gui[s].sent
        /\ \/ /\ m.mode = "single" /\ gui[s].waits = "page" /\ gui[s].on = m.key
              /\ d.phase = "answered" => asked[s] <= d.cas
           \/ m.mode = "store" /\ gui[s].waits = "store"
    BY <1>1 DEF Once, UnderWay, IsNow
  <1>3. /\ at # "wire" /\ at # "item" /\ at # "inbox" /\ gui[s].waits # "no"
        /\ gui'[s] = gui[s] /\ asked'[s] = asked[s] /\ item' = item /\ poll' = poll
    BY <1>2
  <1>4. \/ /\ p.to = "page" /\ gui[s].waits = "page"
           /\ p.what # Blank => p.what.key = gui[s].on /\ asked[s] <= p.what.cas
        \/ p.to = "store" /\ p.what = Blank /\ gui[s].waits = "store"
    <2>1. CASE m.mode = "store" /\ p = Stored
      BY <1>2, <2>1 DEF Stored
    <2>2. CASE m.mode # "store" /\ p = Page(m.key, 0)
      BY <1>2, <2>2 DEF Page
    <2>3. CASE m.mode # "store" /\ p = Page(m.key, d.cas) /\ d.phase = "answered"
      BY <1>2, <2>3 DEF Page
    <2> QED BY <1>1, <2>1, <2>2, <2>3
  <1>5. Arrived(s, "inbox")'
    BY <1>3, <1>4, Delivered
  <1>6. UnderWay(s, "inbox")'
    <2>1. \A x \in direct : x.msg.from = s /\ x.msg.sid = gui[s].sid => x.msg.n = gui[s].sent
      BY DEF Once, UnderWay, IsNow
    <2>2. \A x \in direct : x.msg.from = s /\ x.msg.sid = gui[s].sid => x = d
      BY <1>1, <1>2, <2>1, Parts DEF MessagesOK, Id
    <2> QED BY <2>2 DEF UnderWay, IsNow
  <1>7. Queued(s, "inbox")' /\ Held(s, "inbox")'
    <2>1. \A w \in wire' : w.from = s => w \in wire
      OBVIOUS
    <2> QED BY <1>3, <2>1, NotQueued, NotHeld
  <1>8. Waits(s, "inbox")'
    BY <1>3 DEF Once, Waits
  <1>9. SaysLittle(s)'
    BY DEF SaysLittle
  <1> QED BY <1>5, <1>6, <1>7, <1>8, <1>9 DEF Once

LEMMA OnceDirect ==
  ASSUME TypeInv, TypeInv', OnceInv, NEW d \in direct, DirectStep(d)
  PROVE  OnceInv'
  <1>1. PICK m : m = d.msg /\ m \in Message /\ d \in Direct
    BY Parts, TypeParts
  <1>2. /\ m.from \in Sessions /\ m.key \in Keys /\ inbox \in [Sessions -> Seq(Post)]
        /\ UNCHANGED <<item, poll, gui, wire>> /\ \A k \in Keys : doc[k] <= doc'[k] /\ doc'[k] \in Nat
    <2>1. UNCHANGED <<item, poll, gui, wire>> /\ \A k \in Keys : doc[k] <= doc'[k]
      BY DirectTells
    <2>2. \A k \in Keys : doc'[k] \in Nat
      BY Bounds DEF TypeInv, TypeOK
    <2> QED BY <1>1, <2>1, <2>2, Parts DEF Message, TypeOK
  <1>3. asked' = asked
    BY DEF DirectStep, AnswerDirect, DirectAnswered, DirectError, backoffDirect, retryDirect, hist
  <1>4. SUFFICES ASSUME NEW s \in Sessions \ Js PROVE OnceIn(s)'
    BY DEF OnceInv
  <1>5. PICK at \in {"none", "wire", "direct", "item", "inbox"} : Once(s, at)
    BY DEF OnceInv, OnceIn
  <1>6. SaysLittle(s)
    BY DEF OnceInv, OnceIn
  <1>7. ASSUME inbox'[s] = inbox[s],
               \A e \in direct' : e.msg.from = s /\ e.msg.sid = gui[s].sid => e \in direct
        PROVE  OnceIn(s)'
    <2>1. \A k \in Keys : KeptStill(s, k)
      BY <1>2, <1>6, NothingKept
    <2>2. /\ gui'[s] = gui[s] /\ asked'[s] = asked[s]
          /\ \A w \in wire' : w.from = s => w \in wire
      BY <1>2, <1>3
    <2>3. Once(s, at)' /\ SaysLittle(s)'
      BY <1>2, <1>5, <1>6, <1>7, <2>1, <2>2, OnceStill
    <2> QED BY <2>3 DEF OnceIn
  <1>8. CASE AnswerDirect(d) \/ backoffDirect(d) \/ retryDirect(d)
    <2>1. PICK a, b, c : /\ a = [d EXCEPT !.phase = "answered", !.cas = doc'[m.key]]
                         /\ b = [d EXCEPT !.phase = "backoff"] /\ c = [d EXCEPT !.phase = "sent"]
      OBVIOUS
    <2>2. /\ a.msg = m /\ a.cas = doc'[m.key]
          /\ b.msg = m /\ b.phase = "backoff" /\ c.msg = m /\ c.phase = "sent"
      BY <1>1, <2>1 DEF Direct
    <2>3. /\ inbox' = inbox
          /\ \/ direct' = (direct \ {d}) \cup {a} \/ direct' = (direct \ {d}) \cup {b}
             \/ direct' = (direct \ {d}) \cup {c}
      BY <1>1, <1>8, <2>1 DEF AnswerDirect, backoffDirect, retryDirect
    <2>4. PICK e \in {a, b, c} : direct' = (direct \ {d}) \cup {e}
      BY <2>3
    <2>5. e.msg = m /\ (e.phase = "answered" => e.cas = doc'[m.key])
      BY <2>2, <2>4
    <2>6. CASE m.from = s /\ m.sid = gui[s].sid
      <3>1. UNCHANGED <<item, poll, wire, gui, inbox, asked>>
        BY <1>2, <1>3, <2>3
      <3>2. SaysLittle(s)' /\ Once(s, "direct")'
        BY <1>1, <1>2, <1>5, <1>6, <2>4, <2>5, <2>6, <3>1, OnceAnswered
      <3> QED BY <3>2 DEF OnceIn
    <2>7. CASE ~(m.from = s /\ m.sid = gui[s].sid)
      BY <1>7, <2>3, <2>4, <2>5, <2>7
    <2> QED BY <2>6, <2>7
  <1>9. CASE DirectAnswered(d) \/ DirectError(d)
    <2>1. PICK x : /\ \/ m.mode = "store" /\ x = Stored
                      \/ m.mode # "store" /\ x = Page(m.key, 0)
                      \/ m.mode # "store" /\ x = Page(m.key, d.cas) /\ d.phase = "answered"
                   /\ inbox' = [inbox EXCEPT ![m.from] = @ \o Post1(m.from, m.sid, x)]
      BY <1>1, <1>9 DEF DirectAnswered, DirectError
    <2>2. direct' = direct \ {d} /\ doc' = doc
      BY <1>9 DEF DirectAnswered, DirectError
    <2>3. CASE m.from = s /\ m.sid = gui[s].sid
      <3>1. inbox'[s] = inbox[s] \o <<x>>
        <4>1. Post1(m.from, m.sid, x) = <<x>>
          BY <2>3 DEF Post1
        <4> QED BY <1>2, <2>1, <2>3, <4>1
      <3>2. UNCHANGED <<doc, item, poll, wire, gui, asked>>
        BY <1>2, <1>3, <2>2
      <3>3. SaysLittle(s)' /\ Once(s, "inbox")'
        BY <1>1, <1>5, <1>6, <2>1, <2>2, <2>3, <3>1, <3>2, OnceBack
      <3> QED BY <3>3 DEF OnceIn
    <2>4. CASE ~(m.from = s /\ m.sid = gui[s].sid)
      <3>1. inbox'[s] = inbox[s]
        <4>1. CASE m.from # s
          BY <1>2, <2>1, <4>1
        <4>2. CASE m.from = s /\ m.sid # gui[s].sid
          <5>1. Post1(m.from, m.sid, x) = <<>>
            BY <4>2 DEF Post1
          <5>2. inbox'[s] = inbox[s] \o <<>> /\ inbox[s] \in Seq(Post)
            BY <1>2, <2>1, <4>2, <5>1
          <5> QED BY <5>2
        <4> QED BY <2>4, <4>1, <4>2
      <3> QED BY <1>7, <2>2, <3>1
    <2> QED BY <2>3, <2>4
  <1> QED BY <1>8, <1>9 DEF DirectStep

LEMMA OnceOther ==
  ASSUME TypeInv, OnceInv, UNCHANGED <<item, poll, direct, wire, gui, inbox, asked>>,
         \A k \in Keys : doc[k] <= doc'[k] /\ doc'[k] \in Nat
  PROVE  OnceInv'
  <1>1. SUFFICES ASSUME NEW s \in Sessions \ Js PROVE OnceIn(s)'
    BY DEF OnceInv
  <1>2. PICK at \in {"none", "wire", "direct", "item", "inbox"} : Once(s, at)
    BY DEF OnceInv, OnceIn
  <1>3. SaysLittle(s)
    BY DEF OnceInv, OnceIn
  <1>4. \A k \in Keys : KeptStill(s, k)
    BY <1>3, NothingKept
  <1>5. /\ gui'[s] = gui[s] /\ asked'[s] = asked[s] /\ inbox'[s] = inbox[s]
        /\ \A w \in wire' : w.from = s => w \in wire
        /\ \A e \in direct' : e.msg.from = s /\ e.msg.sid = gui[s].sid => e \in direct
    OBVIOUS
  <1>6. Once(s, at)' /\ SaysLittle(s)'
    BY <1>2, <1>3, <1>4, <1>5, OnceStill
  <1> QED BY <1>6 DEF OnceIn

-----------------------------------------------------------------------------
(* The invariant, and what follows.                                         *)

FreshInv == CountInv /\ BeliefInv /\ VersionsOK /\ NewsInv /\ OnceInv

LEMMA FreshInit ==
  ASSUME Init
  PROVE  VersionsOK /\ NewsInv /\ OnceInv
  <1>1. /\ item = [k \in Keys |-> NoItem] /\ poll = [k \in Keys |-> NoPoll] /\ direct = {} /\ wire = {}
        /\ gui = [s \in Sessions |-> NewGui] /\ inbox = [s \in Sessions |-> <<>>]
    BY DEF Init
  <1>2. \A k \in Keys : doc[k] \in Nat /\ 0 <= doc[k]
    BY Bounds DEF Init
  <1>3. \A k \in Keys : /\ item[k].cas = 0 /\ poll[k].phase = "none"
                        /\ \A s \in Sessions : /\ item[k].new[s] = Nobody /\ item[k].old[s] = Nobody
                                               /\ item[k].chg[s] = <<>>
    BY <1>1, EmptyStart
  <1>4. \A s \in Sessions : /\ gui[s].shown = Blank /\ gui[s].sid = 0 /\ gui[s].on = NoKey
                            /\ gui[s].waits = "no" /\ inbox[s] = <<>>
    BY <1>1 DEF NewGui
  <1>5. \A s \in Sessions : Seen(s) = {Blank} /\ InOrder(s)
    <2> SUFFICES ASSUME NEW s \in Sessions PROVE Seen(s) = {Blank} /\ InOrder(s)
      OBVIOUS
    <2>1. ~\E i \in 1..Len(inbox[s]) : TRUE
      BY <1>4
    <2> QED BY <1>4, <2>1 DEF Seen, Posted, InOrder
  <1>6. VersionsOK
    BY <1>1, <1>2, <1>3, <1>5, EmptyStart DEF VersionsOK
  <1>7. NewsInv
    BY <1>1, <1>3, <1>5, Bounds DEF NewsInv, ItemsAreNew
  <1>8. ASSUME NEW s \in Sessions PROVE OnceIn(s)
    <2>1. Nobody.sid = 0 /\ Nobody.mode = "none"
      BY DEF Nobody
    <2>2. SaysLittle(s)
      BY <1>1, <1>3, <1>4, <2>1 DEF SaysLittle
    <2>3. Once(s, "none")
      BY <1>1, <1>3, <1>4 DEF Once, Queued, UnderWay, Held, IsKept, PollsFor, Arrived, Waits
    <2> QED BY <2>2, <2>3 DEF OnceIn
  <1> QED BY <1>6, <1>7, <1>8 DEF OnceInv

LEMMA OnceStep ==
  ASSUME CountInv, CountInv', VersionsOK, OnceInv, [Next]_vars
  PROVE  OnceInv'
  <1>1. TypeInv /\ TypeInv'
    BY DEF CountInv
  <1>2. ASSUME NEW s \in Sessions, SessionStep(s) PROVE OnceInv'
    BY <1>1, <1>2, OnceSession
  <1>3. ASSUME NEW m \in wire, Take(m) PROVE OnceInv'
    BY <1>3, OnceTake
  <1>4. ASSUME NEW k \in Keys, PollStep(k) PROVE OnceInv'
    BY <1>4, OncePoll
  <1>5. ASSUME NEW d \in direct, DirectStep(d) PROVE OnceInv'
    BY <1>1, <1>5, OnceDirect
  <1>6. ASSUME \/ \E k \in Keys : OtherStore(k)
               \/ BeginStopping \/ finalCleanupAndJoin \/ UNCHANGED vars
        PROVE  OnceInv'
    <2>1. UNCHANGED <<item, poll, direct, wire, gui, inbox, asked>>
      BY <1>6 DEF OtherStore, BeginStopping, finalCleanupAndJoin, vars, backend, hist
    <2>2. doc' = doc \/ \E k \in Keys : doc' = [doc EXCEPT ![k] = @ + 1]
      BY <1>6 DEF OtherStore, BeginStopping, finalCleanupAndJoin, vars
    <2>3. doc \in [Keys -> Version] /\ \A q \in Keys : doc[q] \in Nat
      BY <1>1, Parts DEF TypeOK
    <2>4. \A q \in Keys : doc[q] <= doc'[q] /\ doc'[q] \in Nat
      BY <2>2, <2>3
    <2> QED BY <1>1, <2>1, <2>4, OnceOther
  <1> QED BY <1>2, <1>3, <1>4, <1>5, <1>6, Zenon DEF Next

\* Whatever is on its way, no copy of a document is newer than the document,
\* a page that runs JavaScript is told its versions in order, and one that does
\* not has one request in one place (NewSubscribers, the hard gets of
\* GetCouchbaseDocumentByKeyBegin, the posts).
THEOREM FreshInvariant == Spec => []FreshInv
  <1>1. Init => BeliefInv /\ VersionsOK /\ NewsInv /\ OnceInv
    BY BeliefInit, FreshInit
  <1>2. CountInv /\ CountInv' /\ FreshInv /\ [Next]_vars => FreshInv'
    BY BeliefStep, VersionsStep, NewsStep, OnceStep DEF FreshInv
  <1>3. Init => FreshInv
    BY <1>1, CountInit DEF FreshInv
  <1> QED BY <1>2, <1>3, CountsInvariant, PTL DEF Spec

\* A page without JavaScript is never given a value older than the document was
\* when it asked, although the poll that was on its way when the backend took its
\* request may have read an older one: a buyer sees his own purchase.
THEOREM PurchasesAreSeen == Spec => []SinglesAreFresh
  <1>1. FreshInv => SinglesAreFresh
    <2> SUFFICES ASSUME FreshInv, NEW s \in Sessions \ Js, NEW n \in 1..Len(inbox[s]),
                        inbox[s][n].what # Blank
                 PROVE  inbox[s][n].what.cas >= asked[s]
      BY DEF SinglesAreFresh
    <2>1. TypeInv /\ OnceIn(s)
      BY DEF FreshInv, CountInv, OnceInv
    <2>2. PICK at : Once(s, at)
      BY <2>1 DEF OnceIn
    <2>3. PICK b : b = inbox[s] /\ b \in Seq(Post)
      BY <2>1, OnceTypes
    <2>4. b # <<>>
      BY <2>3
    <2>5. Len(b) = 1 /\ Head(b).what # Blank => asked[s] <= Head(b).what.cas
      BY <2>2, <2>3, <2>4 DEF Once, Arrived
    <2>6. Len(b) = 1
      BY <2>2, <2>3, <2>4 DEF Once, Arrived
    <2>7. n = 1 /\ b[n] = Head(b)
      BY <2>3, <2>6
    <2>8. b[n].what.cas \in Nat /\ asked[s] \in Nat
      <3>1. b[n] \in Post
        BY <2>3
      <3>2. b[n].what \in Shown
        BY <3>1 DEF Post
      <3> QED BY <2>1, <3>2, OnceTypes, Bounds DEF Shown
    <2> QED BY <2>3, <2>5, <2>6, <2>7, <2>8
  <1> QED BY <1>1, FreshInvariant, PTL

\* The document a page has of a campaign is never replaced by an older version of
\* it, of whatever posts, polls, hard gets and errors it is told, and in whatever
\* order they were taken from the queues.
THEOREM ShownGoesForward == Spec => PagesGoForward
  <1>1. FreshInv /\ [Next]_vars =>
          \A s \in Sessions :
            gui'[s].shown.key = gui[s].shown.key => gui'[s].shown.cas >= gui[s].shown.cas
    <2> SUFFICES ASSUME FreshInv, [Next]_vars, NEW s \in Sessions
                 PROVE  gui'[s].shown.key = gui[s].shown.key => gui'[s].shown.cas >= gui[s].shown.cas
      OBVIOUS
    <2>1. TypeInv /\ TypeOK /\ VersionsOK /\ OnceInv /\ NewsInv /\ CountInv
      BY Parts DEF FreshInv, CountInv
    <2>2. gui[s].shown.cas \in Nat
      BY <2>1, SeenTypes, Bounds DEF Shown
    <2>3. CASE gui'[s].shown = gui[s].shown
      BY <2>2, <2>3
    <2>4. ASSUME NEW p \in Sessions, SessionStep(p)
          PROVE  gui'[s].shown.key = gui[s].shown.key => gui'[s].shown.cas >= gui[s].shown.cas
      <3>1. CASE s \notin Js
        BY <2>1, <2>4, <3>1, OnceSession
      <3>2. CASE s \in Js
        <4>1. InOrder(s)
          BY <2>1, <3>2 DEF NewsInv
        <4>2. gui'[s].shown \in {gui[s].shown, Blank} \cup Posted(s)
          BY <2>1, <2>4, SessionSees DEF Seen
        <4>3. CASE gui'[s].shown = Blank
          BY <2>1, <2>2, <4>3, EmptyStart DEF VersionsOK, Seen
        <4>4. CASE gui'[s].shown \in Posted(s)
          <5>1. PICK w \in Posted(s) : w = gui'[s].shown
            BY <4>4
          <5>2. w.cas \in Nat /\ (w.key = gui[s].shown.key => gui[s].shown.cas <= w.cas)
            BY <2>1, <4>1, SeenTypes DEF InOrder, Seen
          <5> QED BY <2>2, <5>1, <5>2
        <4> QED BY <2>3, <4>2, <4>3, <4>4
      <3> QED BY <3>1, <3>2
    <2>5. CASE \/ \E m \in wire : Take(m)
               \/ \E k \in Keys : PollStep(k) \/ OtherStore(k)
               \/ \E d \in direct : DirectStep(d)
               \/ BeginStopping \/ finalCleanupAndJoin \/ UNCHANGED vars
      <3>1. UNCHANGED gui
        BY <2>5, <2>1, TakeTells, PollTells, DirectTells DEF OtherStore, BeginStopping, finalCleanupAndJoin, vars
      <3> QED BY <2>3, <3>1
    <2> QED BY <2>4, <2>5, Zenon DEF Next
  <1> QED BY <1>1, FreshInvariant, PTL DEF Spec, PagesGoForward
==============================================================================
