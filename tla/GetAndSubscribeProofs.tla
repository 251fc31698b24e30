------------------------ MODULE GetAndSubscribeProofs ------------------------
(***************************************************************************)
(* Theorems about GetAndSubscribe.  A message is known by its session and   *)
(* its number, so that every store and get is counted once on its way from  *)
(* the queues to its answer.  Of what a session says of a campaign, taken   *)
(* in order, the last is what the backend believes.                         *)
(***************************************************************************)
EXTENDS GetAndSubscribe, FiniteSetTheorems, SequenceTheorems, TLAPS

-----------------------------------------------------------------------------
(* Messages and their counts.                                               *)

Id(m) == <<m.from, m.n>>

Known(m) == m.n <= gui[m.from].sent /\ m.sid <= gui[m.from].sid

MessagesOK ==
  /\ IsFiniteSet(wire) /\ IsFiniteSet(direct)
  /\ \A m \in wire : Known(m)
  /\ \A d \in direct : Known(d.msg) /\ d.msg.mode \in {"single", "store"}
  /\ \A m1, m2 \in wire : Id(m1) = Id(m2) => m1 = m2
  /\ \A d1, d2 \in direct : Id(d1.msg) = Id(d2.msg) => d1 = d2
  /\ \A m \in wire, d \in direct : Id(m) # Id(d.msg)

\* What the counts of pending requests are of.
OnItsWay(phase) == phase \in {"sent", "answered"}
Polling         == {k \in Keys : OnItsWay(poll[k].phase)}
Asking(kind)    == {d \in direct : Kind(d.msg) = kind /\ OnItsWay(d.phase)}

CountsOK ==
  /\ IsFiniteSet(Polling)
  /\ pending.get = Cardinality(Polling) + Cardinality(Asking("get"))
  /\ pending.store = Cardinality(Asking("store"))

\* Every store that is still to be made finds a version left.
StoresIn(k)    == {m \in wire : m.mode = "store" /\ m.key = k}
StoresTaken(k) == {d \in direct : d.msg.mode = "store" /\ d.msg.key = k /\ d.phase # "answered"}
RoomOK ==
  \A k \in Keys :
    doc[k] + Cardinality(StoresIn(k)) + Cardinality(StoresTaken(k)) <= MaxVersion

PollsOK ==
  \A k \in Keys : poll[k].phase # "none" => poll[k].by \in Sessions

TypeInv == TypeOK /\ MessagesOK /\ RoomOK /\ PollsOK

\* With what the counts are of, an invariant.
CountInv == TypeInv /\ CountsOK /\ OnePollPerItem

-----------------------------------------------------------------------------
(* What the backend believes of sessions with JavaScript.                   *)

Talk(s, k) == {m \in wire : m.from = s /\ m.key = k /\ m.mode # "store"}
Has(s, k)  == item[k].new[s] # Nobody \/ item[k].old[s] # Nobody
Believed(s, k) == Has(s, k) /\ item[k].unsub[s] = 0
SidOf(s, k) ==
  IF item[k].chg[s] # <<>> THEN Head(item[k].chg[s])
  ELSE IF item[k].new[s] # Nobody THEN item[k].new[s].sid ELSE item[k].old[s].sid

\* m is the first, or the last, of what is said and not yet taken.
First(s, k, m) == m \in Talk(s, k) /\ \A w \in Talk(s, k) : m.n <= w.n
Last(s, k, m)  == m \in Talk(s, k) /\ \A w \in Talk(s, k) : w.n <= m.n
Follows2(s, k, m, w) ==
  /\ m \in Talk(s, k) /\ w \in Talk(s, k) /\ m.n < w.n
  /\ \A x \in Talk(s, k) : x.n <= m.n \/ w.n <= x.n

\* It is subscribed once at most, and what is queued in the item is about that.
OneEntry(s, k) ==
  LET i == item[k] IN
  /\ i.new[s] = Nobody \/ i.old[s] = Nobody
  /\ i.new[s] = Nobody \/ i.new[s].mode = "subscribe"
  /\ i.old[s] = Nobody \/ i.old[s].mode = "subscribe"
  /\ Has(s, k) => i.cached
  /\ i.unsub[s] \in {0, 1} /\ (i.chg[s] = <<>> \/ Len(i.chg[s]) = 1)
  /\ i.unsub[s] # 0 \/ i.chg[s] # <<>> => Has(s, k)

\* Subscriptions and their ends take turns, from what the backend believes to
\* what the page shows.
TalkIsNext(s, k) ==
  /\ \A m \in Talk(s, k) : First(s, k, m) => (m.mode = "subscribe" <=> ~Believed(s, k))
  /\ \A m, w \in Talk(s, k) :
       Follows2(s, k, m, w) => (w.mode = "subscribe" <=> m.mode = "unsubscribe")
  /\ \A m \in Talk(s, k) : Last(s, k, m) =>
       IF m.mode = "unsubscribe" THEN gui[s].on # k ELSE gui[s].on = k /\ m.sid = gui[s].sid
  /\ Talk(s, k) = {} =>
       /\ Believed(s, k) <=> gui[s].on = k
       /\ Believed(s, k) => SidOf(s, k) = gui[s].sid

InTurn(s, k) == server = "running" /\ <<s, k>> \notin crossed /\ k \notin missed

BeliefInv ==
  /\ \A s \in Js : \A m \in wire : m.from = s => m.mode # "single"
  /\ \A s \in Js, k \in Keys : InTurn(s, k) => OneEntry(s, k) /\ TalkIsNext(s, k)

-----------------------------------------------------------------------------
(* Lemmas about types.                                                      *)

LEMMA Bounds ==
  /\ MaxVersion \in Nat /\ 0 \in Version /\ Version \subseteq Nat
  /\ Js \subseteq Sessions /\ NoKey \notin Keys
  BY GetAndSubscribeAssumption DEF Version

LEMMA EmptyStart ==
  /\ Nobody \in Request /\ NoItem \in Item /\ NoPoll \in Poll /\ Blank \in Shown /\ NewGui \in Gui
  /\ NoItem.cached = FALSE /\ NoItem.timer = FALSE /\ NoItem.cas = 0
  /\ \A s \in Sessions : /\ NoItem.new[s] = Nobody /\ NoItem.old[s] = Nobody
                         /\ NoItem.unsub[s] = 0 /\ NoItem.chg[s] = <<>>
  /\ NoPoll.phase = "none" /\ Nobody.mode = "none" /\ Blank.key = NoKey /\ Blank.cas = 0
  <1>1. Nobody \in Request /\ Nobody.mode = "none"
    BY DEF Nobody, Request, Sids
  <1>2. PICK e : e = <<>> /\ e \in Seq(Sids)
    BY EmptySeq
  <1>3. NoItem \in Item
    BY <1>1, <1>2, Bounds DEF NoItem, Item
  <1>4. NoPoll \in Poll /\ NoPoll.phase = "none"
    BY Bounds DEF NoPoll, Poll, Sids
  <1>5. Blank \in Shown /\ Blank.key = NoKey /\ Blank.cas = 0
    BY Bounds DEF Blank, Shown
  <1>6. NewGui \in Gui
    BY <1>5 DEF NewGui, Gui, Sids
  <1> QED BY <1>1, <1>3, <1>4, <1>5, <1>6 DEF NoItem

LEMMA TypeParts ==
  TypeOK => /\ \A k \in Keys : doc[k] \in Version /\ item[k] \in Item /\ poll[k] \in Poll
            /\ \A s \in Sessions : gui[s] \in Gui /\ inbox[s] \in Seq(Post) /\ asked[s] \in Version
            /\ \A d \in direct : d \in Direct /\ d.msg \in Message
            /\ \A m \in wire : m \in Message
  BY DEF TypeOK, Direct

LEMMA MsgType ==
  ASSUME TypeOK, NEW s \in Sessions, NEW i \in {1, 2}, NEW k \in Keys,
         NEW mode, mode \in {"subscribe", "changeSessionId", "unsubscribe", "single", "store"},
         NEW m, m = Msg(s, i, mode, k)
  PROVE  /\ m \in Message /\ m.from = s /\ m.n = gui[s].sent + i /\ m.mode = mode /\ m.key = k
         /\ m.sid = gui[s].sid
  <1>1. gui[s].sid \in Sids /\ gui[s].sent \in Nat /\ gui[s].shown.cas \in Version
    BY TypeParts DEF Gui, Shown
  <1>2. gui[s].sent + i \in Nat /\ 0 \in Version
    BY <1>1, Bounds
  <1> QED BY <1>1, <1>2 DEF Msg, Message

\* What a session says: a few messages, numbered on.
Said(s, msgs, g) ==
  /\ Send(s, msgs, g)
  /\ g \in Gui /\ g.sent = gui[s].sent /\ g.sid >= gui[s].sid
  /\ IsFiniteSet(msgs)
  /\ \A m \in msgs : /\ m \in Message /\ m.from = s /\ m.sid <= g.sid
                     /\ gui[s].sent < m.n /\ m.n <= gui[s].sent + Cardinality(msgs)
                     /\ m.mode = "store" => msgs = {m} /\ MoreStores(m.key)
  /\ \A m, w \in msgs : m.n = w.n => m = w
  /\ UNCHANGED <<doc, backend, errors, crossed, missed>>

Says(s) ==
  \/ \E k \in Keys : ShowCampaign(s, k) \/ ShowCampaignOnce(s, k) \/ StoreDocument(s, k)
  \/ unsubscribeIfSubscribedToAnything(s) \/ Login(s) \/ finalize(s)

\* One message, or none.
LEMMA SaidOne ==
  ASSUME TypeOK, NEW s \in Sessions, NEW g \in Gui, NEW m, Send(s, {m}, g),
         g.sent = gui[s].sent, g.sid >= gui[s].sid,
         m \in Message, m.from = s, m.sid <= g.sid, m.n = gui[s].sent + 1,
         m.mode = "store" => MoreStores(m.key), UNCHANGED <<doc, backend, errors, crossed, missed>>
  PROVE  Said(s, {m}, g)
  <1>1. IsFiniteSet({m}) /\ Cardinality({m}) = 1
    BY FS_Singleton
  <1>2. gui[s].sent \in Nat
    BY TypeParts DEF Gui
  <1> QED BY <1>1, <1>2 DEF Said

LEMMA SaidNone ==
  ASSUME TypeOK, NEW s \in Sessions, NEW g \in Gui, Send(s, {}, g),
         g.sent = gui[s].sent, g.sid >= gui[s].sid, UNCHANGED <<doc, backend, errors, crossed, missed>>
  PROVE  Said(s, {}, g)
  BY FS_EmptySet DEF Said

LEMMA SaysSaid ==
  ASSUME TypeOK, NEW s \in Sessions, Says(s)
  PROVE  \E msgs, g : Said(s, msgs, g)
  <1>0. PICK g : g = gui[s] /\ g \in Gui
    BY TypeParts
  <1>1. g.sid \in Nat /\ g.sent \in Nat /\ g.sid >= g.sid
    BY <1>0 DEF Gui, Sids
  <1>2. ASSUME NEW k \in Keys, ShowCampaign(s, k) PROVE \E msgs, h : Said(s, msgs, h)
    <2>1. PICK h : h = [g EXCEPT !.on = k, !.made = TRUE, !.waits = IF g.made THEN "no" ELSE "page"]
      OBVIOUS
    <2>2. h \in Gui /\ h.sent = g.sent /\ h.sid = g.sid
      BY <1>0, <2>1 DEF Gui
    <2>3. UNCHANGED <<doc, backend, errors, crossed, missed>>
      BY <1>2 DEF ShowCampaign, hist
    <2>4. CASE g.on = NoKey
      <3>1. PICK m : m = Msg(s, 1, "subscribe", k)
        OBVIOUS
      <3>2. Send(s, {m}, h)
        <4>1. Cardinality({}) = 0 /\ 1 + 0 = 1
          BY FS_EmptySet
        <4>2. {} \cup {m} = {m}
          OBVIOUS
        <4> QED BY <1>0, <1>2, <2>1, <2>4, <3>1, <4>1, <4>2 DEF ShowCampaign
      <3>3. /\ m \in Message /\ m.from = s /\ m.n = gui[s].sent + 1 /\ m.mode = "subscribe"
            /\ m.sid = gui[s].sid
        BY <3>1, MsgType
      <3> QED BY <1>0, <1>1, <2>2, <2>3, <3>2, <3>3, SaidOne
    <2>5. CASE g.on # NoKey
      <3>1. PICK m, w : m = Msg(s, 1, "unsubscribe", g.on) /\ w = Msg(s, 2, "subscribe", k)
        OBVIOUS
      <3>2. g.on \in Keys
        BY <1>0, <2>5 DEF Gui
      <3>3. /\ m \in Message /\ m.from = s /\ m.n = gui[s].sent + 1 /\ m.mode = "unsubscribe"
            /\ m.sid = gui[s].sid
        BY <3>1, <3>2, MsgType
      <3>4. /\ w \in Message /\ w.from = s /\ w.n = gui[s].sent + 2 /\ w.mode = "subscribe"
            /\ w.sid = gui[s].sid
        BY <3>1, MsgType
      <3>5. m.n # w.n /\ m # w
        BY <1>0, <1>1, <3>3, <3>4
      <3>6. IsFiniteSet({m, w}) /\ Cardinality({m, w}) = 2 /\ {m, w} = {m} \cup {w}
        <4>1. IsFiniteSet({m}) /\ Cardinality({m}) = 1
          BY FS_Singleton
        <4>2. {m, w} = {m} \cup {w} /\ w \notin {m}
          BY <3>5
        <4>3. IsFiniteSet({m} \cup {w}) /\ Cardinality({m} \cup {w}) = 2
          BY <4>1, <4>2, FS_AddElement
        <4> QED BY <4>2, <4>3
      <3>7. Send(s, {m, w}, h)
        <4>1. Cardinality({m}) = 1
          BY FS_Singleton
        <4>2. 1 + Cardinality({m}) = 2
          BY <4>1
        <4> QED BY <1>0, <1>2, <2>1, <2>5, <3>1, <3>6, <4>2 DEF ShowCampaign
      <3>8. Said(s, {m, w}, h)
        BY <1>0, <1>1, <2>2, <2>3, <3>3, <3>4, <3>5, <3>6, <3>7 DEF Said
      <3> QED BY <3>8
    <2> QED BY <2>4, <2>5
  <1>3. ASSUME NEW k \in Keys, ShowCampaignOnce(s, k) PROVE \E msgs, h : Said(s, msgs, h)
    <2>1. PICK m, h : m = Msg(s, 1, "single", k) /\ h = [g EXCEPT !.on = k, !.waits = "page"]
      OBVIOUS
    <2>2. h \in Gui /\ h.sent = g.sent /\ h.sid = g.sid
      BY <1>0, <2>1 DEF Gui
    <2>3. UNCHANGED <<doc, backend, errors, crossed, missed>> /\ Send(s, {m}, h)
      BY <1>0, <1>3, <2>1 DEF ShowCampaignOnce
    <2>4. /\ m \in Message /\ m.from = s /\ m.n = gui[s].sent + 1 /\ m.mode = "single"
          /\ m.sid = gui[s].sid
      BY <2>1, MsgType
    <2> QED BY <1>0, <1>1, <2>2, <2>3, <2>4, SaidOne
  <1>4. ASSUME NEW k \in Keys, StoreDocument(s, k) PROVE \E msgs, h : Said(s, msgs, h)
    <2>1. PICK m, h : m = Msg(s, 1, "store", k) /\ h = [g EXCEPT !.waits = "store"]
      OBVIOUS
    <2>2. h \in Gui /\ h.sent = g.sent /\ h.sid = g.sid
      BY <1>0, <2>1 DEF Gui
    <2>3. UNCHANGED <<doc, backend, errors, crossed, missed>> /\ Send(s, {m}, h) /\ MoreStores(k)
      BY <1>0, <1>4, <2>1 DEF StoreDocument, hist
    <2>4. /\ m \in Message /\ m.from = s /\ m.n = gui[s].sent + 1 /\ m.key = k
          /\ m.sid = gui[s].sid
      BY <2>1, MsgType
    <2> QED BY <1>0, <1>1, <2>2, <2>3, <2>4, SaidOne
  <1>5. ASSUME unsubscribeIfSubscribedToAnything(s) PROVE \E msgs, h : Said(s, msgs, h)
    <2>1. PICK m, h : m = Msg(s, 1, "unsubscribe", g.on) /\ h = [g EXCEPT !.on = NoKey]
      OBVIOUS
    <2>2. h \in Gui /\ h.sent = g.sent /\ h.sid = g.sid /\ g.on \in Keys
      BY <1>0, <1>5, <2>1 DEF Gui, unsubscribeIfSubscribedToAnything
    <2>3. UNCHANGED <<doc, backend, errors, crossed, missed>> /\ Send(s, {m}, h)
      BY <1>0, <1>5, <2>1 DEF unsubscribeIfSubscribedToAnything, hist
    <2>4. /\ m \in Message /\ m.from = s /\ m.n = gui[s].sent + 1 /\ m.mode = "unsubscribe"
          /\ m.sid = gui[s].sid
      BY <2>1, <2>2, MsgType
    <2> QED BY <1>0, <1>1, <2>2, <2>3, <2>4, SaidOne
  <1>6. ASSUME Login(s) PROVE \E msgs, h : Said(s, msgs, h)
    <2>1. PICK w : w = Msg(s, 1, "changeSessionId", g.on)
      OBVIOUS
    <2>2. PICK m, h : m = [w EXCEPT !.sid = @ + 1] /\ h = [g EXCEPT !.sid = @ + 1]
      OBVIOUS
    <2>3. h \in Gui /\ h.sent = g.sent /\ h.sid = g.sid + 1 /\ g.on \in Keys
      BY <1>0, <1>6, <2>2 DEF Gui, Sids, Login
    <2>4. UNCHANGED <<doc, backend, errors, crossed, missed>> /\ Send(s, {m}, h)
      BY <1>0, <1>6, <2>1, <2>2 DEF Login, hist
    <2>5. /\ w \in Message /\ w.from = s /\ w.n = gui[s].sent + 1 /\ w.mode = "changeSessionId"
          /\ w.sid = gui[s].sid
      BY <2>1, <2>3, MsgType
    <2>6. /\ m \in Message /\ m.from = s /\ m.n = gui[s].sent + 1 /\ m.mode = "changeSessionId"
          /\ m.sid = gui[s].sid + 1
      BY <2>2, <2>5 DEF Message, Sids
    <2> QED BY <1>0, <1>1, <2>3, <2>4, <2>6, SaidOne
  <1>7. ASSUME finalize(s) PROVE \E msgs, h : Said(s, msgs, h)
    <2>1. PICK m, h : m = Msg(s, 1, "unsubscribe", g.on)
                      /\ h = [NewGui EXCEPT !.sid = g.sid + 1, !.sent = g.sent]
      OBVIOUS
    <2>0. PICK e, i : e = NewGui /\ e \in Gui /\ i = g.sid + 1
      BY EmptyStart
    <2>2. h \in Gui /\ h.sent = g.sent /\ h.sid = i
      <3>1. h = [e EXCEPT !.sid = i, !.sent = g.sent] /\ i \in Nat
        BY <1>1, <2>0, <2>1
      <3> QED BY <1>1, <2>0, <3>1 DEF Gui, Sids
    <2>3. /\ UNCHANGED <<doc, backend, errors, crossed, missed>>
          /\ Send(s, IF g.on = NoKey THEN {} ELSE {m}, h)
      BY <1>0, <1>7, <2>1 DEF finalize, hist
    <2>4. CASE g.on = NoKey
      <3>1. Send(s, {}, h) /\ h.sid >= gui[s].sid
        BY <1>0, <1>1, <2>0, <2>2, <2>3, <2>4
      <3> QED BY <1>0, <2>2, <2>3, <3>1, SaidNone
    <2>5. CASE g.on # NoKey
      <3>1. g.on \in Keys
        BY <1>0, <2>5 DEF Gui
      <3>2. /\ m \in Message /\ m.from = s /\ m.n = gui[s].sent + 1 /\ m.mode = "unsubscribe"
            /\ m.sid = gui[s].sid
        BY <2>1, <3>1, MsgType
      <3>3. Send(s, {m}, h)
        BY <2>3, <2>5
      <3>4. i >= g.sid /\ g.sid <= i
        BY <1>1, <2>0
      <3> QED BY <1>0, <2>2, <2>3, <3>2, <3>3, <3>4, SaidOne
    <2> QED BY <2>4, <2>5
  <1> QED BY <1>2, <1>3, <1>4, <1>5, <1>6, <1>7 DEF Says

LEMMA Parts ==
  TypeInv => /\ TypeOK /\ MessagesOK /\ RoomOK /\ PollsOK
             /\ wire \subseteq Message /\ direct \subseteq Direct
             /\ IsFiniteSet(wire) /\ IsFiniteSet(direct)
             /\ \A k \in Keys : doc[k] \in Nat
  BY TypeParts, Bounds DEF TypeInv, MessagesOK, TypeOK

\* Sets of messages and requests are finite with the sets they are of.
LEMMA FiniteParts ==
  ASSUME IsFiniteSet(wire), IsFiniteSet(direct), NEW k
  PROVE  /\ IsFiniteSet(StoresIn(k)) /\ Cardinality(StoresIn(k)) \in Nat
         /\ IsFiniteSet(StoresTaken(k)) /\ Cardinality(StoresTaken(k)) \in Nat
         /\ IsFiniteSet(Asking(k)) /\ Cardinality(Asking(k)) \in Nat
  <1>1. StoresIn(k) \subseteq wire /\ StoresTaken(k) \subseteq direct /\ Asking(k) \subseteq direct
    BY DEF StoresIn, StoresTaken, Asking
  <1>2. IsFiniteSet(StoresIn(k)) /\ IsFiniteSet(StoresTaken(k)) /\ IsFiniteSet(Asking(k))
    BY <1>1, FS_Subset
  <1> QED BY <1>2, FS_CardinalityType

\* A set with one member more, or one less.
LEMMA OneMore ==
  ASSUME NEW S, IsFiniteSet(S), NEW x
  PROVE  /\ IsFiniteSet(S \cup {x}) /\ IsFiniteSet(S \ {x})
         /\ Cardinality(S) \in Nat /\ Cardinality(S \cup {x}) \in Nat
         /\ Cardinality(S \ {x}) \in Nat
         /\ Cardinality(S \cup {x}) <= Cardinality(S) + 1
         /\ x \notin S => Cardinality(S \cup {x}) = Cardinality(S) + 1
         /\ x \in S => Cardinality(S) = Cardinality(S \ {x}) + 1
         /\ Cardinality(S \ {x}) <= Cardinality(S)
  <1>1. IsFiniteSet(S \cup {x}) /\ Cardinality(S \cup {x}) =
             IF x \in S THEN Cardinality(S) ELSE Cardinality(S) + 1
    BY FS_AddElement
  <1>2. IsFiniteSet(S \ {x}) /\ Cardinality(S \ {x}) =
             IF x \in S THEN Cardinality(S) - 1 ELSE Cardinality(S)
    BY FS_RemoveElement
  <1>3. Cardinality(S) \in Nat /\ Cardinality(S \cup {x}) \in Nat /\ Cardinality(S \ {x}) \in Nat
    BY <1>1, <1>2, FS_CardinalityType
  <1> QED BY <1>1, <1>2, <1>3

LEMMA SaidType ==
  ASSUME TypeInv, NEW s \in Sessions, NEW msgs, NEW g, Said(s, msgs, g),
         inbox' \in [Sessions -> Seq(Post)], asked' \in [Sessions -> Version]
  PROVE  TypeInv'
  <1>1. PICK c : c = Cardinality(msgs) /\ c \in Nat
    BY FS_CardinalityType DEF Said
  <1>2. PICK h : h = [g EXCEPT !.sent = gui[s].sent + c]
    OBVIOUS
  <1>3. wire' = wire \cup msgs /\ gui' = [gui EXCEPT ![s] = h]
    BY <1>1, <1>2 DEF Said, Send
  <1>4. g \in Gui /\ gui[s].sent \in Nat /\ gui[s].sid \in Nat /\ gui \in [Sessions -> Gui]
    BY Parts, TypeParts DEF Said, TypeOK, Gui, Sids
  <1>5. h \in Gui /\ h.sent = gui[s].sent + c /\ h.sid = g.sid
    <2>1. PICK i : i = gui[s].sent + c /\ i \in Nat
      BY <1>1, <1>4
    <2>2. h = [g EXCEPT !.sent = i]
      BY <1>2, <2>1
    <2>3. h \in Gui /\ h.sent = i /\ h.sid = g.sid
      BY <1>4, <2>1, <2>2 DEF Gui, Sids
    <2> QED BY <2>1, <2>3
  <1>6. UNCHANGED <<doc, item, poll, direct, pending, server, errors, crossed, missed>>
    BY DEF Said, backend
  <1>7. TypeOK'
    <2>1. gui' \in [Sessions -> Gui] /\ wire' \subseteq Message
      BY <1>3, <1>4, <1>5, Parts DEF Said
    <2> QED BY <1>6, <2>1, Parts DEF TypeOK
  <1>8. \A q \in Sessions : /\ gui[q].sent <= gui'[q].sent /\ gui[q].sid <= gui'[q].sid
                            /\ gui[q].sent \in Nat /\ gui[q].sid \in Nat
                            /\ gui'[q].sent \in Nat /\ gui'[q].sid \in Nat
    <2> SUFFICES ASSUME NEW q \in Sessions
                 PROVE  /\ gui[q].sent <= gui'[q].sent /\ gui[q].sid <= gui'[q].sid
                        /\ gui[q].sent \in Nat /\ gui[q].sid \in Nat
                        /\ gui'[q].sent \in Nat /\ gui'[q].sid \in Nat
      OBVIOUS
    <2>1. gui[q].sent \in Nat /\ gui[q].sid \in Nat /\ g.sid \in Nat /\ g.sid >= gui[s].sid
      BY <1>4 DEF Gui, Sids, Said
    <2>2. gui'[q] = IF q = s THEN h ELSE gui[q]
      BY <1>3, <1>4
    <2> QED BY <1>1, <1>4, <1>5, <2>1, <2>2
  <1>9. \A m \in Message : Known(m) => Known(m)'
    BY <1>8 DEF Known, Message, Sids
  <1>10. \A m \in msgs : Known(m)'
    <2> SUFFICES ASSUME NEW m \in msgs PROVE Known(m)'
      OBVIOUS
    <2>1. m.from = s /\ m.n <= gui[s].sent + c /\ m.sid <= g.sid
      BY <1>1 DEF Said
    <2>2. gui'[s] = h
      BY <1>3, <1>4
    <2> QED BY <1>5, <2>1, <2>2 DEF Known
  <1>11. \A m \in msgs : \A w \in Message : Known(w) => Id(m) # Id(w)
    <2> SUFFICES ASSUME NEW m \in msgs, NEW w \in Message, Known(w), Id(m) = Id(w) PROVE FALSE
      OBVIOUS
    <2>1. m.from = s /\ gui[s].sent < m.n /\ m.n \in Nat /\ w.n <= gui[w.from].sent
      BY DEF Said, Known, Message
    <2>2. m.n = w.n /\ m.from = w.from
      BY DEF Id
    <2> QED BY <1>4, <2>1, <2>2
  <1>12. MessagesOK'
    <2>1. IsFiniteSet(wire')
      BY <1>3, Parts, FS_Union DEF Said
    <2>2. \A m \in wire' : Known(m)'
      BY <1>3, <1>9, <1>10, Parts DEF MessagesOK
    <2>3. \A d \in direct : Known(d.msg)' /\ d.msg \in Message
      BY <1>9, Parts, TypeParts DEF MessagesOK
    <2>4. \A m1, m2 \in wire' : Id(m1) = Id(m2) => m1 = m2
      <3> SUFFICES ASSUME NEW m1 \in wire', NEW m2 \in wire', Id(m1) = Id(m2) PROVE m1 = m2
        OBVIOUS
      <3>1. CASE m1 \in wire /\ m2 \in wire
        BY <3>1, Parts DEF MessagesOK
      <3>2. CASE m1 \in msgs /\ m2 \in msgs
        BY <3>2 DEF Said, Id
      <3>3. CASE m1 \in msgs /\ m2 \in wire
        BY <1>11, <3>3, Parts DEF MessagesOK
      <3>4. CASE m1 \in wire /\ m2 \in msgs
        <4>1. Id(m2) # Id(m1)
          BY <1>11, <3>4, Parts DEF MessagesOK
        <4> QED BY <4>1
      <3> QED BY <1>3, <3>1, <3>2, <3>3, <3>4
    <2>5. \A m \in wire', d \in direct : Id(m) # Id(d.msg)
      <3> SUFFICES ASSUME NEW m \in wire', NEW d \in direct PROVE Id(m) # Id(d.msg)
        OBVIOUS
      <3>1. d.msg \in Message /\ Known(d.msg)
        BY Parts, TypeParts DEF MessagesOK
      <3> QED BY <1>3, <1>11, <3>1, Parts DEF MessagesOK
    <2> QED BY <1>6, <2>1, <2>2, <2>3, <2>4, <2>5, Parts DEF MessagesOK
  <1>13. RoomOK'
    <2> SUFFICES ASSUME NEW k \in Keys
                 PROVE  doc[k] + Cardinality(StoresIn(k)') + Cardinality(StoresTaken(k)) <= MaxVersion
      BY <1>6 DEF RoomOK, StoresTaken
    <2>1. doc[k] + Cardinality(StoresIn(k)) + Cardinality(StoresTaken(k)) <= MaxVersion
      BY Parts DEF RoomOK
    <2>2. CASE \A m \in msgs : ~(m.mode = "store" /\ m.key = k)
      <3>1. StoresIn(k)' = StoresIn(k)
        BY <1>3, <2>2 DEF StoresIn
      <3> QED BY <2>1, <3>1
    <2>3. CASE \E m \in msgs : m.mode = "store" /\ m.key = k
      <3>1. PICK m \in msgs : m.mode = "store" /\ m.key = k
        BY <2>3
      <3>2. msgs = {m} /\ MoreStores(k)
        BY <3>1 DEF Said
      <3>3. StoresIn(k)' = StoresIn(k) \cup {m}
        BY <1>3, <3>1, <3>2 DEF StoresIn
      <3>4. Cardinality(StoresIn(k)') <= Cardinality(StoresIn(k)) + 1 /\ Cardinality(StoresIn(k)') \in Nat
        BY <3>3, Parts, FiniteParts, OneMore
      <3>5. PICK S : S = {d \in direct : d.msg.mode = "store" /\ d.msg.key = k}
        OBVIOUS
      <3>6. doc[k] + Cardinality(StoresIn(k)) + Cardinality(S) < MaxVersion
        BY <3>2, <3>5 DEF MoreStores, StoresIn
      <3>7. StoresTaken(k) \subseteq S /\ S \subseteq direct
        BY <3>5 DEF StoresTaken
      <3>8. Cardinality(StoresTaken(k)) <= Cardinality(S) /\ Cardinality(S) \in Nat
        BY <3>7, Parts, FS_Subset, FS_CardinalityType
      <3>9. /\ doc[k] \in Nat /\ Cardinality(StoresIn(k)) \in Nat /\ Cardinality(StoresTaken(k)) \in Nat
            /\ MaxVersion \in Nat
        BY Parts, FiniteParts, Bounds
      <3> QED BY <3>4, <3>6, <3>8, <3>9
    <2> QED BY <2>2, <2>3
  <1>14. PollsOK'
    BY <1>6, Parts DEF PollsOK
  <1> QED BY <1>7, <1>12, <1>13, <1>14 DEF TypeInv

LEMMA NotEmpty ==
  ASSUME NEW S, IsFiniteSet(S), NEW x \in S
  PROVE  Cardinality(S) \in Nat /\ Cardinality(S) >= 1
  <1>1. Cardinality(S) = Cardinality(S \ {x}) + 1 /\ Cardinality(S \ {x}) \in Nat
    BY OneMore
  <1> QED BY <1>1

-----------------------------------------------------------------------------
(* Steps of the backend.                                                    *)

\* One member of a set is exchanged for another, or goes.
LEMMA Exchanged ==
  ASSUME NEW A, IsFiniteSet(A), NEW d, NEW e, d \notin A, e \notin A
  PROVE  /\ Cardinality(A) \in Nat
         /\ IsFiniteSet(A \cup {d}) /\ Cardinality(A \cup {d}) = Cardinality(A) + 1
         /\ IsFiniteSet(A \cup {e}) /\ Cardinality(A \cup {e}) = Cardinality(A) + 1
  BY OneMore

\* The number of a message tells it from all others, queued or taken.
LEMMA SameMessage ==
  ASSUME MessagesOK
  PROVE  /\ \A d1, d2 \in direct : d1.msg = d2.msg => d1 = d2
         /\ \A m \in wire, d \in direct : m # d.msg
  BY DEF MessagesOK

\* Messages are taken from the queues and become requests; these are answered.
LEMMA MessagesStay ==
  ASSUME TypeInv,
         \A s \in Sessions : gui'[s].sent = gui[s].sent /\ gui'[s].sid = gui[s].sid,
         wire' \subseteq wire, IsFiniteSet(direct'),
         \A e \in direct' : \/ \E d \in direct : d.msg = e.msg
                            \/ e.msg \in wire \ wire' /\ e.msg.mode \in {"single", "store"},
         \A e1, e2 \in direct' : e1.msg = e2.msg => e1 = e2
  PROVE  MessagesOK'
  <1>1. MessagesOK /\ IsFiniteSet(wire) /\ wire \subseteq Message
    BY Parts
  <1>2. IsFiniteSet(wire')
    BY <1>1, FS_Subset
  <1>3. \A m \in Message : Known(m) => Known(m)'
    BY DEF Known, Message
  <1>4. \A d \in direct : d.msg \in Message
    BY Parts, TypeParts
  <1>5. \A m \in wire' : Known(m)'
    BY <1>1, <1>3 DEF MessagesOK
  <1>6. \A e \in direct' : Known(e.msg)' /\ e.msg.mode \in {"single", "store"}
    <2> SUFFICES ASSUME NEW e \in direct' PROVE Known(e.msg)' /\ e.msg.mode \in {"single", "store"}
      OBVIOUS
    <2>1. CASE \E d \in direct : d.msg = e.msg
      <3>1. PICK d \in direct : d.msg = e.msg
        BY <2>1
      <3>2. Known(d.msg) /\ d.msg.mode \in {"single", "store"}
        BY <1>1 DEF MessagesOK
      <3>3. Known(e.msg)
        BY <3>1, <3>2 DEF Known
      <3> QED BY <1>3, <1>4, <3>1, <3>2, <3>3
    <2>2. CASE e.msg \in wire \ wire' /\ e.msg.mode \in {"single", "store"}
      BY <1>1, <1>3, <2>2 DEF MessagesOK
    <2> QED BY <2>1, <2>2
  <1>7. \A e1, e2 \in direct' : Id(e1.msg) = Id(e2.msg) => e1 = e2
    <2> SUFFICES ASSUME NEW e1 \in direct', NEW e2 \in direct', Id(e1.msg) = Id(e2.msg)
                 PROVE  e1.msg = e2.msg
      OBVIOUS
    <2>1. PICK m1, m2 : m1 = e1.msg /\ m2 = e2.msg
      OBVIOUS
    <2>2. Id(m1) = Id(m2)
      BY <2>1
    <2>3. (\E d \in direct : d.msg = m1) \/ m1 \in wire
      BY <2>1
    <2>4. (\E d \in direct : d.msg = m2) \/ m2 \in wire
      BY <2>1
    <2>5. m1 = m2
      BY <1>1, <2>2, <2>3, <2>4 DEF MessagesOK
    <2> QED BY <2>1, <2>5
  <1>8. \A m \in wire', e \in direct' : Id(m) # Id(e.msg)
    <2> SUFFICES ASSUME NEW m \in wire', NEW e \in direct', Id(m) = Id(e.msg) PROVE FALSE
      OBVIOUS
    <2>1. CASE \E d \in direct : d.msg = e.msg
      BY <1>1, <2>1 DEF MessagesOK
    <2>2. CASE e.msg \in wire \ wire'
      BY <1>1, <2>2 DEF MessagesOK
    <2> QED BY <2>1, <2>2
  <1> QED BY <1>1, <1>2, <1>5, <1>6, <1>7, <1>8 DEF MessagesOK

LEMMA RoomStays ==
  ASSUME TypeInv, NEW k \in Keys, doc'[k] = doc[k],
         StoresIn(k)' \subseteq StoresIn(k), StoresTaken(k)' \subseteq StoresTaken(k)
  PROVE  doc'[k] + Cardinality(StoresIn(k)') + Cardinality(StoresTaken(k)') <= MaxVersion
  <1>1. IsFiniteSet(StoresIn(k)) /\ IsFiniteSet(StoresTaken(k))
    BY Parts, FiniteParts
  <1>2. /\ Cardinality(StoresIn(k)') <= Cardinality(StoresIn(k)) /\ Cardinality(StoresIn(k)) \in Nat
        /\ Cardinality(StoresIn(k)') \in Nat
    BY <1>1, FS_Subset, FS_CardinalityType
  <1>3. /\ Cardinality(StoresTaken(k)') <= Cardinality(StoresTaken(k))
        /\ Cardinality(StoresTaken(k)) \in Nat /\ Cardinality(StoresTaken(k)') \in Nat
    BY <1>1, FS_Subset, FS_CardinalityType
  <1>4. doc[k] \in Nat /\ MaxVersion \in Nat
    BY Parts, Bounds
  <1>5. doc[k] + Cardinality(StoresIn(k)) + Cardinality(StoresTaken(k)) <= MaxVersion
    BY Parts DEF RoomOK
  <1> QED BY <1>2, <1>3, <1>4, <1>5

\* A request of the database that ends, or is tried again, is one request more or less.
LEMMA GotType ==
  ASSUME TypeOK, NEW kind \in {"get", "store"}, Got(kind), pending[kind] >= 1
  PROVE  /\ pending' \in [get: Nat, store: Nat] /\ pending'[kind] = pending[kind] - 1
         /\ kind = "get" => pending'.get = pending.get - 1 /\ pending'.store = pending.store
         /\ kind = "store" => pending'.store = pending.store - 1 /\ pending'.get = pending.get
         /\ server' \in {"running", "stopping", "finished", "joined"}
         /\ server' # server => server' = "finished" /\ NothingPending(pending')
  <1>1. pending \in [get: Nat, store: Nat] /\ server \in {"running", "stopping", "finished", "joined"}
    BY DEF TypeOK
  <1>2. PICK i : i = pending[kind] - 1
    OBVIOUS
  <1>3. i \in Nat
    BY <1>1, <1>2
  <1>4. pending' = [pending EXCEPT ![kind] = i]
    BY <1>2 DEF Got
  <1>5. pending' \in [get: Nat, store: Nat] /\ pending'[kind] = i
    BY <1>1, <1>3, <1>4
  <1>6. /\ kind = "get" => pending'.get = i /\ pending'.store = pending.store
        /\ kind = "store" => pending'.store = i /\ pending'.get = pending.get
    BY <1>1, <1>4
  <1> QED BY <1>1, <1>2, <1>5, <1>6 DEF Got

\* A request goes on: it is answered, waits to be tried again, or is tried again.
LEMMA DirectGoesOn ==
  ASSUME TypeInv, NEW d \in direct, NEW e \in Direct, e.msg = d.msg,
         direct' = (direct \ {d}) \cup {e}, UNCHANGED <<wire, gui>>
  PROVE  /\ MessagesOK' /\ direct' \subseteq Direct
         /\ \A kind \in {"get", "store"} :
              /\ kind # Kind(d.msg) => Asking(kind)' = Asking(kind)
              /\ OnItsWay(d.phase) /\ OnItsWay(e.phase) =>
                   Cardinality(Asking(kind)') = Cardinality(Asking(kind))
              /\ kind = Kind(d.msg) /\ OnItsWay(d.phase) /\ ~OnItsWay(e.phase) =>
                   Cardinality(Asking(kind)) = Cardinality(Asking(kind)') + 1
              /\ kind = Kind(d.msg) /\ ~OnItsWay(d.phase) /\ OnItsWay(e.phase) =>
                   Cardinality(Asking(kind)') = Cardinality(Asking(kind)) + 1
         /\ \A k \in Keys :
              /\ StoresIn(k)' = StoresIn(k)
              /\ d.phase # "answered" /\ e.phase # "answered" =>
                   Cardinality(StoresTaken(k)') = Cardinality(StoresTaken(k))
              /\ d.phase # "answered" /\ e.phase = "answered" =>
                   /\ StoresTaken(k)' \subseteq StoresTaken(k)
                   /\ d.msg.mode = "store" /\ d.msg.key = k =>
                        Cardinality(StoresTaken(k)) = Cardinality(StoresTaken(k)') + 1
  <1>1. \A x \in direct : x.msg = d.msg => x = d
    BY Parts, SameMessage
  <1>2. e \notin direct \ {d}
    BY <1>1
  <1>3. IsFiniteSet(direct) /\ direct \subseteq Direct
    BY Parts
  <1>4. IsFiniteSet(direct')
    <2>1. IsFiniteSet(direct \ {d})
      BY <1>3, OneMore
    <2> QED BY <2>1, OneMore
  <1>5. MessagesOK'
    <2>1. \A x \in direct' : \E y \in direct : y.msg = x.msg
      OBVIOUS
    <2>2. \A e1, e2 \in direct' : e1.msg = e2.msg => e1 = e2
      BY <1>1, Parts, SameMessage
    <2> QED BY <1>4, <2>1, <2>2, MessagesStay
  <1>6. ASSUME NEW kind \in {"get", "store"}
        PROVE  /\ kind # Kind(d.msg) => Asking(kind)' = Asking(kind)
               /\ OnItsWay(d.phase) /\ OnItsWay(e.phase) =>
                    Cardinality(Asking(kind)') = Cardinality(Asking(kind))
               /\ kind = Kind(d.msg) /\ OnItsWay(d.phase) /\ ~OnItsWay(e.phase) =>
                    Cardinality(Asking(kind)) = Cardinality(Asking(kind)') + 1
               /\ kind = Kind(d.msg) /\ ~OnItsWay(d.phase) /\ OnItsWay(e.phase) =>
                    Cardinality(Asking(kind)') = Cardinality(Asking(kind)) + 1
    <2>1. kind # Kind(d.msg) => Asking(kind)' = Asking(kind)
      BY DEF Asking
    <2>2. PICK A : A = Asking(kind) \ {d}
      OBVIOUS
    <2>3. IsFiniteSet(A) /\ d \notin A /\ e \notin A
      BY <1>2, <1>3, <2>2, Parts, FiniteParts, OneMore DEF Asking
    <2>4. /\ Cardinality(A \cup {d}) = Cardinality(A) + 1 /\ Cardinality(A) \in Nat
          /\ Cardinality(A \cup {e}) = Cardinality(A) + 1
      BY <2>3, Exchanged
    <2>5. kind = Kind(d.msg) => /\ OnItsWay(d.phase) => Asking(kind) = A \cup {d}
                                /\ ~OnItsWay(d.phase) => Asking(kind) = A
                                /\ OnItsWay(e.phase) => Asking(kind)' = A \cup {e}
                                /\ ~OnItsWay(e.phase) => Asking(kind)' = A
      BY <2>2 DEF Asking
    <2> QED BY <2>1, <2>4, <2>5
  <1>7. ASSUME NEW k \in Keys
        PROVE  /\ StoresIn(k)' = StoresIn(k)
               /\ d.phase # "answered" /\ e.phase # "answered" =>
                    Cardinality(StoresTaken(k)') = Cardinality(StoresTaken(k))
               /\ d.phase # "answered" /\ e.phase = "answered" =>
                    /\ StoresTaken(k)' \subseteq StoresTaken(k)
                    /\ d.msg.mode = "store" /\ d.msg.key = k =>
                         Cardinality(StoresTaken(k)) = Cardinality(StoresTaken(k)') + 1
    <2>1. StoresIn(k)' = StoresIn(k)
      BY DEF StoresIn
    <2>2. PICK A : A = StoresTaken(k) \ {d}
      OBVIOUS
    <2>3. IsFiniteSet(A) /\ d \notin A /\ e \notin A
      BY <1>2, <1>3, <2>2, Parts, FiniteParts, OneMore DEF StoresTaken
    <2>4. /\ Cardinality(A \cup {d}) = Cardinality(A) + 1 /\ Cardinality(A) \in Nat
          /\ Cardinality(A \cup {e}) = Cardinality(A) + 1
      BY <2>3, Exchanged
    <2>5. ~(d.msg.mode = "store" /\ d.msg.key = k) => StoresTaken(k)' = StoresTaken(k)
      BY DEF StoresTaken
    <2>6. d.msg.mode = "store" /\ d.msg.key = k =>
            /\ d.phase # "answered" => StoresTaken(k) = A \cup {d}
            /\ e.phase # "answered" => StoresTaken(k)' = A \cup {e}
            /\ e.phase = "answered" => StoresTaken(k)' = A
      BY <2>2 DEF StoresTaken
    <2> QED BY <2>1, <2>4, <2>5, <2>6
  <1> QED BY <1>3, <1>5, <1>6, <1>7

\* A request ends.
LEMMA DirectEnds ==
  ASSUME TypeInv, NEW d \in direct, direct' = direct \ {d}, UNCHANGED <<wire, gui>>
  PROVE  /\ MessagesOK' /\ direct' \subseteq Direct
         /\ \A kind \in {"get", "store"} :
              /\ kind # Kind(d.msg) => Asking(kind)' = Asking(kind)
              /\ kind = Kind(d.msg) /\ OnItsWay(d.phase) =>
                   Cardinality(Asking(kind)) = Cardinality(Asking(kind)') + 1
         /\ \A k \in Keys :
              StoresIn(k)' = StoresIn(k) /\ StoresTaken(k)' \subseteq StoresTaken(k)
  <1>1. IsFiniteSet(direct) /\ direct \subseteq Direct
    BY Parts
  <1>2. MessagesOK'
    <2>1. IsFiniteSet(direct')
      BY <1>1, OneMore
    <2>2. \A e1, e2 \in direct' : e1.msg = e2.msg => e1 = e2
      BY Parts, SameMessage
    <2> QED BY <2>1, <2>2, MessagesStay
  <1>3. ASSUME NEW kind \in {"get", "store"}
        PROVE  /\ kind # Kind(d.msg) => Asking(kind)' = Asking(kind)
               /\ kind = Kind(d.msg) /\ OnItsWay(d.phase) =>
                    Cardinality(Asking(kind)) = Cardinality(Asking(kind)') + 1
    <2>1. Asking(kind)' = Asking(kind) \ {d}
      BY DEF Asking
    <2>2. kind = Kind(d.msg) /\ OnItsWay(d.phase) => d \in Asking(kind)
      BY DEF Asking
    <2>3. kind # Kind(d.msg) => d \notin Asking(kind)
      BY DEF Asking
    <2>4. IsFiniteSet(Asking(kind))
      BY Parts, FiniteParts
    <2> QED BY <2>1, <2>2, <2>3, <2>4, OneMore
  <1>4. \A k \in Keys : StoresIn(k)' = StoresIn(k) /\ StoresTaken(k)' \subseteq StoresTaken(k)
    BY DEF StoresIn, StoresTaken
  <1> QED BY <1>1, <1>2, <1>3, <1>4

LEMMA Posts ==
  /\ \A k \in Keys, cas \in Version : Page(k, cas) \in Post
  /\ Stored \in Post
  /\ \A p \in Post : \A s, sid : Post1(s, sid, p) \in Seq(Post)
  <1>1. \A k \in Keys, cas \in Version : Page(k, cas) \in Post
    BY EmptyStart DEF Page, Post, Shown
  <1>2. Stored \in Post
    BY EmptyStart DEF Stored, Post
  <1>3. ASSUME NEW p \in Post, NEW s, NEW sid PROVE Post1(s, sid, p) \in Seq(Post)
    <2>1. <<>> \in Seq(Post) /\ <<p>> \in Seq(Post)
      BY EmptySeq
    <2> QED BY <2>1 DEF Post1
  <1> QED BY <1>1, <1>2, <1>3

\* What is posted to one session.
LEMMA PostedType ==
  ASSUME TypeOK, NEW s \in Sessions, NEW p \in Post, NEW sid,
         inbox' = [inbox EXCEPT ![s] = @ \o Post1(s, sid, p)]
  PROVE  inbox' \in [Sessions -> Seq(Post)]
  <1>1. PICK q : q = Post1(s, sid, p) /\ q \in Seq(Post)
    BY Posts
  <1>2. inbox \in [Sessions -> Seq(Post)]
    BY DEF TypeOK
  <1>3. inbox[s] \o q \in Seq(Post)
    BY <1>1, <1>2, ConcatProperties
  <1> QED BY <1>1, <1>2, <1>3

\* A request that is on its way is counted.
LEMMA CountedDirect ==
  ASSUME TypeInv, CountsOK, NEW d \in direct, OnItsWay(d.phase)
  PROVE  /\ Kind(d.msg) \in {"get", "store"} /\ pending[Kind(d.msg)] >= 1
         /\ pending.get \in Nat /\ pending.store \in Nat
         /\ Cardinality(Polling) \in Nat /\ Cardinality(Asking("get")) \in Nat
         /\ Cardinality(Asking("store")) \in Nat
  <1>1. PICK kind : kind = Kind(d.msg) /\ kind \in {"get", "store"}
    BY DEF Kind
  <1>2. d \in Asking(kind) /\ IsFiniteSet(Asking(kind))
    BY <1>1, Parts, FiniteParts DEF Asking
  <1>3. Cardinality(Asking(kind)) >= 1
    BY <1>2, NotEmpty
  <1>4. /\ Cardinality(Polling) \in Nat /\ Cardinality(Asking("get")) \in Nat
        /\ Cardinality(Asking("store")) \in Nat
    BY Parts, FiniteParts, FS_CardinalityType DEF CountsOK
  <1>5. pending.get \in Nat /\ pending.store \in Nat
    BY <1>4 DEF CountsOK
  <1> QED BY <1>1, <1>3, <1>4, <1>5 DEF CountsOK

LEMMA DirectStepCounts ==
  ASSUME TypeInv, CountsOK, NEW d \in direct, DirectStep(d)
  PROVE  TypeInv' /\ CountsOK'
  <1>1. /\ d \in Direct /\ d.msg \in Message /\ d.msg.from \in Sessions /\ d.msg.key \in Keys
        /\ d.cas \in Version /\ TypeOK
    BY Parts, TypeParts DEF Message, Direct
  <1>2. UNCHANGED <<item, poll, wire, gui, crossed, missed, asked>>
    BY DEF DirectStep, AnswerDirect, DirectAnswered, DirectError, backoffDirect, retryDirect, hist
  <1>3. Polling' = Polling /\ PollsOK'
    BY <1>2, Parts DEF Polling, PollsOK
  <1>4. /\ Cardinality(Polling) \in Nat /\ Cardinality(Asking("get")) \in Nat
        /\ Cardinality(Asking("store")) \in Nat
    BY Parts, FiniteParts, FS_CardinalityType DEF CountsOK
  <1>5. PICK m, kind : m = d.msg /\ kind = Kind(m) /\ kind \in {"get", "store"}
    BY DEF Kind
  \* It is answered by the database.
  <1>6. CASE AnswerDirect(d)
    <2>1. /\ d.phase = "sent"
          /\ direct' = (direct \ {d}) \cup {[d EXCEPT !.phase = "answered", !.cas = doc'[m.key]]}
          /\ UNCHANGED <<pending, server, inbox, errors>>
          /\ doc' = IF m.mode = "store" /\ m.cas = doc[m.key]
                    THEN [doc EXCEPT ![m.key] = @ + 1] ELSE doc
      BY <1>5, <1>6 DEF AnswerDirect
    <2>2. /\ doc \in [Keys -> Version] /\ doc[m.key] \in Nat /\ MaxVersion \in Nat /\ m.key \in Keys
          /\ m.mode = "store" => doc[m.key] + 1 <= MaxVersion
      <3>1. doc \in [Keys -> Version] /\ doc[m.key] \in Nat /\ MaxVersion \in Nat /\ m.key \in Keys
        BY <1>1, <1>5, Parts, Bounds DEF TypeOK
      <3>2. ASSUME m.mode = "store" PROVE doc[m.key] + 1 <= MaxVersion
        <4>1. d \in StoresTaken(m.key)
          BY <1>5, <2>1, <3>2 DEF StoresTaken
        <4>2. IsFiniteSet(StoresTaken(m.key)) /\ Cardinality(StoresIn(m.key)) \in Nat
          BY Parts, FiniteParts
        <4>3. Cardinality(StoresTaken(m.key)) >= 1 /\ Cardinality(StoresTaken(m.key)) \in Nat
          BY <4>1, <4>2, NotEmpty
        <4>4. doc[m.key] + Cardinality(StoresIn(m.key)) + Cardinality(StoresTaken(m.key)) <= MaxVersion
          BY <3>1, Parts DEF RoomOK
        <4> QED BY <3>1, <4>2, <4>3, <4>4
      <3> QED BY <3>1, <3>2
    <2>3. doc' \in [Keys -> Version]
      BY <2>1, <2>2 DEF Version
    <2>4. PICK c : c = doc'[m.key] /\ c \in Version
      BY <2>2, <2>3
    <2>5. PICK e : e = [d EXCEPT !.phase = "answered", !.cas = c]
      OBVIOUS
    <2>6. /\ e \in Direct /\ e.msg = d.msg /\ e.phase = "answered"
          /\ direct' = (direct \ {d}) \cup {e}
      BY <1>1, <2>1, <2>4, <2>5 DEF Direct
    <2>7. OnItsWay(d.phase) /\ OnItsWay(e.phase) /\ d.phase # "answered"
      BY <2>1, <2>6 DEF OnItsWay
    <2>8. /\ MessagesOK' /\ direct' \subseteq Direct
          /\ \A x \in {"get", "store"} : Cardinality(Asking(x)') = Cardinality(Asking(x))
          /\ \A k \in Keys :
               /\ StoresIn(k)' = StoresIn(k) /\ StoresTaken(k)' \subseteq StoresTaken(k)
               /\ m.mode = "store" /\ m.key = k =>
                    Cardinality(StoresTaken(k)) = Cardinality(StoresTaken(k)') + 1
      BY <1>2, <1>5, <2>6, <2>7, DirectGoesOn
    <2>9. CountsOK'
      BY <1>3, <2>1, <2>8 DEF CountsOK
    <2>10. RoomOK'
      <3> SUFFICES ASSUME NEW k \in Keys
                   PROVE  doc'[k] + Cardinality(StoresIn(k)') + Cardinality(StoresTaken(k)') <= MaxVersion
        BY DEF RoomOK
      <3>1. CASE m.mode = "store" /\ m.key = k
        <4>1. doc'[k] = doc[k] \/ doc'[k] = doc[k] + 1
          BY <2>1, <2>2, <3>1
        <4>2. doc[k] + Cardinality(StoresIn(k)) + Cardinality(StoresTaken(k)) <= MaxVersion
          BY Parts DEF RoomOK
        <4>3. IsFiniteSet(StoresTaken(k)) /\ Cardinality(StoresIn(k)) \in Nat
          BY Parts, FiniteParts
        <4>4. Cardinality(StoresTaken(k)') \in Nat
          BY <2>8, <4>3, FS_Subset, FS_CardinalityType
        <4> QED BY <2>2, <2>8, <3>1, <4>1, <4>2, <4>3, <4>4
      <3>2. CASE ~(m.mode = "store" /\ m.key = k)
        <4>1. doc'[k] = doc[k]
          BY <2>1, <2>2, <3>2
        <4> QED BY <2>8, <4>1, RoomStays
      <3> QED BY <3>1, <3>2
    <2>11. TypeOK'
      BY <1>1, <1>2, <2>1, <2>3, <2>8 DEF TypeOK
    <2> QED BY <1>3, <2>8, <2>9, <2>10, <2>11 DEF TypeInv
  \* It ends, with an answer or an error.
  <1>7. CASE DirectAnswered(d) \/ DirectError(d)
    <2>1. /\ OnItsWay(d.phase) /\ direct' = direct \ {d} /\ Got(kind) /\ UNCHANGED doc
          /\ errors' \in 0..MaxErrors
      <3>1. errors \in Nat /\ errors <= MaxErrors /\ MaxErrors \in Nat
        BY <1>1, GetAndSubscribeAssumption DEF TypeOK
      <3>2. errors' = errors \/ (errors > 0 /\ errors' = errors - 1)
        BY <1>7 DEF DirectAnswered, DirectError, MayError
      <3>3. errors' \in 0..MaxErrors
        BY <3>1, <3>2
      <3> QED BY <1>5, <1>7, <3>3 DEF DirectAnswered, DirectError, OnItsWay
    <2>2. inbox' \in [Sessions -> Seq(Post)]
      <3>1. PICK p \in Post : inbox' = [inbox EXCEPT ![m.from] = @ \o Post1(m.from, m.sid, p)]
        BY <1>1, <1>5, <1>7, Posts, EmptyStart, Bounds DEF DirectAnswered, DirectError
      <3>2. PICK s, sid : s = m.from /\ sid = m.sid
        OBVIOUS
      <3>3. s \in Sessions /\ inbox' = [inbox EXCEPT ![s] = @ \o Post1(s, sid, p)]
        BY <1>1, <1>5, <3>1, <3>2
      <3> QED BY <1>1, <3>3, PostedType
    <2>3. /\ MessagesOK' /\ direct' \subseteq Direct
          /\ \A x \in {"get", "store"} :
               /\ x # kind => Asking(x)' = Asking(x)
               /\ x = kind => Cardinality(Asking(x)) = Cardinality(Asking(x)') + 1
          /\ \A k \in Keys : StoresIn(k)' = StoresIn(k) /\ StoresTaken(k)' \subseteq StoresTaken(k)
      BY <1>2, <1>5, <2>1, DirectEnds
    <2>4. /\ pending' \in [get: Nat, store: Nat]
          /\ kind = "get" => pending'.get = pending.get - 1 /\ pending'.store = pending.store
          /\ kind = "store" => pending'.store = pending.store - 1 /\ pending'.get = pending.get
          /\ server' \in {"running", "stopping", "finished", "joined"}
      <3>1. pending[kind] >= 1
        BY <1>5, <2>1, CountedDirect
      <3> QED BY <1>1, <1>5, <2>1, <3>1, GotType
    <2>5. CountsOK'
      <3>1. CASE kind = "get"
        <4>1. /\ Cardinality(Asking("get")) = Cardinality(Asking("get")') + 1
              /\ Asking("store")' = Asking("store")
          BY <2>3, <3>1
        <4>2. Cardinality(Asking("get")') \in Nat
          <5>1. Asking("get")' \subseteq direct' /\ direct' \subseteq direct
            BY <2>1 DEF Asking
          <5>2. IsFiniteSet(Asking("get")')
            BY <5>1, Parts, FS_Subset
          <5> QED BY <5>2, FS_CardinalityType
        <4> QED BY <1>3, <1>4, <2>4, <3>1, <4>1, <4>2 DEF CountsOK
      <3>2. CASE kind = "store"
        <4>1. /\ Cardinality(Asking("store")) = Cardinality(Asking("store")') + 1
              /\ Asking("get")' = Asking("get")
          BY <2>3, <3>2
        <4>2. Cardinality(Asking("store")') \in Nat
          <5>1. Asking("store")' \subseteq direct' /\ direct' \subseteq direct
            BY <2>1 DEF Asking
          <5>2. IsFiniteSet(Asking("store")')
            BY <5>1, Parts, FS_Subset
          <5> QED BY <5>2, FS_CardinalityType
        <4> QED BY <1>3, <1>4, <2>4, <3>2, <4>1, <4>2 DEF CountsOK
      <3> QED BY <1>5, <3>1, <3>2
    <2>6. RoomOK'
      BY <2>1, <2>3, RoomStays DEF RoomOK
    <2>7. TypeOK'
      BY <1>1, <1>2, <2>1, <2>2, <2>3, <2>4 DEF TypeOK
    <2> QED BY <1>3, <2>3, <2>5, <2>6, <2>7 DEF TypeInv
  \* It waits to be tried again.
  <1>8. CASE backoffDirect(d)
    <2>1. /\ d.phase = "sent" /\ direct' = (direct \ {d}) \cup {[d EXCEPT !.phase = "backoff"]}
          /\ Got(kind) /\ UNCHANGED <<doc, inbox>> /\ errors' \in 0..MaxErrors
      <3>1. errors \in Nat /\ errors <= MaxErrors /\ MaxErrors \in Nat
        BY <1>1, GetAndSubscribeAssumption DEF TypeOK
      <3>2. errors > 0 /\ errors' = errors - 1
        BY <1>8 DEF backoffDirect, MayError
      <3>3. errors' \in 0..MaxErrors
        BY <3>1, <3>2
      <3> QED BY <1>5, <1>8, <3>3 DEF backoffDirect
    <2>2. PICK e : e = [d EXCEPT !.phase = "backoff"]
      OBVIOUS
    <2>3. /\ e \in Direct /\ e.msg = d.msg /\ e.phase = "backoff"
          /\ direct' = (direct \ {d}) \cup {e}
      BY <1>1, <2>1, <2>2 DEF Direct
    <2>4. OnItsWay(d.phase) /\ ~OnItsWay(e.phase) /\ d.phase # "answered" /\ e.phase # "answered"
      BY <2>1, <2>3 DEF OnItsWay
    <2>5. /\ MessagesOK' /\ direct' \subseteq Direct
          /\ \A x \in {"get", "store"} :
               /\ x # kind => Asking(x)' = Asking(x)
               /\ x = kind => Cardinality(Asking(x)) = Cardinality(Asking(x)') + 1
          /\ \A k \in Keys : /\ StoresIn(k)' = StoresIn(k)
                             /\ Cardinality(StoresTaken(k)') = Cardinality(StoresTaken(k))
      BY <1>2, <1>5, <2>3, <2>4, DirectGoesOn
    <2>6. /\ pending' \in [get: Nat, store: Nat]
          /\ kind = "get" => pending'.get = pending.get - 1 /\ pending'.store = pending.store
          /\ kind = "store" => pending'.store = pending.store - 1 /\ pending'.get = pending.get
          /\ server' \in {"running", "stopping", "finished", "joined"}
      <3>1. pending[kind] >= 1
        BY <1>5, <2>4, CountedDirect
      <3> QED BY <1>1, <1>5, <2>1, <3>1, GotType
    <2>7. \A x \in {"get", "store"} : Cardinality(Asking(x)') \in Nat
      <3> SUFFICES ASSUME NEW x \in {"get", "store"} PROVE Cardinality(Asking(x)') \in Nat
        OBVIOUS
      <3>1. IsFiniteSet(direct') /\ Asking(x)' \subseteq direct'
        BY <2>5 DEF MessagesOK, Asking
      <3> QED BY <3>1, FS_Subset, FS_CardinalityType
    <2>8. CountsOK'
      BY <1>3, <1>4, <1>5, <2>5, <2>6, <2>7 DEF CountsOK
    <2>9. RoomOK'
      BY <2>1, <2>5, Parts DEF RoomOK
    <2>10. TypeOK'
      BY <1>1, <1>2, <2>1, <2>5, <2>6 DEF TypeOK
    <2> QED BY <1>3, <2>5, <2>8, <2>9, <2>10 DEF TypeInv
  \* It is tried again.
  <1>9. CASE retryDirect(d)
    <2>1. /\ d.phase = "backoff" /\ direct' = (direct \ {d}) \cup {[d EXCEPT !.phase = "sent"]}
          /\ pending' = [pending EXCEPT ![kind] = @ + 1]
          /\ UNCHANGED <<doc, inbox, server, errors>>
      BY <1>5, <1>9 DEF retryDirect
    <2>2. PICK e : e = [d EXCEPT !.phase = "sent"]
      OBVIOUS
    <2>3. /\ e \in Direct /\ e.msg = d.msg /\ e.phase = "sent"
          /\ direct' = (direct \ {d}) \cup {e}
      BY <1>1, <2>1, <2>2 DEF Direct
    <2>4. ~OnItsWay(d.phase) /\ OnItsWay(e.phase) /\ d.phase # "answered" /\ e.phase # "answered"
      BY <2>1, <2>3 DEF OnItsWay
    <2>5. /\ MessagesOK' /\ direct' \subseteq Direct
          /\ \A x \in {"get", "store"} :
               /\ x # kind => Asking(x)' = Asking(x)
               /\ x = kind => Cardinality(Asking(x)') = Cardinality(Asking(x)) + 1
          /\ \A k \in Keys : /\ StoresIn(k)' = StoresIn(k)
                             /\ Cardinality(StoresTaken(k)') = Cardinality(StoresTaken(k))
      BY <1>2, <1>5, <2>3, <2>4, DirectGoesOn
    <2>6. /\ pending' \in [get: Nat, store: Nat]
          /\ kind = "get" => pending'.get = pending.get + 1 /\ pending'.store = pending.store
          /\ kind = "store" => pending'.store = pending.store + 1 /\ pending'.get = pending.get
      <3>1. pending \in [get: Nat, store: Nat]
        BY <1>1 DEF TypeOK
      <3>2. PICK i : i = pending[kind] + 1
        OBVIOUS
      <3>3. i \in Nat /\ pending' = [pending EXCEPT ![kind] = i]
        BY <1>5, <2>1, <3>1, <3>2
      <3> QED BY <1>5, <3>1, <3>2, <3>3
    <2>7. CountsOK'
      BY <1>3, <1>4, <1>5, <2>5, <2>6 DEF CountsOK
    <2>8. RoomOK'
      BY <2>1, <2>5, Parts DEF RoomOK
    <2>9. TypeOK'
      BY <1>1, <1>2, <2>1, <2>5, <2>6 DEF TypeOK
    <2> QED BY <1>3, <2>5, <2>7, <2>8, <2>9 DEF TypeInv
  <1> QED BY <1>6, <1>7, <1>8, <1>9 DEF DirectStep

\* A poll begins, goes on or ends.
LEMMA PollChanges ==
  ASSUME TypeInv, CountsOK, NEW k \in Keys, NEW p \in Poll, poll' = [poll EXCEPT ![k] = p],
         p.phase # "none" => p.by \in Sessions, UNCHANGED direct
  PROVE  /\ poll' \in [Keys -> Poll] /\ PollsOK' /\ poll'[k] = p
         /\ \A q \in Keys : q # k => poll'[q] = poll[q]
         /\ OnItsWay(poll[k].phase) /\ OnItsWay(p.phase) /\ UNCHANGED pending => CountsOK'
         /\ OnItsWay(poll[k].phase) /\ ~OnItsWay(p.phase) =>
              /\ pending["get"] >= 1
              /\ pending'.get = pending.get - 1 /\ pending'.store = pending.store => CountsOK'
         /\ ~OnItsWay(poll[k].phase) /\ OnItsWay(p.phase) =>
              (pending'.get = pending.get + 1 /\ pending'.store = pending.store => CountsOK')
  <1>1. poll \in [Keys -> Poll] /\ PollsOK
    BY Parts DEF TypeOK
  <1>2. poll' \in [Keys -> Poll] /\ poll'[k] = p /\ \A q \in Keys : q # k => poll'[q] = poll[q]
    BY <1>1
  <1>3. PollsOK'
    BY <1>1, <1>2 DEF PollsOK
  <1>4. /\ Asking("get")' = Asking("get") /\ Asking("store")' = Asking("store")
        /\ Cardinality(Asking("get")) \in Nat /\ Cardinality(Asking("store")) \in Nat
        /\ IsFiniteSet(Polling)
    BY Parts, FiniteParts DEF Asking, CountsOK
  <1>5. /\ IsFiniteSet(Polling \cup {k}) /\ IsFiniteSet(Polling \ {k})
        /\ Cardinality(Polling) \in Nat
        /\ k \notin Polling => Cardinality(Polling \cup {k}) = Cardinality(Polling) + 1
        /\ k \in Polling => Cardinality(Polling) = Cardinality(Polling \ {k}) + 1
        /\ Cardinality(Polling \ {k}) \in Nat
    BY <1>4, OneMore
  <1>6. k \in Polling <=> OnItsWay(poll[k].phase)
    BY DEF Polling
  <1>7. Polling' = IF OnItsWay(p.phase) THEN Polling \cup {k} ELSE Polling \ {k}
    BY <1>2 DEF Polling
  <1>8. /\ pending.get = Cardinality(Polling) + Cardinality(Asking("get"))
        /\ pending.store = Cardinality(Asking("store"))
    BY DEF CountsOK
  <1>9. OnItsWay(poll[k].phase) /\ OnItsWay(p.phase) /\ UNCHANGED pending => CountsOK'
    <2>1. k \in Polling => Polling \cup {k} = Polling
      OBVIOUS
    <2> QED BY <1>4, <1>6, <1>7, <1>8, <2>1 DEF CountsOK
  <1>10. OnItsWay(poll[k].phase) /\ ~OnItsWay(p.phase) =>
              /\ pending["get"] >= 1
              /\ pending'.get = pending.get - 1 /\ pending'.store = pending.store => CountsOK'
    <2> SUFFICES ASSUME OnItsWay(poll[k].phase), ~OnItsWay(p.phase)
                 PROVE  /\ pending["get"] >= 1
                        /\ pending'.get = pending.get - 1 /\ pending'.store = pending.store => CountsOK'
      OBVIOUS
    <2>1. Polling' = Polling \ {k} /\ Cardinality(Polling) = Cardinality(Polling \ {k}) + 1
      BY <1>5, <1>6, <1>7
    <2> QED BY <1>4, <1>5, <1>8, <2>1 DEF CountsOK
  <1>11. ~OnItsWay(poll[k].phase) /\ OnItsWay(p.phase) =>
              (pending'.get = pending.get + 1 /\ pending'.store = pending.store => CountsOK')
    <2> SUFFICES ASSUME ~OnItsWay(poll[k].phase), OnItsWay(p.phase),
                        pending'.get = pending.get + 1, pending'.store = pending.store
                 PROVE  CountsOK'
      OBVIOUS
    <2>1. Polling' = Polling \cup {k} /\ Cardinality(Polling \cup {k}) = Cardinality(Polling) + 1
      BY <1>5, <1>6, <1>7
    <2> QED BY <1>4, <1>5, <1>8, <2>1 DEF CountsOK
  <1> QED BY <1>2, <1>3, <1>9, <1>10, <1>11

\* What a poll does to its cache item keeps it one.
LEMMA ItemSteps ==
  ASSUME NEW i \in Item
  PROVE  /\ Unsubscribed(i) \in Item /\ Rebound(i) \in Item
         /\ \A cas \in Version : Polled(i, cas) \in Item
         /\ Unsubscribed(i).cached = i.cached /\ Rebound(i).cached = i.cached
         /\ \A cas : /\ Polled(i, cas).cached = i.cached /\ Polled(i, cas).timer = TRUE
                     /\ Polled(i, cas).fetching = FALSE /\ Polled(i, cas).cas = cas
  <1>1. /\ i.new \in [Sessions -> Request] /\ i.old \in [Sessions -> Request]
        /\ i.chg \in [Sessions -> Seq(Sids)] /\ i.cas \in Version
        /\ Nobody \in Request /\ NoItem.new \in [Sessions -> Request]
        /\ NoItem.unsub \in [Sessions -> Nat] /\ NoItem.chg \in [Sessions -> Seq(Sids)]
    <2>1. NoItem \in Item /\ Nobody \in Request
      BY EmptyStart
    <2>2. PICK e : e = NoItem
      OBVIOUS
    <2>3. /\ e.new \in [Sessions -> Request]
          /\ e.unsub \in [Sessions -> Nat] /\ e.chg \in [Sessions -> Seq(Sids)]
      BY <2>1, <2>2 DEF Item
    <2> QED BY <2>1, <2>2, <2>3 DEF Item
  <1>2. Unsubscribed(i) \in Item /\ Unsubscribed(i).cached = i.cached
    <2>1. PICK new, old, unsub :
            /\ new = [s \in Sessions |-> IF i.unsub[s] > 0 THEN Nobody ELSE i.new[s]]
            /\ old = [s \in Sessions |-> IF i.unsub[s] > (IF i.new[s] = Nobody THEN 0 ELSE 1)
                                         THEN Nobody ELSE i.old[s]]
            /\ unsub = NoItem.unsub
      OBVIOUS
    <2>2. new \in [Sessions -> Request] /\ old \in [Sessions -> Request] /\ unsub \in [Sessions -> Nat]
      BY <1>1, <2>1
    <2>3. Unsubscribed(i) = [i EXCEPT !.new = new, !.old = old, !.unsub = unsub]
      BY <2>1 DEF Unsubscribed
    <2> QED BY <2>2, <2>3 DEF Item
  <1>3. Rebound(i) \in Item /\ Rebound(i).cached = i.cached
    <2>1. PICK new, old, chg :
            /\ new = [s \in Sessions |->
                        IF i.chg[s] # <<>> /\ (i.new[s] # Nobody \/ i.old[s] # Nobody)
                        THEN [mode |-> "subscribe", sid |-> Head(i.chg[s])] ELSE i.new[s]]
            /\ old = [s \in Sessions |->
                        IF (i.chg[s] # <<>> /\ (i.new[s] # Nobody \/ i.old[s] # Nobody))
                           /\ i.new[s] = Nobody
                        THEN Nobody ELSE i.old[s]]
            /\ chg = NoItem.chg
      OBVIOUS
    <2>2. new \in [Sessions -> Request]
      <3> SUFFICES ASSUME NEW s \in Sessions
                   PROVE  new[s] \in Request
        BY <2>1
      <3>1. i.chg[s] # <<>> => Head(i.chg[s]) \in Sids
        BY <1>1, HeadTailProperties
      <3>2. i.new[s] \in Request
        BY <1>1
      <3>3. new[s] = IF i.chg[s] # <<>> /\ (i.new[s] # Nobody \/ i.old[s] # Nobody)
                     THEN [mode |-> "subscribe", sid |-> Head(i.chg[s])] ELSE i.new[s]
        BY <2>1
      <3> QED BY <3>1, <3>2, <3>3 DEF Request
    <2>3. old \in [Sessions -> Request] /\ chg \in [Sessions -> Seq(Sids)]
      BY <1>1, <2>1
    <2>4. Rebound(i) = [i EXCEPT !.new = new, !.old = old, !.chg = chg]
      BY <2>1, Zenon DEF Rebound
    <2> QED BY <2>2, <2>3, <2>4 DEF Item
  <1>4. PICK new, old :
          /\ new = [s \in Sessions |-> IF i.new[s].mode = "single"
                                       THEN [i.new[s] EXCEPT !.mode = "next"] ELSE Nobody]
          /\ old = [s \in Sessions |-> IF i.new[s].mode = "subscribe" THEN i.new[s] ELSE i.old[s]]
    OBVIOUS
  <1>5. new \in [Sessions -> Request] /\ old \in [Sessions -> Request]
    <2>1. \A s \in Sessions : [i.new[s] EXCEPT !.mode = "next"] \in Request
      BY <1>1 DEF Request
    <2> QED BY <1>1, <1>4, <2>1
  <1>6. ASSUME NEW cas \in Version PROVE Polled(i, cas) \in Item
    <2>1. PICK j : j = Polled(i, cas)
      OBVIOUS
    <2>2. j = [i EXCEPT !.new = new, !.old = old, !.fetching = FALSE, !.cas = cas, !.timer = TRUE]
      BY <1>4, <2>1 DEF Polled, Aged
    <2>3. j \in Item
      BY <1>5, <2>2 DEF Item
    <2> QED BY <2>1, <2>3
  <1>7. ASSUME NEW cas
        PROVE  /\ Polled(i, cas).cached = i.cached /\ Polled(i, cas).timer = TRUE
               /\ Polled(i, cas).fetching = FALSE /\ Polled(i, cas).cas = cas
    <2>1. PICK j : j = Polled(i, cas)
      OBVIOUS
    <2>2. j = [i EXCEPT !.new = new, !.old = old, !.fetching = FALSE, !.cas = cas, !.timer = TRUE]
      BY <1>4, <2>1 DEF Polled, Aged
    <2>3. j.cached = i.cached /\ j.timer = TRUE /\ j.fetching = FALSE /\ j.cas = cas
      BY <2>2 DEF Item
    <2> QED BY <2>1, <2>3
  <1> QED BY <1>2, <1>3, <1>6, <1>7

LEMMA ToldType ==
  ASSUME TypeOK, NEW k \in Keys, NEW i, NEW cas \in Version
  PROVE  Told(k, i, cas) \in [Sessions -> Seq(Post)]
  <1> SUFFICES ASSUME NEW s \in Sessions
               PROVE  (inbox[s]
                       \o (IF i.new[s].mode \in {"subscribe", "next"}
                           THEN Post1(s, i.new[s].sid, Page(k, cas)) ELSE <<>>)
                       \o (IF i.old[s] # Nobody /\ cas # i.cas
                           THEN Post1(s, i.old[s].sid, Page(k, cas)) ELSE <<>>)) \in Seq(Post)
    BY DEF Told
  <1>1. PICK p, q :
          /\ p = IF i.new[s].mode \in {"subscribe", "next"}
                 THEN Post1(s, i.new[s].sid, Page(k, cas)) ELSE <<>>
          /\ q = IF i.old[s] # Nobody /\ cas # i.cas
                 THEN Post1(s, i.old[s].sid, Page(k, cas)) ELSE <<>>
    OBVIOUS
  <1>2. p \in Seq(Post) /\ q \in Seq(Post)
    BY <1>1, Posts, EmptySeq
  <1>3. inbox[s] \o p \in Seq(Post)
    BY <1>2, TypeParts, ConcatProperties
  <1>4. (inbox[s] \o p) \o q \in Seq(Post)
    BY <1>2, <1>3, ConcatProperties
  <1> QED BY <1>1, <1>4

LEMMA ErrorsType ==
  ASSUME TypeOK, errors' = errors \/ (MayError /\ errors' = errors - 1)
  PROVE  errors' \in 0..MaxErrors
  <1>1. errors \in Nat /\ errors <= MaxErrors /\ MaxErrors \in Nat
    BY GetAndSubscribeAssumption DEF TypeOK
  <1> QED BY <1>1 DEF MayError

LEMMA PollTypes ==
  ASSUME TypeInv, UNCHANGED <<doc, direct, wire, gui, crossed, asked>>, PollsOK',
         item' \in [Keys -> Item], poll' \in [Keys -> Poll], inbox' \in [Sessions -> Seq(Post)],
         pending' \in [get: Nat, store: Nat], errors' \in 0..MaxErrors, missed' \subseteq Keys,
         server' \in {"running", "stopping", "finished", "joined"}
  PROVE  TypeInv'
  <1>1. TypeOK'
    BY Parts DEF TypeOK
  <1>2. MessagesOK'
    <2>1. \A m : Known(m)' = Known(m)
      BY DEF Known
    <2> QED BY <2>1, Parts DEF MessagesOK
  <1>3. RoomOK'
    BY Parts DEF RoomOK, StoresIn, StoresTaken
  <1> QED BY <1>1, <1>2, <1>3 DEF TypeInv

LEMMA OnlyThisItem ==
  ASSUME OnePollPerItem, NEW k \in Keys, missed \subseteq missed',
         \A q \in Keys : q # k => item'[q] = item[q] /\ poll'[q] = poll[q],
         ~(item'[k].timer /\ poll'[k].phase # "none"),
         item'[k].timer \/ poll'[k].phase # "none" => item'[k].cached,
         item'[k].cached => item'[k].timer \/ poll'[k].phase # "none" \/ k \in missed',
         item'[k].cached /\ ~item'[k].fetching => item'[k].cas > 0 /\ poll'[k].phase = "none"
  PROVE  OnePollPerItem'
  <1> SUFFICES ASSUME NEW q \in Keys
               PROVE
    /\ ~(item'[q].timer /\ poll'[q].phase # "none")
    /\ item'[q].timer \/ poll'[q].phase # "none" => item'[q].cached
    /\ item'[q].cached => item'[q].timer \/ poll'[q].phase # "none" \/ q \in missed'
    /\ item'[q].cached /\ ~item'[q].fetching => item'[q].cas > 0 /\ poll'[q].phase = "none"
    BY DEF OnePollPerItem
  <1>1. CASE q = k
    BY <1>1
  <1>2. CASE q # k
    <2>1. item'[q] = item[q] /\ poll'[q] = poll[q]
      BY <1>2
    <2> QED BY <2>1 DEF OnePollPerItem
  <1> QED BY <1>1, <1>2

LEMMA PollStepCounts ==
  ASSUME CountInv, NEW k \in Keys, PollStep(k)
  PROVE  CountInv'
  <1>1. TypeInv /\ CountsOK /\ OnePollPerItem /\ TypeOK
    BY Parts DEF CountInv
  <1>2. /\ item \in [Keys -> Item] /\ poll \in [Keys -> Poll] /\ doc \in [Keys -> Version]
        /\ inbox \in [Sessions -> Seq(Post)] /\ pending \in [get: Nat, store: Nat]
        /\ server \in {"running", "stopping", "finished", "joined"} /\ missed \subseteq Keys
        /\ errors \in 0..MaxErrors /\ PollsOK
    BY <1>1, Parts DEF TypeOK
  <1>3. PICK i, p : i = item[k] /\ p = poll[k]
    OBVIOUS
  <1>4. /\ i \in Item /\ p \in Poll
        /\ p.phase # "none" => p.by \in Sessions
        /\ ~(i.timer /\ p.phase # "none") /\ (i.timer \/ p.phase # "none" => i.cached)
        /\ i.cached => i.timer \/ p.phase # "none" \/ k \in missed
        /\ i.cached /\ ~i.fetching => i.cas > 0 /\ p.phase = "none"
    BY <1>1, <1>2, <1>3 DEF PollsOK, OnePollPerItem
  <1>5. UNCHANGED <<doc, direct, wire, gui, crossed, asked>>
    <2>1. ASSUME PollingTimeout(k) PROVE UNCHANGED <<doc, direct, wire, gui, crossed, asked>>
      BY <2>1, Zenon DEF PollingTimeout, hist
    <2>2. ASSUME \/ AnswerPoll(k) \/ PollFound(k) \/ PollNotFound(k) \/ PollError(k)
                 \/ backoffPoll(k) \/ retryPoll(k)
          PROVE  UNCHANGED <<doc, direct, wire, gui, crossed, asked>>
      BY <2>2 DEF AnswerPoll, PollFound, PollNotFound, PollError, backoffPoll, retryPoll, hist
    <2> QED BY <2>1, <2>2 DEF PollStep
  <1>6. NoPoll \in Poll /\ NoPoll.phase = "none" /\ ~OnItsWay(NoPoll.phase)
    BY EmptyStart DEF OnItsWay
  \* What ends or waits.
  <1>7. ASSUME NEW np \in Poll, poll' = [poll EXCEPT ![k] = np], Got("get"), OnItsWay(p.phase),
               ~OnItsWay(np.phase), np.phase # "none" => np.by \in Sessions
        PROVE  /\ poll' \in [Keys -> Poll] /\ PollsOK' /\ poll'[k] = np /\ CountsOK'
               /\ \A q \in Keys : q # k => poll'[q] = poll[q]
               /\ pending' \in [get: Nat, store: Nat]
               /\ server' \in {"running", "stopping", "finished", "joined"}
    <2>1. /\ poll' \in [Keys -> Poll] /\ PollsOK' /\ poll'[k] = np
          /\ \A q \in Keys : q # k => poll'[q] = poll[q]
          /\ pending["get"] >= 1
          /\ pending'.get = pending.get - 1 /\ pending'.store = pending.store => CountsOK'
      BY <1>1, <1>3, <1>5, <1>7, PollChanges
    <2>2. /\ pending' \in [get: Nat, store: Nat]
          /\ pending'.get = pending.get - 1 /\ pending'.store = pending.store
          /\ server' \in {"running", "stopping", "finished", "joined"}
      BY <1>1, <1>7, <2>1, GotType
    <2> QED BY <2>1, <2>2
  \* What begins.
  <1>8. ASSUME NEW np \in Poll, poll' = [poll EXCEPT ![k] = np], ~OnItsWay(p.phase),
               OnItsWay(np.phase), np.by \in Sessions, pending' = [pending EXCEPT !.get = @ + 1]
        PROVE  /\ poll' \in [Keys -> Poll] /\ PollsOK' /\ poll'[k] = np /\ CountsOK'
               /\ \A q \in Keys : q # k => poll'[q] = poll[q]
               /\ pending' \in [get: Nat, store: Nat]
    <2>1. PICK n : n = pending.get + 1
      OBVIOUS
    <2>2. n \in Nat /\ pending' = [pending EXCEPT !.get = n]
      BY <1>2, <1>8, <2>1
    <2>3. /\ pending' \in [get: Nat, store: Nat] /\ pending'.get = n /\ pending'.store = pending.store
      BY <1>2, <2>2
    <2> QED BY <1>1, <1>3, <1>5, <1>8, <2>1, <2>3, PollChanges
  <1>9. CASE AnswerPoll(k)
    <2>1. /\ p.phase = "sent" /\ poll' = [poll EXCEPT ![k].phase = "answered", ![k].cas = doc[k]]
          /\ UNCHANGED <<item, pending, server, inbox, errors, missed>>
      BY <1>3, <1>9 DEF AnswerPoll, hist
    <2>2. PICK np : np = [p EXCEPT !.phase = "answered", !.cas = doc[k]]
      OBVIOUS
    <2>3. np \in Poll /\ np.phase = "answered" /\ np.by = p.by
      BY <1>2, <1>4, <2>2 DEF Poll
    <2>4. poll' = [poll EXCEPT ![k] = np]
      BY <1>2, <1>3, <2>1, <2>2
    <2>5. /\ poll' \in [Keys -> Poll] /\ PollsOK' /\ poll'[k] = np /\ CountsOK'
          /\ \A q \in Keys : q # k => poll'[q] = poll[q]
      <3>1. OnItsWay(p.phase) /\ OnItsWay(np.phase) /\ np.by \in Sessions
        BY <1>4, <2>1, <2>3 DEF OnItsWay
      <3> QED BY <1>1, <1>3, <1>5, <2>1, <2>3, <2>4, <3>1, PollChanges
    <2>6. TypeInv'
      BY <1>1, <1>2, <1>5, <2>1, <2>5, PollTypes
    <2>7. OnePollPerItem'
      BY <1>1, <1>3, <1>4, <2>1, <2>3, <2>5, OnlyThisItem
    <2> QED BY <2>5, <2>6, <2>7 DEF CountInv
  <1>10. CASE PollFound(k)
    <2>1. /\ p.phase = "answered" /\ p.cas > 0 /\ poll' = [poll EXCEPT ![k] = NoPoll] /\ Got("get")
          /\ UNCHANGED <<errors, missed>>
      BY <1>3, <1>10 DEF PollFound, hist
    <2>2. PICK j : j = Rebound(Unsubscribed(i))
      OBVIOUS
    <2>3. j \in Item /\ j.cached = i.cached
      BY <1>4, <2>2, ItemSteps
    <2>4. PICK new : new = Polled(j, p.cas)
      OBVIOUS
    <2>5. p.cas \in Version
      BY <1>4 DEF Poll
    <2>6. new \in Item /\ new.cached = i.cached /\ new.timer = TRUE /\ new.fetching = FALSE /\ new.cas = p.cas
      BY <2>3, <2>4, <2>5, ItemSteps
    <2>7. inbox' = Told(k, j, p.cas) /\ item' = [item EXCEPT ![k] = new]
      BY <1>3, <1>10, <2>2, <2>4 DEF PollFound
    <2>8. OnItsWay(p.phase)
      BY <2>1 DEF OnItsWay
    <2>9. /\ poll' \in [Keys -> Poll] /\ PollsOK' /\ poll'[k] = NoPoll /\ CountsOK'
          /\ \A q \in Keys : q # k => poll'[q] = poll[q]
          /\ pending' \in [get: Nat, store: Nat]
          /\ server' \in {"running", "stopping", "finished", "joined"}
      BY <1>6, <1>7, <2>1, <2>8
    <2>10. /\ item' \in [Keys -> Item] /\ item'[k] = new
           /\ \A q \in Keys : q # k => item'[q] = item[q]
      BY <1>2, <2>6, <2>7
    <2>11. TypeInv'
      <3>1. inbox' \in [Sessions -> Seq(Post)]
        BY <1>1, <2>5, <2>7, ToldType
      <3> QED BY <1>1, <1>2, <1>5, <2>1, <2>9, <2>10, <3>1, PollTypes
    <2>12. OnePollPerItem'
      BY <1>1, <1>4, <1>6, <2>1, <2>6, <2>9, <2>10, OnlyThisItem
    <2> QED BY <2>9, <2>11, <2>12 DEF CountInv
  <1>11. CASE PollNotFound(k)
    <2>1. /\ p.phase = "answered" /\ poll' = [poll EXCEPT ![k] = NoPoll] /\ Got("get")
          /\ item' = [item EXCEPT ![k].new[p.by] = Nobody] /\ missed' = missed \cup {k}
          /\ inbox' = [inbox EXCEPT ![p.by] = @ \o Post1(p.by, p.sid, Page(k, 0))]
          /\ UNCHANGED errors
      BY <1>3, <1>11 DEF PollNotFound
    <2>2. PICK nn : nn = [i.new EXCEPT ![p.by] = Nobody]
      OBVIOUS
    <2>3. nn \in [Sessions -> Request] /\ p.by \in Sessions
      <3>1. i.new \in [Sessions -> Request] /\ Nobody \in Request
        BY <1>4, EmptyStart DEF Item
      <3> QED BY <1>4, <2>1, <2>2, <3>1
    <2>4. PICK j : j = [i EXCEPT !.new = nn]
      OBVIOUS
    <2>5. /\ j \in Item /\ j.cached = i.cached /\ j.timer = i.timer /\ j.fetching = i.fetching
      BY <1>4, <2>3, <2>4 DEF Item
    <2>6. item' = [item EXCEPT ![k] = j]
      BY <1>2, <1>3, <1>4, <2>1, <2>2, <2>4 DEF Item
    <2>7. OnItsWay(p.phase)
      BY <2>1 DEF OnItsWay
    <2>8. /\ poll' \in [Keys -> Poll] /\ PollsOK' /\ poll'[k] = NoPoll /\ CountsOK'
          /\ \A q \in Keys : q # k => poll'[q] = poll[q]
          /\ pending' \in [get: Nat, store: Nat]
          /\ server' \in {"running", "stopping", "finished", "joined"}
      BY <1>6, <1>7, <2>1, <2>7
    <2>9. /\ item' \in [Keys -> Item] /\ item'[k] = j
          /\ \A q \in Keys : q # k => item'[q] = item[q]
      BY <1>2, <2>5, <2>6
    <2>10. TypeInv'
      <3>1. PICK s, sid, post : s = p.by /\ sid = p.sid /\ post = Page(k, 0)
        OBVIOUS
      <3>2. inbox' = [inbox EXCEPT ![s] = @ \o Post1(s, sid, post)]
        BY <2>1, <3>1
      <3>3. s \in Sessions /\ post \in Post
        BY <2>3, <3>1, Posts, Bounds
      <3>4. inbox' \in [Sessions -> Seq(Post)]
        BY <1>1, <3>2, <3>3, PostedType
      <3>5. missed' \subseteq Keys
        BY <1>2, <2>1
      <3> QED BY <1>1, <1>2, <1>5, <2>1, <2>8, <2>9, <3>4, <3>5, PollTypes
    <2>11. OnePollPerItem'
      BY <1>1, <1>4, <1>6, <2>1, <2>5, <2>8, <2>9, OnlyThisItem
    <2> QED BY <2>8, <2>10, <2>11 DEF CountInv
  <1>12. CASE PollError(k)
    <2>1. /\ p.phase \in {"sent", "answered"} /\ poll' = [poll EXCEPT ![k] = NoPoll] /\ Got("get")
          /\ MayError /\ errors' = errors - 1 /\ item' = [item EXCEPT ![k].timer = TRUE]
          /\ UNCHANGED <<inbox, missed>>
      BY <1>3, <1>12 DEF PollError, hist
    <2>2. PICK j : j = [i EXCEPT !.timer = TRUE]
      OBVIOUS
    <2>3. j \in Item /\ j.cached = i.cached /\ j.timer = TRUE /\ j.fetching = i.fetching
      BY <1>4, <2>2 DEF Item
    <2>4. item' = [item EXCEPT ![k] = j]
      BY <1>2, <1>3, <2>1, <2>2
    <2>5. OnItsWay(p.phase) /\ p.phase # "none"
      BY <2>1 DEF OnItsWay
    <2>6. /\ poll' \in [Keys -> Poll] /\ PollsOK' /\ poll'[k] = NoPoll /\ CountsOK'
          /\ \A q \in Keys : q # k => poll'[q] = poll[q]
          /\ pending' \in [get: Nat, store: Nat]
          /\ server' \in {"running", "stopping", "finished", "joined"}
      BY <1>6, <1>7, <2>1, <2>5
    <2>7. /\ item' \in [Keys -> Item] /\ item'[k] = j
          /\ \A q \in Keys : q # k => item'[q] = item[q]
      BY <1>2, <2>3, <2>4
    <2>8. TypeInv'
      <3>1. errors' \in 0..MaxErrors
        BY <1>1, <2>1, ErrorsType
      <3> QED BY <1>1, <1>2, <1>5, <2>1, <2>6, <2>7, <3>1, PollTypes
    <2>9. OnePollPerItem'
      BY <1>1, <1>4, <1>6, <2>1, <2>3, <2>5, <2>6, <2>7, OnlyThisItem
    <2> QED BY <2>6, <2>8, <2>9 DEF CountInv
  <1>13. CASE backoffPoll(k)
    <2>1. /\ p.phase = "sent" /\ poll' = [poll EXCEPT ![k].phase = "backoff"] /\ Got("get")
          /\ MayError /\ errors' = errors - 1 /\ UNCHANGED <<item, inbox, missed>>
      BY <1>3, <1>13 DEF backoffPoll, hist
    <2>2. PICK np : np = [p EXCEPT !.phase = "backoff"]
      OBVIOUS
    <2>3. np \in Poll /\ np.phase = "backoff" /\ np.by = p.by
      BY <1>4, <2>2 DEF Poll
    <2>4. poll' = [poll EXCEPT ![k] = np]
      BY <1>2, <1>3, <2>1, <2>2
    <2>5. OnItsWay(p.phase) /\ ~OnItsWay(np.phase) /\ np.by \in Sessions
      BY <1>4, <2>1, <2>3 DEF OnItsWay
    <2>6. /\ poll' \in [Keys -> Poll] /\ PollsOK' /\ poll'[k] = np /\ CountsOK'
          /\ \A q \in Keys : q # k => poll'[q] = poll[q]
          /\ pending' \in [get: Nat, store: Nat]
          /\ server' \in {"running", "stopping", "finished", "joined"}
      BY <1>7, <2>1, <2>3, <2>4, <2>5
    <2>7. TypeInv'
      <3>1. errors' \in 0..MaxErrors
        BY <1>1, <2>1, ErrorsType
      <3> QED BY <1>1, <1>2, <1>5, <2>1, <2>6, <3>1, PollTypes
    <2>8. OnePollPerItem'
      BY <1>1, <1>3, <1>4, <2>1, <2>3, <2>6, OnlyThisItem
    <2> QED BY <2>6, <2>7, <2>8 DEF CountInv
  <1>14. CASE retryPoll(k)
    <2>1. /\ p.phase = "backoff" /\ poll' = [poll EXCEPT ![k].phase = "sent"]
          /\ pending' = [pending EXCEPT !.get = @ + 1]
          /\ UNCHANGED <<item, server, inbox, errors, missed>>
      BY <1>3, <1>14 DEF retryPoll, hist
    <2>2. PICK np : np = [p EXCEPT !.phase = "sent"]
      OBVIOUS
    <2>3. np \in Poll /\ np.phase = "sent" /\ np.by = p.by
      BY <1>4, <2>2 DEF Poll
    <2>4. poll' = [poll EXCEPT ![k] = np]
      BY <1>2, <1>3, <2>1, <2>2
    <2>5. ~OnItsWay(p.phase) /\ OnItsWay(np.phase) /\ np.by \in Sessions
      BY <1>4, <2>1, <2>3 DEF OnItsWay
    <2>6. /\ poll' \in [Keys -> Poll] /\ PollsOK' /\ poll'[k] = np /\ CountsOK'
          /\ \A q \in Keys : q # k => poll'[q] = poll[q]
          /\ pending' \in [get: Nat, store: Nat]
      BY <1>8, <2>1, <2>3, <2>4, <2>5
    <2>7. TypeInv'
      BY <1>1, <1>2, <1>5, <2>1, <2>6, PollTypes
    <2>8. OnePollPerItem'
      BY <1>1, <1>3, <1>4, <2>1, <2>3, <2>6, OnlyThisItem
    <2> QED BY <2>6, <2>7, <2>8 DEF CountInv
  <1>15. CASE PollingTimeout(k)
    <2>1. i.timer /\ UNCHANGED <<server, inbox, errors, missed>>
      BY <1>3, <1>15, Zenon DEF PollingTimeout, hist
    <2>2. PICK subs : subs = IF \E s \in Sessions : i.old[s] # Nobody THEN i.old ELSE i.new
      OBVIOUS
    <2>3. subs \in [Sessions -> Request]
      BY <1>4, <2>2 DEF Item
    <2>4. \/ \E s \in Sessions :
               /\ poll' = [poll EXCEPT ![k] = [NoPoll EXCEPT !.phase = "sent", !.by = s,
                                                             !.sid = subs[s].sid]]
               /\ item' = [item EXCEPT ![k].fetching = TRUE, ![k].timer = FALSE]
               /\ pending' = [pending EXCEPT !.get = @ + 1]
          \/ item' = [item EXCEPT ![k] = NoItem] /\ UNCHANGED <<poll, pending>>
      BY <1>3, <1>15, <2>2, Zenon DEF PollingTimeout
    <2>5. ASSUME NEW s \in Sessions,
                 poll' = [poll EXCEPT ![k] = [NoPoll EXCEPT !.phase = "sent", !.by = s,
                                                            !.sid = subs[s].sid]],
                 item' = [item EXCEPT ![k].fetching = TRUE, ![k].timer = FALSE],
                 pending' = [pending EXCEPT !.get = @ + 1]
          PROVE  CountInv'
      <3>1. PICK e : e = NoPoll /\ e \in Poll
        BY <1>6
      <3>2. PICK np : np = [e EXCEPT !.phase = "sent", !.by = s, !.sid = subs[s].sid]
        OBVIOUS
      <3>3. np \in Poll /\ np.phase = "sent" /\ np.by = s
        BY <2>3, <3>1, <3>2 DEF Poll, Request
      <3>4. poll' = [poll EXCEPT ![k] = np]
        BY <2>5, <3>1, <3>2
      <3>5. ~OnItsWay(p.phase) /\ OnItsWay(np.phase) /\ np.by \in Sessions
        BY <1>4, <2>1, <3>3 DEF OnItsWay
      <3>6. /\ poll' \in [Keys -> Poll] /\ PollsOK' /\ poll'[k] = np /\ CountsOK'
            /\ \A q \in Keys : q # k => poll'[q] = poll[q]
            /\ pending' \in [get: Nat, store: Nat]
        BY <1>8, <2>5, <3>3, <3>4, <3>5
      <3>7. PICK j : j = [i EXCEPT !.fetching = TRUE, !.timer = FALSE]
        OBVIOUS
      <3>8. j \in Item /\ j.cached = i.cached /\ j.timer = FALSE /\ j.fetching = TRUE
        BY <1>4, <3>7 DEF Item
      <3>9. item' = [item EXCEPT ![k] = j]
        BY <1>2, <1>3, <2>5, <3>7
      <3>10. /\ item' \in [Keys -> Item] /\ item'[k] = j
             /\ \A q \in Keys : q # k => item'[q] = item[q]
        BY <1>2, <3>8, <3>9
      <3>11. TypeInv'
        BY <1>1, <1>2, <1>5, <2>1, <3>6, <3>10, PollTypes
      <3>12. OnePollPerItem'
        BY <1>1, <1>4, <2>1, <3>3, <3>6, <3>8, <3>10, OnlyThisItem
      <3> QED BY <3>6, <3>11, <3>12 DEF CountInv
    <2>6. ASSUME item' = [item EXCEPT ![k] = NoItem], UNCHANGED <<poll, pending>>
          PROVE  CountInv'
      <3>1. /\ item' \in [Keys -> Item] /\ item'[k] = NoItem
            /\ \A q \in Keys : q # k => item'[q] = item[q]
        BY <1>2, <2>6, EmptyStart
      <3>2. PollsOK' /\ CountsOK'
        BY <1>1, <1>2, <1>5, <2>6 DEF PollsOK, CountsOK, Polling, Asking
      <3>3. TypeInv'
        BY <1>1, <1>2, <1>5, <2>1, <2>6, <3>1, <3>2, PollTypes
      <3>4. OnePollPerItem'
        BY <1>1, <1>3, <1>4, <2>1, <2>6, <3>1, EmptyStart, OnlyThisItem
      <3> QED BY <3>2, <3>3, <3>4 DEF CountInv
    <2> QED BY <2>4, <2>5, <2>6, Zenon
  <1> QED BY <1>9, <1>10, <1>11, <1>12, <1>13, <1>14, <1>15 DEF PollStep

\* A message is taken from the queues.
LEMMA TakenParts ==
  ASSUME TypeInv, NEW m \in wire, Taken(m)
  PROVE  /\ m \in Message /\ m.from \in Sessions /\ m.key \in Keys /\ m.sid \in Nat
         /\ m.cas \in Version /\ m.n \in Nat
         /\ wire' = wire \ {m} /\ wire' \subseteq Message
         /\ crossed' \subseteq Sessions \X Keys /\ crossed \subseteq crossed'
         /\ UNCHANGED <<doc, gui, errors, missed, asked>>
  <1>1. /\ m \in Message /\ m.from \in Sessions /\ m.key \in Keys /\ m.sid \in Nat
        /\ m.cas \in Version /\ m.n \in Nat
    BY Parts DEF Message, Sids
  <1>2. wire' = wire \ {m} /\ UNCHANGED <<doc, gui, errors, missed, asked>>
    BY DEF Taken
  <1>3. crossed' = IF Overtakes(m) THEN crossed \cup {<<m.from, m.key>>} ELSE crossed
    BY DEF Taken
  <1>4. crossed \subseteq Sessions \X Keys
    BY Parts DEF TypeOK
  <1>5. crossed' \subseteq Sessions \X Keys /\ crossed \subseteq crossed'
    BY <1>1, <1>3, <1>4
  <1>6. wire' \subseteq Message
    BY <1>2, Parts
  <1> QED BY <1>1, <1>2, <1>5, <1>6

LEMMA TakenTypes ==
  ASSUME TypeInv, NEW m \in wire, Taken(m), UNCHANGED direct, PollsOK',
         item' \in [Keys -> Item], poll' \in [Keys -> Poll], inbox' \in [Sessions -> Seq(Post)],
         pending' \in [get: Nat, store: Nat],
         server' \in {"running", "stopping", "finished", "joined"}
  PROVE  TypeInv' /\ \A kind : Asking(kind)' = Asking(kind)
  <1>1. /\ wire' = wire \ {m} /\ wire' \subseteq Message /\ crossed' \subseteq Sessions \X Keys
        /\ UNCHANGED <<doc, gui, errors, missed, asked>>
    BY TakenParts
  <1>2. TypeOK'
    BY <1>1, Parts DEF TypeOK
  <1>3. MessagesOK'
    <2>1. IsFiniteSet(direct')
      BY Parts
    <2>2. \A e1, e2 \in direct' : e1.msg = e2.msg => e1 = e2
      BY Parts, SameMessage
    <2> QED BY <1>1, <2>1, <2>2, MessagesStay
  <1>4. \A k \in Keys : StoresIn(k)' \subseteq StoresIn(k) /\ StoresTaken(k)' = StoresTaken(k)
    BY <1>1 DEF StoresIn, StoresTaken
  <1>5. RoomOK'
    BY <1>1, <1>4, RoomStays DEF RoomOK
  <1>6. \A kind : Asking(kind)' = Asking(kind)
    BY DEF Asking
  <1> QED BY <1>2, <1>3, <1>5, <1>6 DEF TypeInv

\* It becomes a request of the database.
LEMMA TakenRequest ==
  ASSUME TypeInv, CountsOK, NEW m \in wire, Taken(m), m.mode \in {"single", "store"},
         direct' = direct \cup {[msg |-> m, phase |-> "sent", cas |-> 0]},
         pending' = [pending EXCEPT ![Kind(m)] = @ + 1], UNCHANGED <<item, poll, server, inbox>>
  PROVE  TypeInv' /\ CountsOK'
  <1>1. /\ m \in Message /\ wire' = wire \ {m} /\ wire' \subseteq Message
        /\ crossed' \subseteq Sessions \X Keys /\ UNCHANGED <<doc, gui, errors, missed, asked>>
    BY TakenParts
  <1>2. PICK e, kind : e = [msg |-> m, phase |-> "sent", cas |-> 0]
                       /\ kind = Kind(m) /\ kind \in {"get", "store"}
    BY DEF Kind
  <1>3. e \in Direct /\ e.msg = m /\ OnItsWay(e.phase) /\ e.phase # "answered"
    BY <1>1, <1>2, Bounds DEF Direct, OnItsWay
  <1>4. direct' = direct \cup {e} /\ e \notin direct /\ IsFiniteSet(direct) /\ direct \subseteq Direct
    BY <1>2, <1>3, Parts, SameMessage
  <1>5. MessagesOK'
    <2>1. IsFiniteSet(direct')
      BY <1>4, OneMore
    <2>2. \A x \in direct' : \/ \E d \in direct : d.msg = x.msg
                             \/ x.msg \in wire \ wire' /\ x.msg.mode \in {"single", "store"}
      BY <1>1, <1>3, <1>4
    <2>3. \A e1, e2 \in direct' : e1.msg = e2.msg => e1 = e2
      BY <1>3, <1>4, Parts, SameMessage
    <2> QED BY <1>1, <2>1, <2>2, <2>3, MessagesStay
  <1>6. \A x \in {"get", "store"} :
          /\ IsFiniteSet(Asking(x)) /\ Cardinality(Asking(x)) \in Nat
          /\ x # kind => Asking(x)' = Asking(x)
          /\ x = kind => Cardinality(Asking(x)') = Cardinality(Asking(x)) + 1
    <2> SUFFICES ASSUME NEW x \in {"get", "store"}
                 PROVE  /\ IsFiniteSet(Asking(x)) /\ Cardinality(Asking(x)) \in Nat
                        /\ x # kind => Asking(x)' = Asking(x)
                        /\ x = kind => Cardinality(Asking(x)') = Cardinality(Asking(x)) + 1
      OBVIOUS
    <2>1. IsFiniteSet(Asking(x)) /\ Cardinality(Asking(x)) \in Nat
      BY Parts, FiniteParts
    <2>2. x # kind => Asking(x)' = Asking(x)
      BY <1>2, <1>3, <1>4 DEF Asking
    <2>3. x = kind => Asking(x)' = Asking(x) \cup {e} /\ e \notin Asking(x)
      BY <1>2, <1>3, <1>4 DEF Asking
    <2> QED BY <2>1, <2>2, <2>3, OneMore
  <1>7. /\ pending' \in [get: Nat, store: Nat]
        /\ kind = "get" => pending'.get = pending.get + 1 /\ pending'.store = pending.store
        /\ kind = "store" => pending'.store = pending.store + 1 /\ pending'.get = pending.get
    <2>1. pending \in [get: Nat, store: Nat]
      BY Parts DEF TypeOK
    <2>2. PICK i : i = pending[kind] + 1
      OBVIOUS
    <2>3. i \in Nat /\ pending' = [pending EXCEPT ![kind] = i]
      BY <1>2, <2>1, <2>2
    <2> QED BY <1>2, <2>1, <2>2, <2>3
  <1>8. CountsOK'
    <2>1. Polling' = Polling /\ Cardinality(Polling) \in Nat
      BY FS_CardinalityType DEF Polling, CountsOK
    <2> QED BY <1>2, <1>6, <1>7, <2>1 DEF CountsOK
  <1>9. RoomOK'
    <2> SUFFICES ASSUME NEW k \in Keys
                 PROVE  doc'[k] + Cardinality(StoresIn(k)') + Cardinality(StoresTaken(k)') <= MaxVersion
      BY DEF RoomOK
    <2>1. CASE m.mode = "store" /\ m.key = k
      <3>1. StoresIn(k)' = StoresIn(k) \ {m} /\ m \in StoresIn(k)
        BY <1>1, <2>1 DEF StoresIn
      <3>2. StoresTaken(k)' = StoresTaken(k) \cup {e} /\ e \notin StoresTaken(k)
        BY <1>3, <1>4, <2>1 DEF StoresTaken
      <3>3. IsFiniteSet(StoresIn(k)) /\ IsFiniteSet(StoresTaken(k))
        BY Parts, FiniteParts
      <3>4. /\ Cardinality(StoresIn(k)) = Cardinality(StoresIn(k)') + 1
            /\ Cardinality(StoresIn(k)') \in Nat
        BY <3>1, <3>3, OneMore
      <3>5. /\ Cardinality(StoresTaken(k)') = Cardinality(StoresTaken(k)) + 1
            /\ Cardinality(StoresTaken(k)) \in Nat
        BY <3>2, <3>3, OneMore
      <3>6. doc[k] + Cardinality(StoresIn(k)) + Cardinality(StoresTaken(k)) <= MaxVersion
        BY Parts DEF RoomOK
      <3> QED BY <1>1, <3>4, <3>5, <3>6, Parts, Bounds
    <2>2. CASE ~(m.mode = "store" /\ m.key = k)
      <3>1. StoresIn(k)' \subseteq StoresIn(k) /\ StoresTaken(k)' = StoresTaken(k)
        BY <1>1, <1>3, <1>4, <2>2 DEF StoresIn, StoresTaken
      <3> QED BY <1>1, <3>1, RoomStays
    <2> QED BY <2>1, <2>2
  <1>10. TypeOK'
    BY <1>1, <1>3, <1>4, <1>7, Parts DEF TypeOK
  <1>11. PollsOK'
    BY Parts DEF PollsOK
  <1> QED BY <1>5, <1>8, <1>9, <1>10, <1>11 DEF TypeInv

LEMMA TakeCounts ==
  ASSUME CountInv, NEW m \in wire, Take(m)
  PROVE  CountInv'
  <1>1. TypeInv /\ CountsOK /\ OnePollPerItem /\ TypeOK
    BY Parts DEF CountInv
  <1>2. Taken(m)
    BY DEF Take, Discard, TakeUnsubscribe, TakeChangeSessionId, TakeSubscribe, TakeSingle,
           TakeStore, Took
  <1>3. /\ m \in Message /\ m.from \in Sessions /\ m.key \in Keys /\ m.sid \in Nat
        /\ wire' = wire \ {m} /\ UNCHANGED <<doc, gui, errors, missed, asked>>
    BY <1>1, <1>2, TakenParts
  <1>4. /\ item \in [Keys -> Item] /\ poll \in [Keys -> Poll]
        /\ inbox \in [Sessions -> Seq(Post)] /\ pending \in [get: Nat, store: Nat]
        /\ server \in {"running", "stopping", "finished", "joined"} /\ PollsOK
    BY <1>1, Parts DEF TypeOK
  <1>5. PICK i, k, s : i = item[m.key] /\ k = m.key /\ s = m.from
    OBVIOUS
  <1>6. i \in Item /\ k \in Keys /\ s \in Sessions
    BY <1>3, <1>4, <1>5
  \* Nothing but the subscriptions of the item changes.
  <1>7. ASSUME NEW j \in Item, item' = [item EXCEPT ![k] = j],
               j.cached = i.cached, j.fetching = i.fetching, j.cas = i.cas, j.timer = i.timer,
               inbox' \in [Sessions -> Seq(Post)], UNCHANGED <<poll, direct, pending, server>>
        PROVE  CountInv'
    <2>1. item' \in [Keys -> Item] /\ item'[k] = j /\ \A q \in Keys : q # k => item'[q] = item[q]
      BY <1>4, <1>6, <1>7
    <2>2. PollsOK'
      BY <1>4, <1>7 DEF PollsOK
    <2>3. TypeInv' /\ \A kind : Asking(kind)' = Asking(kind)
      BY <1>1, <1>2, <1>4, <1>7, <2>1, <2>2, TakenTypes
    <2>4. CountsOK'
      BY <1>1, <1>7, <2>3 DEF CountsOK, Polling
    <2>5. OnePollPerItem'
      <3>1. /\ ~(i.timer /\ poll[k].phase # "none")
            /\ i.timer \/ poll[k].phase # "none" => i.cached
            /\ i.cached => i.timer \/ poll[k].phase # "none" \/ k \in missed
            /\ i.cached /\ ~i.fetching => i.cas > 0 /\ poll[k].phase = "none"
        BY <1>1, <1>5, <1>6 DEF OnePollPerItem
      <3> QED BY <1>1, <1>3, <1>6, <1>7, <2>1, <3>1, OnlyThisItem
    <2> QED BY <2>3, <2>4, <2>5 DEF CountInv
  <1>8. ASSUME UNCHANGED <<item, poll, direct, pending, server, inbox>> PROVE CountInv'
    <2>1. TypeInv' /\ \A kind : Asking(kind)' = Asking(kind)
      BY <1>1, <1>2, <1>4, <1>8, TakenTypes DEF PollsOK
    <2> QED BY <1>1, <1>3, <1>8, <2>1 DEF CountInv, CountsOK, Polling, OnePollPerItem
  <1>9. CASE Discard(m)
    BY <1>8, <1>9 DEF Discard, backend
  <1>10. CASE TakeUnsubscribe(m)
    <2>1. /\ item' = IF i.cached THEN [item EXCEPT ![k].unsub[s] = @ + 1] ELSE item
          /\ UNCHANGED <<poll, direct, pending, server, inbox>>
      BY <1>5, <1>10 DEF TakeUnsubscribe
    <2>2. CASE i.cached
      <3>1. i.unsub \in [Sessions -> Nat]
        BY <1>6 DEF Item
      <3>2. PICK u : u = [i.unsub EXCEPT ![s] = @ + 1]
        OBVIOUS
      <3>3. u \in [Sessions -> Nat]
        BY <1>6, <3>1, <3>2
      <3>4. PICK j : j = [i EXCEPT !.unsub = u]
        OBVIOUS
      <3>5. /\ j \in Item /\ j.cached = i.cached /\ j.fetching = i.fetching /\ j.cas = i.cas
            /\ j.timer = i.timer
        BY <1>6, <3>3, <3>4 DEF Item
      <3>6. item' = [item EXCEPT ![k] = j]
        BY <1>4, <1>5, <1>6, <2>1, <2>2, <3>2, <3>4 DEF Item
      <3> QED BY <1>4, <1>7, <2>1, <3>5, <3>6
    <2>3. CASE ~i.cached
      BY <1>8, <2>1, <2>3
    <2> QED BY <2>2, <2>3
  <1>11. CASE TakeChangeSessionId(m)
    <2>1. /\ item' = IF i.cached THEN [item EXCEPT ![k].chg[s] = Append(@, m.sid)] ELSE item
          /\ UNCHANGED <<poll, direct, pending, server, inbox>>
      BY <1>5, <1>11 DEF TakeChangeSessionId
    <2>2. CASE i.cached
      <3>1. i.chg \in [Sessions -> Seq(Sids)]
        BY <1>6 DEF Item
      <3>2. PICK a : a = Append(i.chg[s], m.sid)
        OBVIOUS
      <3>3. a \in Seq(Sids)
        BY <1>3, <1>6, <3>1, <3>2, AppendProperties DEF Sids
      <3>4. PICK u : u = [i.chg EXCEPT ![s] = a]
        OBVIOUS
      <3>5. u \in [Sessions -> Seq(Sids)]
        BY <1>6, <3>1, <3>3, <3>4
      <3>6. PICK j : j = [i EXCEPT !.chg = u]
        OBVIOUS
      <3>7. /\ j \in Item /\ j.cached = i.cached /\ j.fetching = i.fetching /\ j.cas = i.cas
            /\ j.timer = i.timer
        BY <1>6, <3>5, <3>6 DEF Item
      <3>8. item' = [item EXCEPT ![k] = j]
        BY <1>4, <1>5, <1>6, <2>1, <2>2, <3>2, <3>4, <3>6 DEF Item
      <3> QED BY <1>4, <1>7, <2>1, <3>7, <3>8
    <2>3. CASE ~i.cached
      BY <1>8, <2>1, <2>3
    <2> QED BY <2>2, <2>3
  <1>12. CASE TakeSubscribe(m)
    <2>1. PICK r : r = [mode |-> "subscribe", sid |-> m.sid]
      OBVIOUS
    <2>2. r \in Request /\ i.new \in [Sessions -> Request] /\ i.old \in [Sessions -> Request]
      BY <1>3, <1>6, <2>1 DEF Request, Sids, Item
    <2>3. UNCHANGED <<direct, server>>
      BY <1>12 DEF TakeSubscribe
    <2>4. \/ /\ i.cached /\ ~i.fetching /\ item' = [item EXCEPT ![k].old[s] = r]
             /\ inbox' = [inbox EXCEPT ![s] = @ \o Post1(s, m.sid, Page(k, i.cas))]
             /\ UNCHANGED <<poll, pending>>
          \/ /\ i.cached /\ i.fetching /\ item' = [item EXCEPT ![k].new[s] = r]
             /\ UNCHANGED <<poll, pending, inbox>>
          \/ /\ ~i.cached
             /\ item' = [item EXCEPT ![k] =
                          [NoItem EXCEPT !.cached = TRUE, !.fetching = TRUE, !.new[s] = r]]
             /\ poll' = [poll EXCEPT ![k] =
                          [NoPoll EXCEPT !.phase = "sent", !.by = s, !.sid = m.sid]]
             /\ pending' = [pending EXCEPT !.get = @ + 1] /\ UNCHANGED inbox
      BY <1>5, <1>12, <2>1, Zenon DEF TakeSubscribe
    <2>5. ASSUME item' = [item EXCEPT ![k].old[s] = r],
                 inbox' = [inbox EXCEPT ![s] = @ \o Post1(s, m.sid, Page(k, i.cas))],
                 UNCHANGED <<poll, pending>>
          PROVE  CountInv'
      <3>1. PICK u : u = [i.old EXCEPT ![s] = r]
        OBVIOUS
      <3>2. u \in [Sessions -> Request]
        BY <1>6, <2>2, <3>1
      <3>3. PICK j : j = [i EXCEPT !.old = u]
        OBVIOUS
      <3>4. /\ j \in Item /\ j.cached = i.cached /\ j.fetching = i.fetching /\ j.cas = i.cas
            /\ j.timer = i.timer
        BY <1>6, <3>2, <3>3 DEF Item
      <3>5. item' = [item EXCEPT ![k] = j]
        BY <1>4, <1>5, <1>6, <2>5, <3>1, <3>3 DEF Item
      <3>6. inbox' \in [Sessions -> Seq(Post)]
        <4>1. PICK p, sid : p = Page(k, i.cas) /\ sid = m.sid
          OBVIOUS
        <4>2. p \in Post
          BY <1>6, <4>1, Posts DEF Item
        <4>3. inbox' = [inbox EXCEPT ![s] = @ \o Post1(s, sid, p)]
          BY <2>5, <4>1
        <4> QED BY <1>1, <1>6, <4>2, <4>3, PostedType
      <3> QED BY <1>7, <2>3, <2>5, <3>4, <3>5, <3>6
    <2>6. ASSUME item' = [item EXCEPT ![k].new[s] = r], UNCHANGED <<poll, pending, inbox>>
          PROVE  CountInv'
      <3>1. PICK u : u = [i.new EXCEPT ![s] = r]
        OBVIOUS
      <3>2. u \in [Sessions -> Request]
        BY <1>6, <2>2, <3>1
      <3>3. PICK j : j = [i EXCEPT !.new = u]
        OBVIOUS
      <3>4. /\ j \in Item /\ j.cached = i.cached /\ j.fetching = i.fetching /\ j.cas = i.cas
            /\ j.timer = i.timer
        BY <1>6, <3>2, <3>3 DEF Item
      <3>5. item' = [item EXCEPT ![k] = j]
        BY <1>4, <1>5, <1>6, <2>6, <3>1, <3>3 DEF Item
      <3> QED BY <1>4, <1>7, <2>3, <2>6, <3>4, <3>5
    <2>7. ASSUME ~i.cached,
                 item' = [item EXCEPT ![k] =
                            [NoItem EXCEPT !.cached = TRUE, !.fetching = TRUE, !.new[s] = r]],
                 poll' = [poll EXCEPT ![k] =
                            [NoPoll EXCEPT !.phase = "sent", !.by = s, !.sid = m.sid]],
                 pending' = [pending EXCEPT !.get = @ + 1], UNCHANGED inbox
          PROVE  CountInv'
      <3>1. PICK e : e = NoItem /\ e \in Item /\ e.timer = FALSE
        BY EmptyStart
      <3>2. PICK u : u = [e.new EXCEPT ![s] = r]
        OBVIOUS
      <3>3. u \in [Sessions -> Request]
        BY <1>6, <2>2, <3>1, <3>2 DEF Item
      <3>4. PICK j : j = [e EXCEPT !.cached = TRUE, !.fetching = TRUE, !.new = u]
        OBVIOUS
      <3>5. j \in Item /\ j.cached = TRUE /\ j.fetching = TRUE /\ j.timer = FALSE
        BY <3>1, <3>3, <3>4 DEF Item
      <3>6. item' = [item EXCEPT ![k] = j]
        BY <2>7, <3>1, <3>2, <3>4 DEF Item
      <3>7. item' \in [Keys -> Item] /\ item'[k] = j /\ \A q \in Keys : q # k => item'[q] = item[q]
        BY <1>4, <1>6, <3>5, <3>6
      <3>8. PICK n : n = NoPoll /\ n \in Poll
        BY EmptyStart
      <3>9. PICK np : np = [n EXCEPT !.phase = "sent", !.by = s, !.sid = m.sid]
        OBVIOUS
      <3>10. np \in Poll /\ np.phase = "sent" /\ np.by = s
        BY <1>3, <1>6, <3>8, <3>9 DEF Poll, Sids
      <3>11. poll' = [poll EXCEPT ![k] = np]
        BY <2>7, <3>8, <3>9
      <3>12. poll[k].phase = "none" /\ ~OnItsWay(poll[k].phase) /\ OnItsWay(np.phase)
        BY <1>1, <1>5, <1>6, <2>7, <3>10 DEF OnePollPerItem, OnItsWay
      <3>13. PICK c : c = pending.get + 1
        OBVIOUS
      <3>14. c \in Nat /\ pending' = [pending EXCEPT !.get = c]
        BY <1>4, <2>7, <3>13
      <3>15. pending' \in [get: Nat, store: Nat] /\ pending'.get = c /\ pending'.store = pending.store
        BY <1>4, <3>14
      <3>16. /\ poll' \in [Keys -> Poll] /\ PollsOK' /\ poll'[k] = np /\ CountsOK'
             /\ \A q \in Keys : q # k => poll'[q] = poll[q]
        BY <1>1, <1>6, <2>3, <3>10, <3>11, <3>12, <3>13, <3>15, PollChanges
      <3>17. TypeInv'
        BY <1>1, <1>2, <1>4, <2>3, <2>7, <3>7, <3>15, <3>16, TakenTypes
      <3>18. OnePollPerItem'
        BY <1>1, <1>3, <1>6, <3>5, <3>7, <3>10, <3>16, OnlyThisItem
      <3> QED BY <3>16, <3>17, <3>18 DEF CountInv
    <2> QED BY <2>4, <2>5, <2>6, <2>7, Zenon
  <1>13. CASE TakeSingle(m)
    <2>1. m.mode = "single" /\ UNCHANGED <<poll, server, inbox>>
      BY <1>13 DEF TakeSingle
    <2>2. CASE i.cached
      <3>1. item' = [item EXCEPT ![k].new[s] = AsSingle(m)] /\ UNCHANGED <<direct, pending>>
        BY <1>5, <1>13, <2>2 DEF TakeSingle
      <3>2. PICK r : r = AsSingle(m)
        OBVIOUS
      <3>3. r \in Request /\ i.new \in [Sessions -> Request]
        BY <1>3, <1>6, <3>2 DEF Request, Sids, Item, AsSingle
      <3>4. PICK u : u = [i.new EXCEPT ![s] = r]
        OBVIOUS
      <3>5. u \in [Sessions -> Request]
        BY <1>6, <3>3, <3>4
      <3>6. PICK j : j = [i EXCEPT !.new = u]
        OBVIOUS
      <3>7. /\ j \in Item /\ j.cached = i.cached /\ j.fetching = i.fetching /\ j.cas = i.cas
            /\ j.timer = i.timer
        BY <1>6, <3>5, <3>6 DEF Item
      <3>8. item' = [item EXCEPT ![k] = j]
        BY <1>4, <1>5, <1>6, <3>1, <3>2, <3>4, <3>6 DEF Item
      <3> QED BY <1>4, <1>7, <2>1, <3>1, <3>7, <3>8
    <2>3. CASE ~i.cached
      <3>1. /\ direct' = direct \cup {[msg |-> m, phase |-> "sent", cas |-> 0]}
            /\ pending' = [pending EXCEPT !.get = @ + 1] /\ UNCHANGED item
        BY <1>5, <1>13, <2>3 DEF TakeSingle
      <3>2. Kind(m) = "get"
        BY <2>1 DEF Kind
      <3>3. TypeInv' /\ CountsOK'
        BY <1>1, <1>2, <2>1, <3>1, <3>2, TakenRequest
      <3> QED BY <1>1, <1>3, <2>1, <3>1, <3>3 DEF CountInv, OnePollPerItem
    <2> QED BY <2>2, <2>3
  <1>14. CASE TakeStore(m)
    <2>1. /\ m.mode = "store" /\ UNCHANGED <<item, poll, server, inbox>>
          /\ direct' = direct \cup {[msg |-> m, phase |-> "sent", cas |-> 0]}
          /\ pending' = [pending EXCEPT !.store = @ + 1]
      BY <1>14 DEF TakeStore
    <2>2. Kind(m) = "store"
      BY <2>1 DEF Kind
    <2>3. TypeInv' /\ CountsOK'
      BY <1>1, <1>2, <2>1, <2>2, TakenRequest
    <2> QED BY <1>1, <1>3, <2>1, <2>3 DEF CountInv, OnePollPerItem
  <1> QED BY <1>9, <1>10, <1>11, <1>12, <1>13, <1>14 DEF Take

-----------------------------------------------------------------------------
(* Sessions, and the server's end.                                          *)

LEMMA SessionCounts ==
  ASSUME CountInv, NEW s \in Sessions, SessionStep(s)
  PROVE  CountInv'
  <1>1. TypeInv /\ CountsOK /\ OnePollPerItem /\ TypeOK
    BY Parts DEF CountInv
  <1>2. /\ gui \in [Sessions -> Gui] /\ inbox \in [Sessions -> Seq(Post)]
        /\ asked \in [Sessions -> Version] /\ doc \in [Keys -> Version]
    BY <1>1 DEF TypeOK
  <1>3. PICK e : e = <<>> /\ e \in Seq(Post)
    BY EmptySeq
  <1>4. ASSUME Says(s) PROVE CountInv'
    <2>1. PICK msgs, g : Said(s, msgs, g)
      BY <1>1, <1>4, SaysSaid
    <2>2. UNCHANGED <<doc, item, poll, direct, pending, server, errors, crossed, missed>>
      BY <2>1 DEF Said, backend
    <2>3. inbox' = inbox \/ inbox' = [inbox EXCEPT ![s] = e]
      <3>1. inbox' = inbox \/ inbox' = [inbox EXCEPT ![s] = <<>>]
        BY <1>4, Zenon DEF Says, ShowCampaign, ShowCampaignOnce, StoreDocument, Login, finalize,
                           unsubscribeIfSubscribedToAnything
      <3> QED BY <1>3, <3>1
    <2>4. inbox' \in [Sessions -> Seq(Post)]
      BY <1>2, <1>3, <2>3
    <2>5. asked' = asked \/ \E k \in Keys : asked' = [asked EXCEPT ![s] = doc[k]]
      BY <1>4, Zenon DEF Says, ShowCampaign, ShowCampaignOnce, StoreDocument, Login, finalize,
                         unsubscribeIfSubscribedToAnything, hist
    <2>6. asked' \in [Sessions -> Version]
      BY <1>2, <2>5
    <2>7. TypeInv'
      BY <1>1, <2>1, <2>4, <2>6, SaidType
    <2> QED BY <1>1, <2>2, <2>7 DEF CountInv, CountsOK, Polling, Asking, OnePollPerItem
  <1>5. ASSUME UPDATE(s) \/ storeFinished(s) PROVE CountInv'
    <2>1. UNCHANGED <<doc, item, poll, direct, pending, server, wire, errors, crossed, missed, asked>>
      BY <1>5 DEF UPDATE, storeFinished, backend, hist
    <2>2. inbox[s] \in Seq(Post) /\ inbox[s] # <<>> /\ inbox' = [inbox EXCEPT ![s] = Tail(@)]
      BY <1>2, <1>5 DEF UPDATE, storeFinished
    <2>3. Head(inbox[s]) \in Post /\ Tail(inbox[s]) \in Seq(Post)
      BY <2>2, HeadTailProperties
    <2>4. inbox' \in [Sessions -> Seq(Post)]
      BY <1>2, <2>2, <2>3
    <2>5. PICK g : g = gui[s] /\ g \in Gui
      BY <1>2
    <2>6. \E h \in Gui : h.sent = g.sent /\ h.sid = g.sid /\ gui' = [gui EXCEPT ![s] = h]
      <3>1. CASE UPDATE(s)
        <4>1. CASE g.on = NoKey
          <5>1. gui' = [gui EXCEPT ![s] = g]
            BY <1>2, <2>5, <3>1, <4>1 DEF UPDATE
          <5> QED BY <2>5, <5>1
        <4>2. CASE g.on # NoKey
          <5>1. PICK w, on, waits : /\ w = Remembered(g.shown, Head(inbox[s]).what)
                                    /\ on = IF s \notin Js THEN NoKey ELSE g.on
                                    /\ waits = IF g.waits = "page" THEN "no" ELSE g.waits
            OBVIOUS
          <5>2. w \in Shown /\ on \in Keys \cup {NoKey} /\ waits \in {"no", "page", "store"}
            BY <2>3, <2>5, <5>1 DEF Post, Gui, Remembered
          <5>3. PICK h : h = [g EXCEPT !.shown = w, !.on = on, !.waits = waits]
            OBVIOUS
          <5>4. h \in Gui /\ h.sent = g.sent /\ h.sid = g.sid
            BY <2>5, <5>2, <5>3 DEF Gui
          <5>5. gui' = [gui EXCEPT ![s] = h]
            BY <2>5, <3>1, <4>2, <5>1, <5>3 DEF UPDATE
          <5> QED BY <5>4, <5>5
        <4> QED BY <4>1, <4>2
      <3>2. CASE storeFinished(s)
        <4>1. PICK h : h = [g EXCEPT !.waits = "no"]
          OBVIOUS
        <4>2. h \in Gui /\ h.sent = g.sent /\ h.sid = g.sid
          BY <2>5, <4>1 DEF Gui
        <4>3. gui' = [gui EXCEPT ![s] = h]
          BY <1>2, <2>5, <3>2, <4>1 DEF storeFinished
        <4> QED BY <4>2, <4>3
      <3> QED BY <1>5, <3>1, <3>2
    <2>7. /\ gui' \in [Sessions -> Gui]
          /\ \A q \in Sessions : gui'[q].sent = gui[q].sent /\ gui'[q].sid = gui[q].sid
      BY <1>2, <2>5, <2>6
    <2>8. MessagesOK'
      <3>1. IsFiniteSet(direct') /\ wire' \subseteq wire
        BY <1>1, <2>1, Parts
      <3>2. \A e1, e2 \in direct' : e1.msg = e2.msg => e1 = e2
        BY <1>1, <2>1, Parts, SameMessage
      <3> QED BY <1>1, <2>1, <2>7, <3>1, <3>2, MessagesStay
    <2>9. TypeOK' /\ RoomOK' /\ PollsOK'
      <3>1. TypeOK'
        BY <1>1, <2>1, <2>4, <2>7 DEF TypeOK
      <3> QED BY <1>1, <2>1, <3>1, Parts DEF RoomOK, StoresIn, StoresTaken, PollsOK
    <2> QED BY <1>1, <2>1, <2>8, <2>9
            DEF CountInv, TypeInv, CountsOK, Polling, Asking, OnePollPerItem
  <1> QED BY <1>4, <1>5 DEF SessionStep, Says

LEMMA OtherCounts ==
  ASSUME CountInv,
         \/ \E k \in Keys : OtherStore(k)
         \/ BeginStopping \/ finalCleanupAndJoin \/ UNCHANGED vars
  PROVE  CountInv'
  <1>1. TypeInv /\ CountsOK /\ OnePollPerItem /\ TypeOK
    BY Parts DEF CountInv
  <1>2. /\ UNCHANGED <<item, poll, direct, pending, wire, gui, inbox, errors, crossed, missed, asked>>
        /\ server' \in {server, "finished", "stopping", "joined"}
    BY DEF OtherStore, BeginStopping, finalCleanupAndJoin, vars, backend, hist
  <1>3. MessagesOK' /\ PollsOK' /\ CountsOK' /\ OnePollPerItem'
    BY <1>1, <1>2, Parts DEF MessagesOK, Known, PollsOK, CountsOK, Polling, Asking, OnePollPerItem
  <1>4. ASSUME NEW k \in Keys, OtherStore(k) PROVE doc' \in [Keys -> Version] /\ RoomOK'
    <2>1. doc \in [Keys -> Version] /\ doc[k] \in Nat /\ MaxVersion \in Nat
      BY <1>1, Parts, Bounds DEF TypeOK
    <2>2. PICK S : S = {d \in direct : d.msg.mode = "store" /\ d.msg.key = k}
      OBVIOUS
    <2>3. doc[k] + Cardinality(StoresIn(k)) + Cardinality(S) < MaxVersion
          /\ doc' = [doc EXCEPT ![k] = @ + 1]
      BY <1>4, <2>2 DEF OtherStore, MoreStores, StoresIn
    <2>4. StoresTaken(k) \subseteq S /\ S \subseteq direct
      BY <2>2 DEF StoresTaken
    <2>5. Cardinality(StoresTaken(k)) <= Cardinality(S) /\ Cardinality(S) \in Nat
      BY <1>1, <2>4, Parts, FS_Subset, FS_CardinalityType
    <2>6. Cardinality(StoresIn(k)) \in Nat /\ Cardinality(StoresTaken(k)) \in Nat
      BY <1>1, Parts, FiniteParts
    <2>7. doc'[k] = doc[k] + 1 /\ \A q \in Keys : q # k => doc'[q] = doc[q]
      BY <2>1, <2>3
    <2>8. doc[k] + 1 \in Version
      BY <2>1, <2>3, <2>5, <2>6 DEF Version
    <2>9. doc' \in [Keys -> Version]
      BY <2>1, <2>3, <2>8
    <2>10. \A q \in Keys : StoresIn(q)' = StoresIn(q) /\ StoresTaken(q)' = StoresTaken(q)
      BY <1>2 DEF StoresIn, StoresTaken
    <2>11. \A q \in Keys :
             doc'[q] + Cardinality(StoresIn(q)) + Cardinality(StoresTaken(q)) <= MaxVersion
      <3> SUFFICES ASSUME NEW q \in Keys
                   PROVE  doc'[q] + Cardinality(StoresIn(q)) + Cardinality(StoresTaken(q)) <= MaxVersion
        OBVIOUS
      <3>1. CASE q = k
        BY <2>1, <2>3, <2>5, <2>6, <2>7, <3>1
      <3>2. CASE q # k
        BY <1>1, <2>7, <3>2, Parts DEF RoomOK
      <3> QED BY <3>1, <3>2
    <2>12. RoomOK'
      BY <2>10, <2>11 DEF RoomOK
    <2> QED BY <2>9, <2>12
  <1>5. ASSUME UNCHANGED doc PROVE doc' \in [Keys -> Version] /\ RoomOK'
    BY <1>1, <1>2, <1>5, Parts DEF TypeOK, RoomOK, StoresIn, StoresTaken
  <1>6. doc' \in [Keys -> Version] /\ RoomOK'
    <2>1. (\E k \in Keys : OtherStore(k)) \/ UNCHANGED doc
      BY DEF BeginStopping, finalCleanupAndJoin, vars
    <2> QED BY <1>4, <1>5, <2>1
  <1>7. TypeOK'
    BY <1>1, <1>2, <1>6 DEF TypeOK
  <1> QED BY <1>3, <1>6, <1>7 DEF CountInv, TypeInv

LEMMA CountInit == Init => CountInv
  <1> SUFFICES ASSUME Init PROVE CountInv
    OBVIOUS
  <1>1. /\ item = [k \in Keys |-> NoItem] /\ poll = [k \in Keys |-> NoPoll]
        /\ direct = {} /\ wire = {} /\ doc \in [Keys -> {n \in {0, 1} : n <= MaxVersion}]
        /\ pending = [get |-> 0, store |-> 0]
    BY DEF Init
  <1>2. TypeOK
    <2>1. PICK e : e = <<>> /\ e \in Seq(Post)
      BY EmptySeq
    <2>2. /\ gui \in [Sessions -> Gui] /\ inbox \in [Sessions -> Seq(Post)]
          /\ item \in [Keys -> Item] /\ poll \in [Keys -> Poll]
      BY <2>1, EmptyStart DEF Init
    <2>3. doc \in [Keys -> Version] /\ asked \in [Sessions -> Version]
      <3>1. \A n \in {0, 1} : n <= MaxVersion => n \in Version
        BY Bounds DEF Version
      <3> QED BY <1>1, <3>1, Bounds DEF Init
    <2>4. errors \in 0..MaxErrors /\ pending \in [get: Nat, store: Nat]
      BY GetAndSubscribeAssumption DEF Init
    <2> QED BY <2>2, <2>3, <2>4 DEF Init, TypeOK
  <1>3. IsFiniteSet({}) /\ Cardinality({}) = 0
    BY FS_EmptySet
  <1>4. MessagesOK
    BY <1>1, <1>3 DEF MessagesOK
  <1>5. RoomOK
    <2> SUFFICES ASSUME NEW k \in Keys
                 PROVE  doc[k] + Cardinality(StoresIn(k)) + Cardinality(StoresTaken(k)) <= MaxVersion
      BY DEF RoomOK
    <2>1. StoresIn(k) = {} /\ StoresTaken(k) = {}
      BY <1>1 DEF StoresIn, StoresTaken
    <2>2. doc[k] \in Nat /\ doc[k] <= MaxVersion
      BY <1>1
    <2> QED BY <1>3, <2>1, <2>2, Bounds
  <1>6. PollsOK /\ OnePollPerItem
    <2>1. \A k \in Keys : item[k] = NoItem /\ poll[k] = NoPoll
      BY <1>1
    <2> QED BY <2>1, EmptyStart DEF PollsOK, OnePollPerItem
  <1>7. CountsOK
    <2>1. Polling = {} /\ Asking("get") = {} /\ Asking("store") = {}
      BY <1>1, EmptyStart DEF Polling, Asking, OnItsWay
    <2> QED BY <1>1, <1>3, <2>1 DEF CountsOK
  <1> QED BY <1>2, <1>4, <1>5, <1>6, <1>7 DEF CountInv, TypeInv

\* A step of one of the actors.
LEMMA CountStep ==
  ASSUME CountInv, [Next]_vars
  PROVE  CountInv'
  <1>1. ASSUME NEW s \in Sessions, SessionStep(s) PROVE CountInv'
    BY <1>1, SessionCounts
  <1>2. ASSUME NEW m \in wire, Take(m) PROVE CountInv'
    BY <1>2, TakeCounts
  <1>3. ASSUME NEW k \in Keys, PollStep(k) PROVE CountInv'
    BY <1>3, PollStepCounts
  <1>4. ASSUME NEW d \in direct, DirectStep(d) PROVE CountInv'
    <2>1. TypeInv' /\ CountsOK'
      BY <1>4, DirectStepCounts DEF CountInv
    <2>2. UNCHANGED <<item, poll, missed>>
      BY <1>4 DEF DirectStep, AnswerDirect, DirectAnswered, DirectError, backoffDirect,
                  retryDirect, hist
    <2> QED BY <2>1, <2>2 DEF CountInv, OnePollPerItem
  <1>5. ASSUME \/ \E k \in Keys : OtherStore(k)
               \/ BeginStopping \/ finalCleanupAndJoin \/ UNCHANGED vars
        PROVE  CountInv'
    BY <1>5, OtherCounts
  <1> QED BY <1>1, <1>2, <1>3, <1>4, <1>5, Zenon DEF Next

\* The counts of pending gets and stores are of the requests on their way to the
\* database, whatever becomes of them (decrementPendingGetCount... and
\* ...StoreCount... in each callback); no message is taken twice or lost between
\* its queue and its answer, and no more is stored than there is room for.
THEOREM CountsInvariant == Spec => []CountInv
  <1>1. CountInv /\ [Next]_vars => CountInv'
    BY CountStep
  <1> QED BY <1>1, CountInit, PTL DEF Spec

\* Every variable of the backend and of its sessions stays in its type; the
\* counts of pending requests are never negative.
THEOREM TypeCorrect == Spec => []TypeOK
  <1>1. CountInv => TypeOK
    BY DEF CountInv, TypeInv
  <1> QED BY <1>1, CountsInvariant, PTL

\* A cache item is polled for by one request at a time, and has a running timer
\* or a get on its way unless a poll found no document
\* (m_CacheItemCurrentlyPollingSlots, scheduleGetUpdateForSubscribers...).
THEOREM OnePollForEachItem == Spec => []OnePollPerItem
  <1>1. CountInv => OnePollPerItem
    BY DEF CountInv
  <1> QED BY <1>1, CountsInvariant, PTL

\* When nothing is pending, no request is on its way.
LEMMA NothingOnItsWay ==
  ASSUME CountInv, NothingPending(pending)
  PROVE  /\ \A k \in Keys : poll[k].phase \in {"none", "backoff"}
         /\ \A d \in direct : d.phase = "backoff"
  <1>1. TypeInv /\ CountsOK /\ pending.get = 0 /\ pending.store = 0
    BY DEF CountInv, NothingPending
  <1>2. /\ IsFiniteSet(Polling) /\ Cardinality(Polling) \in Nat
        /\ IsFiniteSet(Asking("get")) /\ Cardinality(Asking("get")) \in Nat
        /\ IsFiniteSet(Asking("store")) /\ Cardinality(Asking("store")) \in Nat
    BY <1>1, Parts, FiniteParts, FS_CardinalityType DEF CountsOK
  <1>3. Cardinality(Polling) = 0 /\ Cardinality(Asking("get")) = 0 /\ Cardinality(Asking("store")) = 0
    BY <1>1, <1>2 DEF CountsOK
  <1>4. Polling = {} /\ Asking("get") = {} /\ Asking("store") = {}
    BY <1>2, <1>3, FS_EmptySet
  <1>5. \A k \in Keys : poll[k].phase \in {"none", "backoff"}
    BY <1>1, <1>4, Parts, TypeParts DEF Polling, OnItsWay, Poll
  <1>6. \A d \in direct : Kind(d.msg) \in {"get", "store"}
    BY DEF Kind
  <1>7. \A d \in direct : d.phase = "backoff"
    BY <1>1, <1>4, <1>6, Parts, TypeParts DEF Asking, OnItsWay, Direct
  <1> QED BY <1>5, <1>7

\* The main thread is told that all is finished only when no request of the
\* database is on its way (decrementPendingGetCountAndCheckIfFinished, called
\* by every exit of a callback, and beginStopping).
THEOREM FinishedIsIdle == Spec => FinishedMeansIdle
  <1> DEFINE Idle == server # "finished" /\ server' = "finished" =>
                       /\ \A k \in Keys : poll'[k].phase \in {"none", "backoff"}
                       /\ \A d \in direct' : d.phase = "backoff"
             Quiet == NothingPending(pending) =>
                        /\ \A k \in Keys : poll[k].phase \in {"none", "backoff"}
                        /\ \A d \in direct : d.phase = "backoff"
  <1>1. CountInv => Quiet
    BY NothingOnItsWay
  <1>2. Quiet' /\ [Next]_vars => Idle
    <2> SUFFICES ASSUME Quiet', [Next]_vars, server # "finished", server' = "finished"
                 PROVE  /\ \A k \in Keys : poll'[k].phase \in {"none", "backoff"}
                        /\ \A d \in direct' : d.phase = "backoff"
      OBVIOUS
    <2>1. NothingPending(pending')
      <3>1. ASSUME NEW k \in Keys, PollStep(k) PROVE NothingPending(pending')
        <4>1. CASE PollingTimeout(k)
          <5>1. UNCHANGED server
            BY <4>1, Zenon DEF PollingTimeout
          <5> QED BY <5>1
        <4>2. CASE ~PollingTimeout(k)
          BY <3>1, <4>2 DEF PollStep, AnswerPoll, PollFound, PollNotFound, PollError, backoffPoll,
                            retryPoll, Got
        <4> QED BY <4>1, <4>2
      <3>2. ASSUME NEW d \in direct, DirectStep(d) PROVE NothingPending(pending')
        BY <3>2 DEF DirectStep, AnswerDirect, DirectAnswered, DirectError, backoffDirect,
                    retryDirect, Got
      <3>3. ASSUME NEW m \in wire, Take(m) PROVE UNCHANGED server
        <4>1. CASE TakeSubscribe(m)
          BY <4>1, Zenon DEF TakeSubscribe
        <4>2. CASE TakeSingle(m)
          BY <4>2, Zenon DEF TakeSingle
        <4> QED BY <3>3, <4>1, <4>2 DEF Take, Discard, TakeUnsubscribe, TakeChangeSessionId,
                                        TakeStore, backend
      <3>4. ASSUME NEW s \in Sessions, SessionStep(s) PROVE UNCHANGED server
        BY <3>4, Zenon DEF SessionStep, ShowCampaign, ShowCampaignOnce, StoreDocument, Login, finalize,
                    unsubscribeIfSubscribedToAnything, UPDATE, storeFinished, backend
      <3>5. ASSUME NEW k \in Keys, OtherStore(k) PROVE UNCHANGED server
        BY <3>5 DEF OtherStore, backend
      <3>6. ASSUME BeginStopping PROVE NothingPending(pending')
        BY <3>6 DEF BeginStopping
      <3>7. ASSUME finalCleanupAndJoin \/ UNCHANGED vars PROVE FALSE
        BY <3>7 DEF finalCleanupAndJoin, vars, backend
      <3> QED BY <3>1, <3>2, <3>3, <3>4, <3>5, <3>6, <3>7, Zenon DEF Next
    <2> QED BY <2>1
  <1>3. UNCHANGED vars => Idle
    BY DEF vars, backend
  <1> QED BY <1>1, <1>2, CountsInvariant, PTL DEF Spec, FinishedMeansIdle

-----------------------------------------------------------------------------
(* What the backend believes of a session with JavaScript.                  *)

\* The subscriptions at the end of a poll.
LEMMA AfterPoll ==
  ASSUME TypeOK, NEW s \in Sessions, NEW k \in Keys, OneEntry(s, k),
         NEW i, i = Rebound(Unsubscribed(item[k]))
  PROVE  /\ i.unsub[s] = 0 /\ i.chg[s] = <<>>
         /\ ~Believed(s, k) => i.new[s] = Nobody /\ i.old[s] = Nobody
         /\ Believed(s, k) =>
              \E r : /\ r = [mode |-> "subscribe", sid |-> SidOf(s, k)] /\ r # Nobody
                     /\ \/ i.new[s] = r /\ i.old[s] = Nobody
                        \/ i.new[s] = Nobody /\ i.old[s] = r
  <1>1. PICK o : o = item[k] /\ o \in Item
    BY TypeParts
  <1>2. PICK new, old, unsub, chg : new = o.new[s] /\ old = o.old[s] /\ unsub = o.unsub[s] /\ chg = o.chg[s]
    OBVIOUS
  <1>3. /\ new \in Request /\ old \in Request /\ unsub \in Nat
        /\ new = Nobody \/ old = Nobody
        /\ new = Nobody \/ new.mode = "subscribe"
        /\ old = Nobody \/ old.mode = "subscribe"
        /\ unsub \in {0, 1} /\ (unsub # 0 \/ chg # <<>> => new # Nobody \/ old # Nobody)
    BY <1>1, <1>2 DEF OneEntry, Has, Item
  <1>4. PICK n : n = NoItem /\ n.unsub[s] = 0 /\ n.chg[s] = <<>>
    BY EmptyStart
  <1>5. PICK j : j = Unsubscribed(o)
    OBVIOUS
  <1>6. /\ j.new[s] = IF unsub > 0 THEN Nobody ELSE new
        /\ j.old[s] = IF unsub > (IF new = Nobody THEN 0 ELSE 1) THEN Nobody ELSE old
        /\ j.unsub[s] = 0 /\ j.chg[s] = chg /\ j \in Item
    <2>1. j \in Item
      BY <1>1, <1>5, ItemSteps
    <2>2. PICK jn, jo : /\ jn = [q \in Sessions |-> IF o.unsub[q] > 0 THEN Nobody ELSE o.new[q]]
                        /\ jo = [q \in Sessions |->
                                   IF o.unsub[q] > (IF o.new[q] = Nobody THEN 0 ELSE 1)
                                   THEN Nobody ELSE o.old[q]]
      OBVIOUS
    <2>3. j = [o EXCEPT !.new = jn, !.old = jo, !.unsub = n.unsub]
      BY <1>4, <1>5, <2>2 DEF Unsubscribed
    <2>4. j.new = jn /\ j.old = jo /\ j.unsub = n.unsub /\ j.chg = o.chg
      BY <1>1, <2>3 DEF Item
    <2> QED BY <1>2, <1>4, <2>1, <2>2, <2>4
  <1>7. /\ i.new[s] = IF chg # <<>> /\ (j.new[s] # Nobody \/ j.old[s] # Nobody)
                      THEN [mode |-> "subscribe", sid |-> Head(chg)] ELSE j.new[s]
        /\ i.old[s] = IF (chg # <<>> /\ (j.new[s] # Nobody \/ j.old[s] # Nobody)) /\ j.new[s] = Nobody
                      THEN Nobody ELSE j.old[s]
        /\ i.unsub[s] = 0 /\ i.chg[s] = <<>>
    <2>1. PICK jn, jo :
            /\ jn = [q \in Sessions |->
                       IF j.chg[q] # <<>> /\ (j.new[q] # Nobody \/ j.old[q] # Nobody)
                       THEN [mode |-> "subscribe", sid |-> Head(j.chg[q])] ELSE j.new[q]]
            /\ jo = [q \in Sessions |->
                       IF (j.chg[q] # <<>> /\ (j.new[q] # Nobody \/ j.old[q] # Nobody))
                          /\ j.new[q] = Nobody
                       THEN Nobody ELSE j.old[q]]
      OBVIOUS
    <2>2. i = [j EXCEPT !.new = jn, !.old = jo, !.chg = n.chg]
      BY <1>1, <1>4, <1>5, <2>1, Zenon DEF Rebound
    <2>3. i.new = jn /\ i.old = jo /\ i.chg = n.chg /\ i.unsub = j.unsub
      BY <1>6, <2>2 DEF Item
    <2> QED BY <1>4, <1>6, <2>1, <2>3
  <1>8. Nobody.mode = "none"
    BY EmptyStart
  <1>9. CASE unsub = 1
    <2>1. j.new[s] = Nobody /\ j.old[s] = Nobody
      BY <1>3, <1>6, <1>9
    <2>2. ~Believed(s, k)
      BY <1>1, <1>2, <1>9 DEF Believed
    <2> QED BY <1>7, <2>1, <2>2
  <1>10. CASE unsub = 0
    <2>1. j.new[s] = new /\ j.old[s] = old
      BY <1>6, <1>10
    <2>2. Believed(s, k) <=> new # Nobody \/ old # Nobody
      BY <1>1, <1>2, <1>10 DEF Believed, Has
    <2>3. CASE ~Believed(s, k)
      BY <1>7, <2>1, <2>2, <2>3
    <2>4. CASE Believed(s, k) /\ chg # <<>>
      <3>1. PICK r : r = [mode |-> "subscribe", sid |-> Head(chg)]
        OBVIOUS
      <3>2. i.new[s] = r
        BY <1>7, <2>1, <2>2, <2>4, <3>1
      <3>3. i.old[s] = Nobody
        BY <1>3, <1>7, <2>1, <2>2, <2>4
      <3>4. SidOf(s, k) = Head(chg)
        BY <1>1, <1>2, <2>4 DEF SidOf
      <3>5. r # Nobody
        BY <1>8, <3>1
      <3> QED BY <1>7, <2>4, <3>1, <3>2, <3>3, <3>4, <3>5
    <2>5. CASE Believed(s, k) /\ chg = <<>>
      <3>1. i.new[s] = new /\ i.old[s] = old
        BY <1>7, <2>1, <2>5
      <3>2. SidOf(s, k) = IF new # Nobody THEN new.sid ELSE old.sid
        BY <1>1, <1>2, <2>5 DEF SidOf
      <3>3. \A r \in Request : r.mode = "subscribe" => r = [mode |-> "subscribe", sid |-> r.sid]
        BY DEF Request
      <3>4. CASE new # Nobody
        BY <1>3, <1>7, <2>5, <3>1, <3>2, <3>3, <3>4
      <3>5. CASE new = Nobody
        BY <1>3, <1>7, <2>2, <2>5, <3>1, <3>2, <3>3, <3>5
      <3> QED BY <3>4, <3>5
    <2> QED BY <2>3, <2>4, <2>5
  <1> QED BY <1>3, <1>9, <1>10

\* While the backend believes what the pages say, its subscriptions are theirs.
LEMMA SubscriptionsFollow ==
  ASSUME TypeOK, BeliefInv
  PROVE  SubscriptionsMatchPages
  <1> SUFFICES ASSUME NEW s \in Js, NEW k \in Keys, Settled(s, k), <<s, k>> \notin crossed
               PROVE  Subscribed(s, k) <=> gui[s].on = k
    BY DEF SubscriptionsMatchPages
  <1>1. OneEntry(s, k) /\ TalkIsNext(s, k)
    BY DEF BeliefInv, InTurn, Settled
  <1>2. Talk(s, k) = {}
    BY DEF Talk, Settled
  <1>3. (Believed(s, k) <=> gui[s].on = k) /\ (Believed(s, k) => SidOf(s, k) = gui[s].sid)
    BY <1>1, <1>2 DEF TalkIsNext
  <1>4. PICK i : i = Rebound(Unsubscribed(item[k]))
    OBVIOUS
  <1>5. s \in Sessions
    BY Bounds
  <1>6. /\ ~Believed(s, k) => i.new[s] = Nobody /\ i.old[s] = Nobody
        /\ Believed(s, k) =>
              \E r : /\ r = [mode |-> "subscribe", sid |-> SidOf(s, k)] /\ r # Nobody
                     /\ \/ i.new[s] = r /\ i.old[s] = Nobody
                        \/ i.new[s] = Nobody /\ i.old[s] = r
    BY <1>1, <1>4, <1>5, AfterPoll
  <1>7. PICK r : r = [mode |-> "subscribe", sid |-> gui[s].sid]
    OBVIOUS
  <1>8. r # Nobody
    BY <1>7, EmptyStart
  <1>9. Subscribed(s, k) <=> r \in {i.new[s], i.old[s]}
    BY <1>4, <1>7 DEF Subscribed
  <1>10. Subscribed(s, k) <=> Believed(s, k)
    BY <1>3, <1>6, <1>7, <1>8, <1>9
  <1> QED BY <1>3, <1>10

Belief(s, k) == OneEntry(s, k) /\ TalkIsNext(s, k)

\* The item has for session s what it had.
SameEntry(s, k) ==
  /\ item'[k].new[s] = item[k].new[s] /\ item'[k].old[s] = item[k].old[s]
  /\ item'[k].unsub[s] = item[k].unsub[s] /\ item'[k].chg[s] = item[k].chg[s]
  /\ item[k].cached => item'[k].cached

\* The session shows campaign k as it did.
SameView(s, k) ==
  /\ gui'[s].on = k <=> gui[s].on = k
  /\ gui[s].on = k => gui'[s].sid = gui[s].sid

LEMMA SameBelief ==
  ASSUME NEW s, NEW k, SameEntry(s, k)
  PROVE  /\ Has(s, k)' <=> Has(s, k)
         /\ Believed(s, k)' <=> Believed(s, k)
         /\ SidOf(s, k)' = SidOf(s, k)
         /\ OneEntry(s, k) => OneEntry(s, k)'
  <1>1. Has(s, k)' <=> Has(s, k)
    BY DEF SameEntry, Has
  <1>2. Believed(s, k)' <=> Believed(s, k)
    BY <1>1 DEF SameEntry, Believed
  <1>3. SidOf(s, k)' = SidOf(s, k)
    BY DEF SameEntry, SidOf
  <1>4. OneEntry(s, k) => OneEntry(s, k)'
    BY <1>1 DEF SameEntry, OneEntry
  <1> QED BY <1>1, <1>2, <1>3, <1>4

LEMMA NothingSaid ==
  ASSUME NEW s, NEW k, Belief(s, k), SameEntry(s, k), SameView(s, k), Talk(s, k)' = Talk(s, k)
  PROVE  Belief(s, k)'
  <1>1. OneEntry(s, k)' /\ (Believed(s, k)' <=> Believed(s, k)) /\ SidOf(s, k)' = SidOf(s, k)
    BY SameBelief DEF Belief
  <1>2. /\ \A m : First(s, k, m)' <=> First(s, k, m)
        /\ \A m : Last(s, k, m)' <=> Last(s, k, m)
        /\ \A m, w : Follows2(s, k, m, w)' <=> Follows2(s, k, m, w)
    BY DEF First, Last, Follows2
  <1>3. TalkIsNext(s, k)
    BY DEF Belief
  <1>4. TalkIsNext(s, k)'
    <2>1. \A m \in Talk(s, k)' : First(s, k, m)' => (m.mode = "subscribe" <=> ~Believed(s, k)')
      BY <1>1, <1>2, <1>3 DEF TalkIsNext
    <2>2. \A m, w \in Talk(s, k)' :
            Follows2(s, k, m, w)' => (w.mode = "subscribe" <=> m.mode = "unsubscribe")
      BY <1>2, <1>3 DEF TalkIsNext
    <2>3. \A m \in Talk(s, k)' : Last(s, k, m)' =>
            IF m.mode = "unsubscribe" THEN gui'[s].on # k
            ELSE gui'[s].on = k /\ m.sid = gui'[s].sid
      BY <1>2, <1>3 DEF TalkIsNext, SameView
    <2>4. Talk(s, k)' = {} =>
            /\ Believed(s, k)' <=> gui'[s].on = k
            /\ Believed(s, k)' => SidOf(s, k)' = gui'[s].sid
      BY <1>1, <1>3 DEF TalkIsNext, SameView
    <2> QED BY <2>1, <2>2, <2>3, <2>4 DEF TalkIsNext
  <1> QED BY <1>1, <1>4 DEF Belief

\* A page's next word on campaign k.
Word(s, k, m) ==
  \/ m.mode = "subscribe" /\ gui[s].on # k /\ gui'[s].on = k /\ m.sid = gui'[s].sid
  \/ m.mode = "unsubscribe" /\ gui[s].on = k /\ gui'[s].on # k
  \/ m.mode = "changeSessionId" /\ gui[s].on = k /\ gui'[s].on = k /\ m.sid = gui'[s].sid

LEMMA OneWord ==
  ASSUME NEW s, NEW k, Belief(s, k), SameEntry(s, k), NEW m \in Message, Word(s, k, m),
         \A w \in Talk(s, k) : w \in Message /\ w.n < m.n,
         Talk(s, k)' = Talk(s, k) \cup {m}
  PROVE  Belief(s, k)'
  <1>1. OneEntry(s, k)' /\ (Believed(s, k)' <=> Believed(s, k)) /\ TalkIsNext(s, k)
    BY SameBelief DEF Belief
  <1>2. m.n \in Nat /\ m \notin Talk(s, k) /\ \A w \in Talk(s, k) : w.n \in Nat
    BY DEF Message
  <1>3. \A x \in Talk(s, k)' : First(s, k, x)' => (x.mode = "subscribe" <=> ~Believed(s, k)')
    <2> SUFFICES ASSUME NEW x \in Talk(s, k)', First(s, k, x)'
                 PROVE  x.mode = "subscribe" <=> ~Believed(s, k)
      BY <1>1
    <2>1. \A w \in Talk(s, k) : x.n <= w.n
      BY DEF First
    <2>2. CASE x \in Talk(s, k)
      BY <1>1, <2>1, <2>2 DEF First, TalkIsNext
    <2>3. CASE x = m
      <3>1. Talk(s, k) = {}
        BY <1>2, <2>1, <2>3
      <3> QED BY <1>1, <2>3, <3>1 DEF TalkIsNext, Word
    <2> QED BY <2>2, <2>3
  <1>4. \A x, y \in Talk(s, k)' :
          Follows2(s, k, x, y)' => (y.mode = "subscribe" <=> x.mode = "unsubscribe")
    <2> SUFFICES ASSUME NEW x \in Talk(s, k)', NEW y \in Talk(s, k)', Follows2(s, k, x, y)'
                 PROVE  y.mode = "subscribe" <=> x.mode = "unsubscribe"
      OBVIOUS
    <2>1. x.n < y.n /\ \A z \in Talk(s, k)' : z.n <= x.n \/ y.n <= z.n
      BY DEF Follows2
    <2>2. x # m
      BY <1>2, <2>1
    <2>3. CASE y \in Talk(s, k)
      BY <1>1, <2>1, <2>2, <2>3 DEF Follows2, TalkIsNext
    <2>4. CASE y = m
      <3>1. \A z \in Talk(s, k) : z.n <= x.n
        BY <1>2, <2>1, <2>4
      <3>2. Last(s, k, x) /\ x \in Talk(s, k)
        BY <2>2, <3>1 DEF Last
      <3>3. IF x.mode = "unsubscribe" THEN gui[s].on # k ELSE gui[s].on = k /\ x.sid = gui[s].sid
        BY <1>1, <3>2 DEF TalkIsNext
      <3> QED BY <2>4, <3>3 DEF Word
    <2> QED BY <2>3, <2>4
  <1>5. \A x \in Talk(s, k)' : Last(s, k, x)' =>
          IF x.mode = "unsubscribe" THEN gui'[s].on # k ELSE gui'[s].on = k /\ x.sid = gui'[s].sid
    <2> SUFFICES ASSUME NEW x \in Talk(s, k)', Last(s, k, x)'
                 PROVE  IF x.mode = "unsubscribe" THEN gui'[s].on # k
                        ELSE gui'[s].on = k /\ x.sid = gui'[s].sid
      OBVIOUS
    <2>1. m.n <= x.n
      BY DEF Last
    <2>2. x = m
      BY <1>2, <2>1
    <2> QED BY <2>2 DEF Word
  <1>6. TalkIsNext(s, k)'
    BY <1>3, <1>4, <1>5 DEF TalkIsNext
  <1> QED BY <1>1, <1>6 DEF Belief

\* The first word is taken: what follows it is right for what is now believed.
LEMMA FirstWordTaken ==
  ASSUME NEW s, NEW k, TalkIsNext(s, k), NEW m \in Message, First(s, k, m), OneEntry(s, k)',
         \A w \in Talk(s, k) : w \in Message /\ (w.n = m.n => w = m),
         Talk(s, k)' = Talk(s, k) \ {m}, UNCHANGED gui,
         Believed(s, k)' <=> m.mode # "unsubscribe",
         m.mode # "unsubscribe" => SidOf(s, k)' = m.sid
  PROVE  Belief(s, k)'
  <1>1. /\ m \in Talk(s, k) /\ m.n \in Nat
        /\ \A w \in Talk(s, k) : w.n \in Nat /\ m.n <= w.n
    BY DEF First, Message
  <1>2. \A w \in Talk(s, k)' : w \in Talk(s, k) /\ m.n < w.n
    BY <1>1
  <1>3. \A x \in Talk(s, k)' : First(s, k, x)' => (x.mode = "subscribe" <=> ~Believed(s, k)')
    <2> SUFFICES ASSUME NEW x \in Talk(s, k)', First(s, k, x)'
                 PROVE  x.mode = "subscribe" <=> m.mode = "unsubscribe"
      OBVIOUS
    <2>1. \A w \in Talk(s, k) \ {m} : x.n <= w.n
      BY DEF First
    <2>2. Follows2(s, k, m, x)
      BY <1>1, <1>2, <2>1 DEF Follows2
    <2> QED BY <1>1, <1>2, <2>2 DEF TalkIsNext
  <1>4. \A x, y \in Talk(s, k)' :
          Follows2(s, k, x, y)' => (y.mode = "subscribe" <=> x.mode = "unsubscribe")
    <2> SUFFICES ASSUME NEW x \in Talk(s, k)', NEW y \in Talk(s, k)', Follows2(s, k, x, y)'
                 PROVE  y.mode = "subscribe" <=> x.mode = "unsubscribe"
      OBVIOUS
    <2>1. x.n < y.n /\ \A z \in Talk(s, k) \ {m} : z.n <= x.n \/ y.n <= z.n
      BY DEF Follows2
    <2>2. \A z \in Talk(s, k) : z.n <= x.n \/ y.n <= z.n
      BY <1>1, <1>2, <2>1
    <2>3. Follows2(s, k, x, y)
      BY <1>2, <2>1, <2>2 DEF Follows2
    <2> QED BY <1>2, <2>3 DEF TalkIsNext
  <1>5. \A x \in Talk(s, k)' : Last(s, k, x)' =>
          IF x.mode = "unsubscribe" THEN gui'[s].on # k ELSE gui'[s].on = k /\ x.sid = gui'[s].sid
    <2> SUFFICES ASSUME NEW x \in Talk(s, k)', Last(s, k, x)'
                 PROVE  IF x.mode = "unsubscribe" THEN gui[s].on # k
                        ELSE gui[s].on = k /\ x.sid = gui[s].sid
      OBVIOUS
    <2>1. \A z \in Talk(s, k) \ {m} : z.n <= x.n
      BY DEF Last
    <2>2. \A z \in Talk(s, k) : z.n <= x.n
      BY <1>1, <1>2, <2>1
    <2>3. Last(s, k, x)
      BY <1>2, <2>2 DEF Last
    <2> QED BY <1>2, <2>3 DEF TalkIsNext
  <1>6. Talk(s, k)' = {} =>
          /\ Believed(s, k)' <=> gui'[s].on = k
          /\ Believed(s, k)' => SidOf(s, k)' = gui'[s].sid
    <2> SUFFICES ASSUME Talk(s, k)' = {}
                 PROVE  /\ Believed(s, k)' <=> gui[s].on = k
                        /\ Believed(s, k)' => SidOf(s, k)' = gui[s].sid
      OBVIOUS
    <2>1. Talk(s, k) = {m}
      BY <1>1
    <2>2. Last(s, k, m)
      BY <1>1, <2>1 DEF Last
    <2>3. IF m.mode = "unsubscribe" THEN gui[s].on # k ELSE gui[s].on = k /\ m.sid = gui[s].sid
      BY <1>1, <2>2 DEF TalkIsNext
    <2> QED BY <2>3
  <1>7. TalkIsNext(s, k)'
    BY <1>3, <1>4, <1>5, <1>6 DEF TalkIsNext
  <1> QED BY <1>7 DEF Belief

LEMMA WordSaid ==
  ASSUME TypeInv, NEW s \in Sessions, NEW k \in Keys, Belief(s, k), item' = item,
         NEW msgs, wire' = wire \cup msgs, NEW m \in msgs, m \in Message, m.from = s, m.key = k,
         m.n > gui[s].sent, Word(s, k, m), \A x \in msgs : x = m \/ x.key # k
  PROVE  Belief(s, k)'
  <1>1. SameEntry(s, k)
    BY DEF SameEntry
  <1>2. m.mode # "store"
    BY DEF Word
  <1>3. Talk(s, k)' = Talk(s, k) \cup {m}
    BY <1>2 DEF Talk
  <1>4. gui[s].sent \in Nat
    BY Parts, TypeParts DEF Gui
  <1>5. \A w \in Talk(s, k) : w \in Message /\ w.n <= gui[s].sent
    BY Parts DEF Talk, MessagesOK, Known
  <1>6. \A w \in Talk(s, k) : w \in Message /\ w.n < m.n
    BY <1>4, <1>5 DEF Message
  <1> QED BY <1>1, <1>3, <1>6, OneWord

LEMMA NoWordSaid ==
  ASSUME NEW s, NEW k, Belief(s, k), item' = item, SameView(s, k),
         NEW msgs, wire' = wire \cup msgs,
         \A x \in msgs : x.from # s \/ x.key # k \/ x.mode = "store"
  PROVE  Belief(s, k)'
  <1>1. SameEntry(s, k)
    BY DEF SameEntry
  <1>2. Talk(s, k)' = Talk(s, k)
    BY DEF Talk
  <1> QED BY <1>1, <1>2, NothingSaid

\* The session after it has sent something.
LEMMA SendEffect ==
  ASSUME TypeOK, NEW s \in Sessions, NEW g \in Gui, NEW msgs, Send(s, msgs, g)
  PROVE  /\ wire' = wire \cup msgs
         /\ gui'[s].on = g.on /\ gui'[s].sid = g.sid /\ gui'[s].made = g.made
         /\ gui'[s].shown = g.shown /\ gui'[s].waits = g.waits
         /\ \A q \in Sessions : q # s => gui'[q] = gui[q]
  <1>1. PICK h : h = [g EXCEPT !.sent = @ + Cardinality(msgs)]
    OBVIOUS
  <1>2. h.on = g.on /\ h.sid = g.sid /\ h.made = g.made /\ h.shown = g.shown /\ h.waits = g.waits
    BY <1>1 DEF Gui
  <1>3. gui' = [gui EXCEPT ![s] = h] /\ gui \in [Sessions -> Gui] /\ wire' = wire \cup msgs
    BY <1>1 DEF Send, TypeOK
  <1> QED BY <1>2, <1>3

LEMMA SessionBelief ==
  ASSUME TypeInv, BeliefInv, NEW p \in Sessions, SessionStep(p)
  PROVE  BeliefInv'
  <1>1. TypeOK /\ gui \in [Sessions -> Gui] /\ Js \subseteq Sessions /\ NoKey \notin Keys
    BY Parts, Bounds DEF TypeOK
  <1>2. PICK g : g = gui[p] /\ g \in Gui
    BY <1>1
  <1>3. g.sid \in Nat /\ g.sent \in Nat /\ g.on \in Keys \cup {NoKey}
    BY <1>2 DEF Gui, Sids
  <1>4. item' = item /\ UNCHANGED <<server, crossed, missed>>
    BY Zenon DEF SessionStep, ShowCampaign, ShowCampaignOnce, StoreDocument, Login, finalize,
                 unsubscribeIfSubscribedToAnything, UPDATE, storeFinished, backend, hist
  <1>5. \A s \in Js, k \in Keys : InTurn(s, k)' => Belief(s, k)
    BY <1>4 DEF BeliefInv, InTurn, Belief
  \* What another session says is not about this one.
  <1>6. ASSUME NEW s \in Sessions, NEW k \in Keys, Belief(s, k), s # p, NEW msgs, NEW h \in Gui,
               Send(p, msgs, h), \A x \in msgs : x.from = p
        PROVE  Belief(s, k)'
    <2>1. wire' = wire \cup msgs /\ gui'[s] = gui[s]
      BY <1>1, <1>6, SendEffect
    <2>2. SameView(s, k) /\ \A x \in msgs : x.from # s \/ x.key # k \/ x.mode = "store"
      BY <1>6, <2>1 DEF SameView
    <2> QED BY <1>4, <1>6, <2>1, <2>2, NoWordSaid
  \* It is enough to say what it says of each campaign.
  <1>7. ASSUME NEW msgs, NEW h \in Gui, Send(p, msgs, h), \A x \in msgs : x.from = p,
               p \in Js => \A x \in msgs : x.mode # "single",
               \A k \in Keys : p \in Js /\ Belief(p, k) => Belief(p, k)'
        PROVE  BeliefInv'
    <2>1. wire' = wire \cup msgs
      BY <1>1, <1>7, SendEffect
    <2>2. \A s \in Js : \A m \in wire' : m.from = s => m.mode # "single"
      BY <1>7, <2>1 DEF BeliefInv
    <2>3. \A s \in Js, k \in Keys : InTurn(s, k)' => Belief(s, k)'
      <3> SUFFICES ASSUME NEW s \in Js, NEW k \in Keys, Belief(s, k) PROVE Belief(s, k)'
        BY <1>5
      <3>1. CASE s = p
        BY <1>7, <3>1
      <3>2. CASE s # p
        BY <1>1, <1>6, <1>7, <3>2
      <3> QED BY <3>1, <3>2
    <2> QED BY <2>2, <2>3 DEF BeliefInv, Belief
  <1>8. ASSUME NEW c \in Keys, ShowCampaign(p, c) PROVE BeliefInv'
    <2>1. PICK h : h = [g EXCEPT !.on = c, !.made = TRUE, !.waits = IF g.made THEN "no" ELSE "page"]
      OBVIOUS
    <2>2. h \in Gui /\ h.on = c /\ h.sid = g.sid
      BY <1>2, <2>1 DEF Gui
    <2>3. PICK left : left = IF g.on = NoKey THEN {} ELSE {Msg(p, 1, "unsubscribe", g.on)}
      OBVIOUS
    <2>4. PICK i : i = 1 + Cardinality(left)
      OBVIOUS
    <2>5. i \in {1, 2}
      <3>1. \A u : Cardinality({u}) = 1
        BY FS_Singleton
      <3>2. Cardinality(left) \in {0, 1}
        BY <2>3, <3>1, FS_EmptySet
      <3> QED BY <2>4, <3>2
    <2>6. PICK m : m = Msg(p, i, "subscribe", c)
      OBVIOUS
    <2>7. Send(p, left \cup {m}, h) /\ g.on # c
      BY <1>2, <1>8, <2>1, <2>3, <2>4, <2>6 DEF ShowCampaign
    <2>8. m \in Message /\ m.from = p /\ m.mode = "subscribe" /\ m.key = c /\ m.sid = g.sid
          /\ m.n = g.sent + i
      BY <1>1, <1>2, <2>5, <2>6, MsgType
    <2>9. \A u \in left : /\ u \in Message /\ u.from = p /\ u.mode = "unsubscribe" /\ u.key = g.on
                          /\ u.n = g.sent + 1 /\ g.on # NoKey
      BY <1>1, <1>2, <1>3, <2>3, MsgType
    <2>10. PICK msgs : msgs = left \cup {m}
      OBVIOUS
    <2>11. wire' = wire \cup msgs /\ gui'[p].on = c /\ gui'[p].sid = g.sid
      BY <1>1, <2>2, <2>7, <2>10, SendEffect
    <2>12. ASSUME NEW k \in Keys, Belief(p, k) PROVE Belief(p, k)'
      <3>1. CASE k = c
        <4>1. /\ Word(p, k, m) /\ m.n > gui[p].sent /\ m \in msgs
              /\ \A x \in msgs : x = m \/ x.key # k
          BY <1>2, <1>3, <2>5, <2>7, <2>8, <2>9, <2>10, <2>11, <3>1 DEF Word
        <4> QED BY <1>4, <2>8, <2>10, <2>12, <2>11, <3>1, <4>1, WordSaid
      <3>2. CASE k = g.on
        <4>1. PICK u \in left : TRUE
          BY <1>1, <2>3, <3>2
        <4>2. /\ Word(p, k, u) /\ u.n > gui[p].sent /\ u \in Message /\ u.from = p /\ u.key = k
              /\ \A x \in msgs : x = u \/ x.key # k
          BY <1>2, <1>3, <2>3, <2>7, <2>8, <2>9, <2>10, <2>11, <3>2, <4>1 DEF Word
        <4>3. u \in msgs
          BY <2>10, <4>1
        <4> QED BY <1>4, <2>12, <2>11, <4>2, <4>3, WordSaid
      <3>3. CASE k # c /\ k # g.on
        <4>1. SameView(p, k)
          BY <1>2, <2>11, <3>3 DEF SameView
        <4>2. \A x \in msgs : x.from # p \/ x.key # k \/ x.mode = "store"
          BY <2>8, <2>9, <2>10, <3>3
        <4> QED BY <1>4, <2>12, <2>11, <4>1, <4>2, NoWordSaid
      <3> QED BY <3>1, <3>2, <3>3
    <2>13. \A x \in msgs : x.from = p /\ x.mode # "single"
      BY <2>8, <2>9, <2>10
    <2> QED BY <1>7, <2>2, <2>7, <2>10, <2>12, <2>13
  <1>9. ASSUME NEW c \in Keys, ShowCampaignOnce(p, c) PROVE BeliefInv'
    <2>1. PICK m, h : m = Msg(p, 1, "single", c) /\ h = [g EXCEPT !.on = c, !.waits = "page"]
      OBVIOUS
    <2>2. h \in Gui /\ Send(p, {m}, h) /\ p \notin Js
      BY <1>2, <1>9, <2>1 DEF Gui, ShowCampaignOnce
    <2>3. m.from = p
      BY <1>1, <2>1, MsgType
    <2> QED BY <1>7, <2>2, <2>3
  <1>10. ASSUME NEW c \in Keys, StoreDocument(p, c) PROVE BeliefInv'
    <2>1. PICK m, h : m = Msg(p, 1, "store", c) /\ h = [g EXCEPT !.waits = "store"]
      OBVIOUS
    <2>2. h \in Gui /\ h.on = g.on /\ h.sid = g.sid /\ Send(p, {m}, h)
      BY <1>2, <1>10, <2>1 DEF Gui, StoreDocument
    <2>3. m.from = p /\ m.mode = "store"
      BY <1>1, <2>1, MsgType
    <2>4. wire' = wire \cup {m} /\ gui'[p].on = g.on /\ gui'[p].sid = g.sid
      BY <1>1, <2>2, SendEffect
    <2>5. \A k \in Keys : Belief(p, k) => Belief(p, k)'
      <3>1. \A k : SameView(p, k)
        BY <1>2, <2>4 DEF SameView
      <3>2. PICK msgs : msgs = {m}
        OBVIOUS
      <3>3. /\ wire' = wire \cup msgs
            /\ \A k : \A x \in msgs : x.from # p \/ x.key # k \/ x.mode = "store"
        BY <2>3, <2>4, <3>2
      <3> QED BY <1>4, <3>1, <3>3, NoWordSaid
    <2> QED BY <1>7, <2>2, <2>3, <2>5
  \* He leaves the campaign, for good or with the session.
  <1>11. ASSUME NEW h \in Gui, h.on = NoKey, g.on \in Keys, Send(p, {Msg(p, 1, "unsubscribe", g.on)}, h)
         PROVE  BeliefInv'
    <2>1. PICK m : m = Msg(p, 1, "unsubscribe", g.on)
      OBVIOUS
    <2>2. /\ m \in Message /\ m.from = p /\ m.mode = "unsubscribe" /\ m.key = g.on
          /\ m.n = g.sent + 1
      BY <1>1, <1>2, <1>11, <2>1, MsgType
    <2>3. wire' = wire \cup {m} /\ gui'[p].on = NoKey
      BY <1>1, <1>11, <2>1, SendEffect
    <2>4. ASSUME NEW k \in Keys, Belief(p, k) PROVE Belief(p, k)'
      <3>1. CASE k = g.on
        <4>1. Word(p, k, m) /\ m.n > gui[p].sent
          BY <1>1, <1>2, <1>3, <2>2, <2>3, <3>1 DEF Word
        <4>2. PICK msgs : msgs = {m} /\ m \in msgs
          OBVIOUS
        <4>3. wire' = wire \cup msgs /\ \A x \in msgs : x = m \/ x.key # k
          BY <2>3, <4>2
        <4> QED BY <1>4, <2>2, <2>3, <2>4, <3>1, <4>1, <4>2, <4>3, WordSaid
      <3>2. CASE k # g.on
        <4>1. SameView(p, k)
          BY <1>1, <1>2, <2>3, <3>2 DEF SameView
        <4>2. PICK msgs : msgs = {m}
          OBVIOUS
        <4>3. wire' = wire \cup msgs /\ \A x \in msgs : x.from # p \/ x.key # k \/ x.mode = "store"
          BY <2>2, <2>3, <3>2, <4>2
        <4> QED BY <1>4, <2>4, <4>1, <4>3, NoWordSaid
      <3> QED BY <3>1, <3>2
    <2> QED BY <1>7, <1>11, <2>1, <2>2, <2>4
  <1>12. ASSUME unsubscribeIfSubscribedToAnything(p) PROVE BeliefInv'
    <2>1. PICK h : h = [g EXCEPT !.on = NoKey]
      OBVIOUS
    <2>2. h \in Gui /\ h.on = NoKey /\ g.on \in Keys
      BY <1>2, <1>12, <2>1 DEF Gui, unsubscribeIfSubscribedToAnything
    <2>3. Send(p, {Msg(p, 1, "unsubscribe", g.on)}, h)
      BY <1>2, <1>12, <2>1 DEF unsubscribeIfSubscribedToAnything
    <2> QED BY <1>11, <2>2, <2>3
  <1>13. ASSUME Login(p) PROVE BeliefInv'
    <2>1. PICK w : w = Msg(p, 1, "changeSessionId", g.on)
      OBVIOUS
    <2>2. PICK m, h : m = [w EXCEPT !.sid = @ + 1] /\ h = [g EXCEPT !.sid = @ + 1]
      OBVIOUS
    <2>3. h \in Gui /\ h.on = g.on /\ h.sid = g.sid + 1 /\ g.on \in Keys
      BY <1>2, <1>13, <2>2 DEF Gui, Sids, Login
    <2>4. Send(p, {m}, h)
      BY <1>2, <1>13, <2>1, <2>2 DEF Login
    <2>5. /\ w \in Message /\ w.from = p /\ w.n = g.sent + 1 /\ w.mode = "changeSessionId"
          /\ w.sid = g.sid /\ w.key = g.on
      BY <1>1, <1>2, <2>1, <2>3, MsgType
    <2>6. /\ m \in Message /\ m.from = p /\ m.n = g.sent + 1 /\ m.mode = "changeSessionId"
          /\ m.sid = g.sid + 1 /\ m.key = g.on
      BY <2>2, <2>5 DEF Message, Sids
    <2>7. wire' = wire \cup {m} /\ gui'[p].on = g.on /\ gui'[p].sid = g.sid + 1
      BY <1>1, <2>3, <2>4, SendEffect
    <2>8. ASSUME NEW k \in Keys, Belief(p, k) PROVE Belief(p, k)'
      <3>1. CASE k = g.on
        <4>1. Word(p, k, m) /\ m.n > gui[p].sent
          BY <1>2, <1>3, <2>6, <2>7, <3>1 DEF Word
        <4>2. PICK msgs : msgs = {m} /\ m \in msgs
          OBVIOUS
        <4>3. wire' = wire \cup msgs /\ \A x \in msgs : x = m \/ x.key # k
          BY <2>7, <4>2
        <4> QED BY <1>4, <2>6, <2>7, <2>8, <3>1, <4>1, <4>2, <4>3, WordSaid
      <3>2. CASE k # g.on
        <4>1. SameView(p, k)
          BY <1>2, <2>7, <3>2 DEF SameView
        <4>2. PICK msgs : msgs = {m}
          OBVIOUS
        <4>3. wire' = wire \cup msgs /\ \A x \in msgs : x.from # p \/ x.key # k \/ x.mode = "store"
          BY <2>6, <2>7, <3>2, <4>2
        <4> QED BY <1>4, <2>8, <4>1, <4>3, NoWordSaid
      <3> QED BY <3>1, <3>2
    <2> QED BY <1>7, <2>3, <2>4, <2>6, <2>8
  <1>14. ASSUME finalize(p) PROVE BeliefInv'
    <2>1. PICK e, i : e = NewGui /\ e \in Gui /\ i = g.sid + 1
      BY EmptyStart
    <2>2. PICK h : h = [e EXCEPT !.sid = i, !.sent = g.sent]
      OBVIOUS
    <2>3. h \in Gui /\ h.on = NoKey
      <3>1. e.on = NoKey /\ i \in Nat
        BY <1>3, <2>1 DEF NewGui
      <3> QED BY <1>3, <2>1, <2>2, <3>1 DEF Gui, Sids
    <2>4. Send(p, IF g.on = NoKey THEN {} ELSE {Msg(p, 1, "unsubscribe", g.on)}, h)
      BY <1>2, <1>14, <2>1, <2>2 DEF finalize
    <2>5. CASE g.on # NoKey
      BY <1>3, <1>11, <2>3, <2>4, <2>5
    <2>6. CASE g.on = NoKey
      <3>1. Send(p, {}, h)
        BY <2>4, <2>6
      <3>2. wire' = wire \cup {} /\ gui'[p].on = NoKey
        BY <1>1, <2>3, <3>1, SendEffect
      <3>3. \A k \in Keys : Belief(p, k) => Belief(p, k)'
        <4>1. \A k \in Keys : SameView(p, k)
          BY <1>1, <1>2, <2>6, <3>2 DEF SameView
        <4>2. PICK msgs : msgs = {}
          OBVIOUS
        <4>3. /\ wire' = wire \cup msgs
              /\ \A k : \A x \in msgs : x.from # p \/ x.key # k \/ x.mode = "store"
          BY <3>2, <4>2
        <4> QED BY <1>4, <4>1, <4>3, NoWordSaid
      <3> QED BY <1>7, <2>3, <3>1, <3>3
    <2> QED BY <2>5, <2>6
  <1>15. ASSUME UPDATE(p) \/ storeFinished(p) PROVE BeliefInv'
    <2>1. UNCHANGED wire
      BY <1>15 DEF UPDATE, storeFinished
    <2>2. \A s \in Js, k \in Keys : SameView(s, k)
      <3> SUFFICES ASSUME NEW s \in Js PROVE gui'[s].on = gui[s].on /\ gui'[s].sid = gui[s].sid
        BY DEF SameView
      <3>1. PICK q : q = gui[s] /\ q \in Gui
        BY <1>1
      <3>2. CASE UPDATE(p)
        <4>1. CASE g.on = NoKey \/ s # p
          BY <1>1, <1>2, <3>2, <4>1 DEF UPDATE
        <4>2. CASE g.on # NoKey /\ s = p
          <5>1. PICK w, waits : /\ w = Remembered(q.shown, Head(inbox[s]).what)
                                /\ waits = IF q.waits = "page" THEN "no" ELSE q.waits
            OBVIOUS
          <5>2. PICK h : h = [q EXCEPT !.shown = w, !.on = q.on, !.waits = waits]
            OBVIOUS
          <5>3. h.on = q.on /\ h.sid = q.sid
            BY <3>1, <5>2 DEF Gui
          <5>4. gui' = [gui EXCEPT ![s] = h]
            BY <1>2, <3>1, <3>2, <4>2, <5>1, <5>2 DEF UPDATE
          <5> QED BY <1>1, <3>1, <5>3, <5>4
        <4> QED BY <4>1, <4>2
      <3>3. CASE storeFinished(p)
        <4>1. CASE s # p
          BY <1>1, <3>3, <4>1 DEF storeFinished
        <4>2. CASE s = p
          <5>1. PICK h : h = [q EXCEPT !.waits = "no"]
            OBVIOUS
          <5>2. h.on = q.on /\ h.sid = q.sid
            BY <3>1, <5>1 DEF Gui
          <5>3. gui' = [gui EXCEPT ![s] = h]
            BY <1>1, <3>1, <3>3, <4>2, <5>1 DEF storeFinished
          <5> QED BY <1>1, <3>1, <5>2, <5>3
        <4> QED BY <4>1, <4>2
      <3> QED BY <1>15, <3>2, <3>3
    <2>3. \A s \in Js, k \in Keys : InTurn(s, k)' => Belief(s, k)'
      <3> SUFFICES ASSUME NEW s \in Js, NEW k \in Keys, Belief(s, k) PROVE Belief(s, k)'
        BY <1>5
      <3>1. SameEntry(s, k) /\ Talk(s, k)' = Talk(s, k)
        BY <1>4, <2>1 DEF SameEntry, Talk
      <3> QED BY <2>2, <3>1, NothingSaid
    <2> QED BY <2>1, <2>3 DEF BeliefInv, Belief
  <1> QED BY <1>8, <1>9, <1>10, <1>12, <1>13, <1>14, <1>15, Zenon DEF SessionStep

-----------------------------------------------------------------------------
\* What a message does to the entry of session p in the item of campaign k.
LeavesOthers(m, p, k) ==
  \A s \in Sessions, q \in Keys :
    OneEntry(s, q) /\ (s # p \/ q # k \/ m.mode = "store") => SameEntry(s, q)

Unsubscribes(m, p, k) ==
  m.mode = "unsubscribe" /\ item[k].cached =>
    /\ item'[k].new[p] = item[k].new[p] /\ item'[k].old[p] = item[k].old[p]
    /\ item'[k].chg[p] = item[k].chg[p] /\ item'[k].unsub[p] = item[k].unsub[p] + 1
    /\ item'[k].cached

ChangesSid(m, p, k) ==
  m.mode = "changeSessionId" /\ item[k].cached =>
    /\ item'[k].new[p] = item[k].new[p] /\ item'[k].old[p] = item[k].old[p]
    /\ item'[k].chg[p] = Append(item[k].chg[p], m.sid)
    /\ item'[k].unsub[p] = item[k].unsub[p] /\ item'[k].cached

Subscribes(m, p, k) ==
  m.mode = "subscribe" =>
    /\ item'[k].cached
    /\ \/ /\ item[k].cached
          /\ item'[k].unsub[p] = item[k].unsub[p] /\ item'[k].chg[p] = item[k].chg[p]
          /\ \/ /\ item'[k].new[p] = [mode |-> "subscribe", sid |-> m.sid]
                /\ item'[k].old[p] = item[k].old[p]
             \/ /\ item'[k].old[p] = [mode |-> "subscribe", sid |-> m.sid]
                /\ item'[k].new[p] = item[k].new[p]
       \/ /\ ~item[k].cached /\ item'[k].unsub[p] = 0 /\ item'[k].chg[p] = <<>>
          /\ item'[k].new[p] = [mode |-> "subscribe", sid |-> m.sid]
          /\ item'[k].old[p] = Nobody

\* What a message does to the entry of its session in the item of its campaign,
\* and leaves alone in all others.
LEMMA TakeEntry ==
  ASSUME TypeInv, NEW m \in wire, Take(m), server = "running",
         NEW k, k = m.key, NEW p, p = m.from
  PROVE  /\ LeavesOthers(m, p, k) /\ Unsubscribes(m, p, k)
         /\ ChangesSid(m, p, k) /\ Subscribes(m, p, k)
  <1> USE DEF LeavesOthers, Unsubscribes, ChangesSid, Subscribes
  <1>1. /\ m \in Message /\ p \in Sessions /\ k \in Keys /\ TypeOK /\ item \in [Keys -> Item]
    BY Parts DEF Message, TypeOK
  <1>2. PICK i : i = item[k] /\ i \in Item
    BY <1>1
  <1>3. /\ i.new \in [Sessions -> Request] /\ i.old \in [Sessions -> Request]
        /\ i.unsub \in [Sessions -> Nat] /\ i.chg \in [Sessions -> Seq(Sids)]
    BY <1>2 DEF Item
  <1>4. \A s, q : item'[q] = item[q] => SameEntry(s, q)
    BY DEF SameEntry
  <1>5. server' = server
    BY Zenon DEF Take, Discard, TakeUnsubscribe, TakeChangeSessionId, TakeSubscribe, TakeSingle, TakeStore,
                 backend
  <1>6. CASE UNCHANGED item /\ m.mode \in {"store", "single"}
    BY <1>4, <1>5, <1>6
  <1>7. CASE TakeUnsubscribe(m)
    <2>1. /\ m.mode = "unsubscribe"
          /\ item' = IF i.cached THEN [item EXCEPT ![k].unsub[p] = @ + 1] ELSE item
      BY <1>2, <1>7 DEF TakeUnsubscribe
    <2>2. CASE i.cached
      <3>1. PICK u : u = [i.unsub EXCEPT ![p] = @ + 1]
        OBVIOUS
      <3>2. PICK j : j = [i EXCEPT !.unsub = u]
        OBVIOUS
      <3>3. j.new = i.new /\ j.old = i.old /\ j.chg = i.chg /\ j.unsub = u /\ j.cached = i.cached
        BY <1>2, <3>2 DEF Item
      <3>4. item' = [item EXCEPT ![k] = j]
        BY <1>1, <1>2, <2>1, <2>2, <3>1, <3>2 DEF Item
      <3>5. item'[k] = j /\ \A q \in Keys : q # k => item'[q] = item[q]
        BY <1>1, <3>4
      <3>6. u[p] = i.unsub[p] + 1 /\ \A s \in Sessions : s # p => u[s] = i.unsub[s]
        BY <1>1, <1>3, <3>1
      <3>7. \A s \in Sessions, q \in Keys : s # p \/ q # k => SameEntry(s, q)
        BY <1>2, <1>4, <3>3, <3>5, <3>6 DEF SameEntry
      <3> QED BY <1>2, <1>5, <2>1, <2>2, <3>3, <3>5, <3>6, <3>7
    <2>3. CASE ~i.cached
      <3>1. item' = item
        BY <2>1, <2>3
      <3> QED BY <1>2, <1>4, <1>5, <2>1, <2>3, <3>1
    <2> QED BY <2>2, <2>3, Zenon
  <1>8. CASE TakeChangeSessionId(m)
    <2>1. /\ m.mode = "changeSessionId"
          /\ item' = IF i.cached THEN [item EXCEPT ![k].chg[p] = Append(@, m.sid)] ELSE item
      BY <1>2, <1>8 DEF TakeChangeSessionId
    <2>2. CASE i.cached
      <3>0. PICK a : a = Append(i.chg[p], m.sid)
        OBVIOUS
      <3>1. PICK u : u = [i.chg EXCEPT ![p] = a]
        OBVIOUS
      <3>2. PICK j : j = [i EXCEPT !.chg = u]
        OBVIOUS
      <3>3. j.new = i.new /\ j.old = i.old /\ j.chg = u /\ j.unsub = i.unsub /\ j.cached = i.cached
        BY <1>2, <3>2 DEF Item
      <3>4. item' = [item EXCEPT ![k] = j]
        BY <1>1, <1>2, <2>1, <2>2, <3>0, <3>1, <3>2 DEF Item
      <3>5. item'[k] = j /\ \A q \in Keys : q # k => item'[q] = item[q]
        BY <1>1, <3>4
      <3>6. u[p] = a /\ \A s \in Sessions : s # p => u[s] = i.chg[s]
        BY <1>1, <1>3, <3>1
      <3>7. \A s \in Sessions, q \in Keys : s # p \/ q # k => SameEntry(s, q)
        BY <1>2, <1>4, <3>3, <3>5, <3>6 DEF SameEntry
      <3>8. /\ item'[k].new[p] = item[k].new[p] /\ item'[k].old[p] = item[k].old[p]
            /\ item'[k].chg[p] = Append(item[k].chg[p], m.sid)
            /\ item'[k].unsub[p] = item[k].unsub[p] /\ item'[k].cached
        BY <1>2, <2>2, <3>0, <3>3, <3>5, <3>6
      <3>9. m.mode # "unsubscribe" /\ m.mode # "subscribe" /\ m.mode # "store"
        BY <2>1
      <3> QED BY <1>5, <3>7, <3>8, <3>9, Zenon
    <2>3. CASE ~i.cached
      <3>1. item' = item
        BY <2>1, <2>3
      <3> QED BY <1>2, <1>4, <1>5, <2>1, <2>3, <3>1
    <2> QED BY <2>2, <2>3
  <1>9. CASE TakeSubscribe(m)
    <2>1. PICK r : r = [mode |-> "subscribe", sid |-> m.sid]
      OBVIOUS
    <2>2. m.mode = "subscribe"
      BY <1>9 DEF TakeSubscribe
    <2>3. \/ i.cached /\ item' = [item EXCEPT ![k].old[p] = r]
          \/ i.cached /\ item' = [item EXCEPT ![k].new[p] = r]
          \/ ~i.cached /\ item' = [item EXCEPT ![k] =
                           [NoItem EXCEPT !.cached = TRUE, !.fetching = TRUE, !.new[p] = r]]
      BY <1>2, <1>9, <2>1, Zenon DEF TakeSubscribe
    <2>4. CASE i.cached /\ item' = [item EXCEPT ![k].old[p] = r]
      <3>1. PICK u : u = [i.old EXCEPT ![p] = r]
        OBVIOUS
      <3>2. PICK j : j = [i EXCEPT !.old = u]
        OBVIOUS
      <3>3. j.new = i.new /\ j.old = u /\ j.chg = i.chg /\ j.unsub = i.unsub /\ j.cached = i.cached
        BY <1>2, <3>2 DEF Item
      <3>4. item' = [item EXCEPT ![k] = j]
        BY <1>1, <1>2, <2>4, <3>1, <3>2 DEF Item
      <3>5. item'[k] = j /\ \A q \in Keys : q # k => item'[q] = item[q]
        BY <1>1, <3>4
      <3>6. u[p] = r /\ \A s \in Sessions : s # p => u[s] = i.old[s]
        BY <1>1, <1>3, <3>1
      <3>7. \A s \in Sessions, q \in Keys : s # p \/ q # k => SameEntry(s, q)
        BY <1>2, <1>4, <3>3, <3>5, <3>6 DEF SameEntry
      <3> QED BY <1>2, <1>5, <2>1, <2>2, <2>4, <3>3, <3>5, <3>6, <3>7
    <2>5. CASE i.cached /\ item' = [item EXCEPT ![k].new[p] = r]
      <3>1. PICK u : u = [i.new EXCEPT ![p] = r]
        OBVIOUS
      <3>2. PICK j : j = [i EXCEPT !.new = u]
        OBVIOUS
      <3>3. j.new = u /\ j.old = i.old /\ j.chg = i.chg /\ j.unsub = i.unsub /\ j.cached = i.cached
        BY <1>2, <3>2 DEF Item
      <3>4. item' = [item EXCEPT ![k] = j]
        BY <1>1, <1>2, <2>5, <3>1, <3>2 DEF Item
      <3>5. item'[k] = j /\ \A q \in Keys : q # k => item'[q] = item[q]
        BY <1>1, <3>4
      <3>6. u[p] = r /\ \A s \in Sessions : s # p => u[s] = i.new[s]
        BY <1>1, <1>3, <3>1
      <3>7. \A s \in Sessions, q \in Keys : s # p \/ q # k => SameEntry(s, q)
        BY <1>2, <1>4, <3>3, <3>5, <3>6 DEF SameEntry
      <3> QED BY <1>2, <1>5, <2>1, <2>2, <2>5, <3>3, <3>5, <3>6, <3>7
    <2>6. CASE ~i.cached /\ item' = [item EXCEPT ![k] =
                           [NoItem EXCEPT !.cached = TRUE, !.fetching = TRUE, !.new[p] = r]]
      <3>1. PICK n : n = NoItem /\ n \in Item
        BY EmptyStart
      <3>2. \A s \in Sessions : /\ n.new[s] = Nobody /\ n.old[s] = Nobody
                                /\ n.unsub[s] = 0 /\ n.chg[s] = <<>>
        BY <3>1, EmptyStart
      <3>3. PICK u : u = [n.new EXCEPT ![p] = r]
        OBVIOUS
      <3>4. PICK j : j = [n EXCEPT !.cached = TRUE, !.fetching = TRUE, !.new = u]
        OBVIOUS
      <3>5. j.new = u /\ j.old = n.old /\ j.chg = n.chg /\ j.unsub = n.unsub /\ j.cached = TRUE
        BY <3>1, <3>4 DEF Item
      <3>6. item' = [item EXCEPT ![k] = j]
        BY <2>6, <3>1, <3>3, <3>4 DEF Item
      <3>7. item'[k] = j /\ \A q \in Keys : q # k => item'[q] = item[q]
        BY <1>1, <3>6
      <3>8. n.new \in [Sessions -> Request]
        BY <3>1 DEF Item
      <3>9. u[p] = r /\ \A s \in Sessions : s # p => u[s] = Nobody
        BY <1>1, <3>2, <3>3, <3>8
      <3>10. ASSUME NEW s \in Sessions, s # p, OneEntry(s, k) PROVE SameEntry(s, k)
        <4>1. i.new[s] = Nobody /\ i.old[s] = Nobody /\ i.unsub[s] = 0 /\ i.chg[s] = <<>>
          BY <1>2, <2>6, <3>10 DEF OneEntry, Has
        <4>2. /\ item'[k].new[s] = Nobody /\ item'[k].old[s] = Nobody
              /\ item'[k].unsub[s] = 0 /\ item'[k].chg[s] = <<>>
          BY <3>2, <3>5, <3>7, <3>9, <3>10
        <4> QED BY <1>2, <2>6, <4>1, <4>2 DEF SameEntry
      <3>11. \A s \in Sessions, q \in Keys : OneEntry(s, q) /\ (s # p \/ q # k) => SameEntry(s, q)
        BY <1>4, <3>7, <3>10
      <3>12. /\ item'[k].cached /\ item'[k].unsub[p] = 0 /\ item'[k].chg[p] = <<>>
             /\ item'[k].new[p] = r /\ item'[k].old[p] = Nobody
        BY <1>1, <3>2, <3>5, <3>7, <3>9
      <3> QED BY <1>2, <1>5, <2>1, <2>2, <2>6, <3>11, <3>12
    <2> QED BY <2>3, <2>4, <2>5, <2>6, Zenon
  <1>10. CASE TakeSingle(m) /\ i.cached
    <2>1. m.mode = "single" /\ item' = [item EXCEPT ![k].new[p] = AsSingle(m)]
      BY <1>2, <1>10 DEF TakeSingle
    <2>2. PICK r : r = AsSingle(m)
      OBVIOUS
    <2>3. PICK u : u = [i.new EXCEPT ![p] = r]
      OBVIOUS
    <2>4. PICK j : j = [i EXCEPT !.new = u]
      OBVIOUS
    <2>5. j.new = u /\ j.old = i.old /\ j.chg = i.chg /\ j.unsub = i.unsub /\ j.cached = i.cached
      BY <1>2, <2>4 DEF Item
    <2>6. item' = [item EXCEPT ![k] = j]
      BY <1>1, <1>2, <2>1, <2>2, <2>3, <2>4 DEF Item
    <2>7. item'[k] = j /\ \A q \in Keys : q # k => item'[q] = item[q]
      BY <1>1, <2>6
    <2>8. \A s \in Sessions : s # p => u[s] = i.new[s]
      BY <1>1, <1>3, <2>3
    <2>9. \A s \in Sessions, q \in Keys : s # p \/ q # k => SameEntry(s, q)
      BY <1>2, <1>4, <2>5, <2>7, <2>8 DEF SameEntry
    <2> QED BY <1>5, <2>1, <2>9
  <1>11. Discard(m) => FALSE
    BY DEF Discard
  <1>12. TakeStore(m) \/ (TakeSingle(m) /\ ~i.cached) => UNCHANGED item /\ m.mode \in {"store", "single"}
    BY <1>2 DEF TakeStore, TakeSingle
  <1> QED BY <1>6, <1>7, <1>8, <1>9, <1>10, <1>11, <1>12, Zenon DEF Take

LEMMA TakeBelief ==
  ASSUME TypeInv, BeliefInv, NEW m \in wire, Take(m)
  PROVE  BeliefInv'
  <1>1. Taken(m)
    BY DEF Take, Discard, TakeUnsubscribe, TakeChangeSessionId, TakeSubscribe, TakeSingle,
           TakeStore, Took
  <1>2. /\ m \in Message /\ m.from \in Sessions /\ m.key \in Keys
        /\ wire' = wire \ {m} /\ crossed \subseteq crossed' /\ UNCHANGED <<gui, missed>>
        /\ Js \subseteq Sessions
    BY <1>1, TakenParts, Bounds
  <1>3. server' = server
    BY Zenon DEF Take, Discard, TakeUnsubscribe, TakeChangeSessionId, TakeSubscribe, TakeSingle, TakeStore,
                 backend
  <1>4. crossed' = IF Overtakes(m) THEN crossed \cup {<<m.from, m.key>>} ELSE crossed
    BY <1>1 DEF Taken
  <1>5. PICK p, k : p = m.from /\ k = m.key
    OBVIOUS
  <1>6. \A s \in Js, q \in Keys : InTurn(s, q)' => server = "running" /\ Belief(s, q)
    BY <1>2, <1>3 DEF BeliefInv, InTurn, Belief
  <1>7. \A w \in wire : w \in Message /\ (w.from = p /\ w.n = m.n => w = m)
    BY <1>5, Parts DEF MessagesOK, Id
  \* What others said of it, or he said of others.
  <1>8. ASSUME NEW s \in Js, NEW q \in Keys, server = "running", Belief(s, q),
               s # p \/ q # k \/ m.mode = "store"
        PROVE  Belief(s, q)'
    <2>1. SameEntry(s, q)
      <3>1. OneEntry(s, q) /\ s \in Sessions
        BY <1>2, <1>8 DEF Belief
      <3>2. LeavesOthers(m, p, k)
        BY <1>5, <1>8, TakeEntry
      <3> QED BY <1>2, <1>8, <3>1, <3>2, Zenon DEF LeavesOthers
    <2>2. Talk(s, q)' = Talk(s, q)
      BY <1>2, <1>5, <1>8 DEF Talk
    <2>3. SameView(s, q)
      BY <1>2 DEF SameView
    <2> QED BY <1>8, <2>1, <2>2, <2>3, NothingSaid
  \* What he said of it, in order.
  <1>9. ASSUME p \in Js, InTurn(p, k)', server = "running", Belief(p, k), m.mode # "store"
        PROVE  Belief(p, k)'
    <2>1. ~Overtakes(m)
      BY <1>4, <1>5, <1>9 DEF InTurn
    <2>2. m \in Talk(p, k)
      BY <1>5, <1>9 DEF Talk
    <2>3. First(p, k, m)
      <3>1. \A w \in Talk(p, k) : ~(w.n < m.n) /\ w.n \in Nat /\ m.n \in Nat
        BY <1>2, <1>5, <1>7, <2>1 DEF Overtakes, Talk, Message
      <3> QED BY <2>2, <3>1 DEF First
    <2>4. Talk(p, k)' = Talk(p, k) \ {m}
      BY <1>2 DEF Talk
    <2>5. \A w \in Talk(p, k) : w \in Message /\ (w.n = m.n => w = m)
      BY <1>7 DEF Talk
    <2>6. OneEntry(p, k) /\ TalkIsNext(p, k) /\ (m.mode = "subscribe" <=> ~Believed(p, k))
      BY <1>9, <2>2, <2>3 DEF Belief, TalkIsNext
    <2>7. m.mode \in {"subscribe", "changeSessionId", "unsubscribe"}
      BY <1>2, <1>5, <1>9 DEF BeliefInv, Message
    <2>8. PICK i, j : i = item[k] /\ j = item'[k]
      OBVIOUS
    <2>9. OneEntry(p, k)' /\ (Believed(p, k)' <=> m.mode # "unsubscribe")
          /\ (m.mode # "unsubscribe" => SidOf(p, k)' = m.sid)
      <3>1. CASE m.mode = "unsubscribe"
        <4>1. Believed(p, k) /\ i.cached /\ i.unsub[p] = 0 /\ Has(p, k)
          BY <2>6, <2>8, <3>1 DEF OneEntry, Believed
        <4>2. /\ j.new[p] = i.new[p] /\ j.old[p] = i.old[p] /\ j.chg[p] = i.chg[p]
              /\ j.unsub[p] = i.unsub[p] + 1 /\ j.cached
          <5>1. Unsubscribes(m, p, k)
            BY <1>5, <1>9, TakeEntry
          <5> QED BY <2>8, <3>1, <4>1, <5>1 DEF Unsubscribes
        <4>3. j.unsub[p] = 1
          BY <4>1, <4>2
        <4> QED BY <2>6, <2>8, <3>1, <4>1, <4>2, <4>3 DEF OneEntry, Believed, Has
      <3>2. CASE m.mode = "changeSessionId"
        <4>1. Believed(p, k) /\ i.cached /\ i.unsub[p] = 0 /\ Has(p, k)
          BY <2>6, <2>8, <3>2 DEF OneEntry, Believed
        <4>2. i.chg[p] = <<>>
          BY <1>5, <2>1, <2>8, <3>2 DEF Overtakes
        <4>3. /\ j.new[p] = i.new[p] /\ j.old[p] = i.old[p] /\ j.chg[p] = Append(i.chg[p], m.sid)
              /\ j.unsub[p] = i.unsub[p] /\ j.cached
          <5>1. ChangesSid(m, p, k)
            BY <1>5, <1>9, TakeEntry
          <5> QED BY <2>8, <3>2, <4>1, <5>1 DEF ChangesSid
        <4>4. j.chg[p] = <<m.sid>> /\ Len(j.chg[p]) = 1 /\ Head(j.chg[p]) = m.sid /\ j.chg[p] # <<>>
          BY <4>2, <4>3
        <4> QED BY <2>6, <2>8, <3>2, <4>1, <4>3, <4>4 DEF OneEntry, Believed, Has, SidOf
      <3>3. CASE m.mode = "subscribe"
        <4>1. i.unsub[p] = 0 /\ i.chg[p] = <<>>
          <5>1. ~(i.unsub[p] > 0) /\ i.chg[p] = <<>>
            BY <1>5, <2>1, <2>8, <3>3 DEF Overtakes
          <5>2. i.unsub[p] \in {0, 1}
            BY <2>6, <2>8 DEF OneEntry
          <5> QED BY <5>1, <5>2
        <4>2. i.new[p] = Nobody /\ i.old[p] = Nobody
          BY <2>6, <2>8, <3>3, <4>1 DEF Believed, Has
        <4>3. PICK r : r = [mode |-> "subscribe", sid |-> m.sid]
          OBVIOUS
        <4>4. r # Nobody /\ r.mode = "subscribe" /\ r.sid = m.sid
          BY <4>3, EmptyStart
        <4>5. /\ j.cached /\ j.unsub[p] = 0 /\ j.chg[p] = <<>>
              /\ \/ j.new[p] = r /\ j.old[p] = Nobody
                 \/ j.old[p] = r /\ j.new[p] = Nobody
          <5>1. /\ j.cached
                /\ \/ /\ i.cached /\ j.unsub[p] = i.unsub[p] /\ j.chg[p] = i.chg[p]
                      /\ \/ j.new[p] = r /\ j.old[p] = i.old[p]
                         \/ j.old[p] = r /\ j.new[p] = i.new[p]
                   \/ /\ ~i.cached /\ j.unsub[p] = 0 /\ j.chg[p] = <<>>
                      /\ j.new[p] = r /\ j.old[p] = Nobody
            <6>1. Subscribes(m, p, k)
              BY <1>5, <1>9, TakeEntry
            <6> QED BY <2>8, <3>3, <4>3, <6>1 DEF Subscribes
          <5> QED BY <4>1, <4>2, <5>1
        <4> QED BY <2>8, <3>3, <4>4, <4>5 DEF OneEntry, Believed, Has, SidOf
      <3> QED BY <2>7, <3>1, <3>2, <3>3
    <2>10. gui' = gui
      BY <1>2
    <2> QED BY <1>2, <2>3, <2>4, <2>5, <2>6, <2>9, <2>10, FirstWordTaken
  <1>10. \A s \in Js, q \in Keys : InTurn(s, q)' => Belief(s, q)'
    <2> SUFFICES ASSUME NEW s \in Js, NEW q \in Keys, InTurn(s, q)' PROVE Belief(s, q)'
      OBVIOUS
    <2>1. CASE s # p \/ q # k \/ m.mode = "store"
      BY <1>6, <1>8, <2>1
    <2>2. CASE s = p /\ q = k /\ m.mode # "store"
      BY <1>6, <1>9, <2>2
    <2> QED BY <2>1, <2>2
  <1>11. \A s \in Js : \A w \in wire' : w.from = s => w.mode # "single"
    BY <1>2 DEF BeliefInv
  <1> QED BY <1>10, <1>11 DEF BeliefInv, Belief

\* A step of the database, or its timer.
LEMMA PollBelief ==
  ASSUME TypeInv, BeliefInv, NEW c \in Keys, PollStep(c)
  PROVE  BeliefInv'
  <1>1. /\ TypeOK /\ item \in [Keys -> Item] /\ Js \subseteq Sessions
        /\ server \in {"running", "stopping", "finished", "joined"}
    BY Parts, Bounds DEF TypeOK
  <1>2. /\ UNCHANGED <<wire, gui, crossed>> /\ missed \subseteq missed'
        /\ server' \in {server, "finished"}
    <2>1. ASSUME PollingTimeout(c) PROVE UNCHANGED <<wire, gui, crossed, missed, server>>
      BY <2>1, Zenon DEF PollingTimeout, hist
    <2>2. ASSUME \/ AnswerPoll(c) \/ PollFound(c) \/ PollNotFound(c) \/ PollError(c)
                 \/ backoffPoll(c) \/ retryPoll(c)
          PROVE  /\ UNCHANGED <<wire, gui, crossed>> /\ missed \subseteq missed'
                 /\ server' \in {server, "finished"}
      BY <2>2 DEF AnswerPoll, PollFound, PollNotFound, PollError, backoffPoll, retryPoll, hist, Got
    <2> QED BY <2>1, <2>2 DEF PollStep
  <1>3. \A s \in Js, q \in Keys : InTurn(s, q)' => InTurn(s, q) /\ Belief(s, q)
    BY <1>1, <1>2 DEF BeliefInv, InTurn, Belief
  <1>4. PICK i : i = item[c] /\ i \in Item
    BY <1>1
  <1>5. \A s, q : SameView(s, q) /\ Talk(s, q)' = Talk(s, q)
    BY <1>2 DEF SameView, Talk
  <1>6. \A s, q : item'[q] = item[q] => SameEntry(s, q)
    BY DEF SameEntry
  <1>7. ASSUME NEW s \in Js, NEW q \in Keys, Belief(s, q), SameEntry(s, q)
        PROVE  Belief(s, q)'
    BY <1>5, <1>7, NothingSaid
  \* Most steps keep the subscriptions, or leave nothing to say of the campaign.
  <1>8. ASSUME \A s \in Js, q \in Keys : Belief(s, q) /\ InTurn(s, q)' => Belief(s, q)'
        PROVE  BeliefInv'
    BY <1>2, <1>3, <1>8 DEF BeliefInv, Belief
  <1>9. CASE AnswerPoll(c) \/ backoffPoll(c) \/ retryPoll(c)
    <2>1. item' = item
      BY <1>9 DEF AnswerPoll, backoffPoll, retryPoll
    <2> QED BY <1>6, <1>7, <1>8, <2>1
  <1>10. CASE PollNotFound(c)
    <2>1. c \in missed' /\ \A q \in Keys : q # c => item'[q] = item[q]
      BY <1>1, <1>10 DEF PollNotFound
    <2> QED BY <1>6, <1>7, <1>8, <2>1 DEF InTurn
  <1>11. CASE PollError(c)
    <2>1. PICK j : j = [i EXCEPT !.timer = TRUE]
      OBVIOUS
    <2>2. /\ j.new = i.new /\ j.old = i.old /\ j.unsub = i.unsub /\ j.chg = i.chg
          /\ j.cached = i.cached
      BY <1>4, <2>1 DEF Item
    <2>3. item' = [item EXCEPT ![c] = j]
      BY <1>1, <1>4, <1>11, <2>1 DEF PollError
    <2>4. item'[c] = j /\ \A q \in Keys : q # c => item'[q] = item[q]
      BY <1>1, <2>3
    <2>5. \A s \in Js, q \in Keys : SameEntry(s, q)
      BY <1>4, <1>6, <2>2, <2>4 DEF SameEntry
    <2> QED BY <1>7, <1>8, <2>5
  <1>12. CASE PollFound(c)
    <2>1. PICK j : j = Rebound(Unsubscribed(i))
      OBVIOUS
    <2>2. j \in Item /\ j.cached = i.cached
      BY <1>4, <2>1, ItemSteps
    <2>3. PICK new, old :
            /\ new = [s \in Sessions |-> IF j.new[s].mode = "single"
                                         THEN [j.new[s] EXCEPT !.mode = "next"] ELSE Nobody]
            /\ old = [s \in Sessions |-> IF j.new[s].mode = "subscribe" THEN j.new[s] ELSE j.old[s]]
      OBVIOUS
    <2>4. PICK f : f = Polled(j, poll[c].cas)
      OBVIOUS
    <2>5. /\ f.new = new /\ f.old = old /\ f.unsub = j.unsub /\ f.chg = j.chg
          /\ f.cached = j.cached
      <3>1. f = [j EXCEPT !.new = new, !.old = old, !.fetching = FALSE, !.cas = poll[c].cas,
                          !.timer = TRUE]
        BY <2>3, <2>4 DEF Polled, Aged
      <3> QED BY <2>2, <3>1 DEF Item
    <2>6. item'[c] = f /\ \A q \in Keys : q # c => item'[q] = item[q]
      <3>1. item' = [item EXCEPT ![c] = f]
        BY <1>4, <1>12, <2>1, <2>4 DEF PollFound
      <3> QED BY <1>1, <3>1
    <2>7. ASSUME NEW s \in Js, Belief(s, c) PROVE Belief(s, c)'
      <3>1. OneEntry(s, c) /\ s \in Sessions
        BY <1>1, <2>7 DEF Belief
      <3>2. /\ j.unsub[s] = 0 /\ j.chg[s] = <<>>
            /\ ~Believed(s, c) => j.new[s] = Nobody /\ j.old[s] = Nobody
            /\ Believed(s, c) =>
                 \E r : /\ r = [mode |-> "subscribe", sid |-> SidOf(s, c)] /\ r # Nobody
                        /\ \/ j.new[s] = r /\ j.old[s] = Nobody
                           \/ j.new[s] = Nobody /\ j.old[s] = r
        BY <1>1, <1>4, <2>1, <3>1, AfterPoll
      <3>3. /\ f.new[s] = IF j.new[s].mode = "single" THEN [j.new[s] EXCEPT !.mode = "next"] ELSE Nobody
            /\ f.old[s] = IF j.new[s].mode = "subscribe" THEN j.new[s] ELSE j.old[s]
            /\ f.unsub[s] = 0 /\ f.chg[s] = <<>>
        BY <2>3, <2>5, <3>1, <3>2
      <3>4. PICK r : r = [mode |-> "subscribe", sid |-> SidOf(s, c)]
        OBVIOUS
      <3>5. r.mode = "subscribe" /\ r.sid = SidOf(s, c) /\ Nobody.mode = "none" /\ r # Nobody
        BY <3>4, EmptyStart
      <3>6. f.new[s] = Nobody /\ f.old[s] = IF Believed(s, c) THEN r ELSE Nobody
        <4>1. CASE Believed(s, c)
          <5>1. (j.new[s] = r /\ j.old[s] = Nobody) \/ (j.new[s] = Nobody /\ j.old[s] = r)
            BY <3>2, <3>4, <4>1
          <5> QED BY <3>3, <3>5, <4>1, <5>1
        <4>2. CASE ~Believed(s, c)
          BY <3>2, <3>3, <3>5, <4>2
        <4> QED BY <4>1, <4>2
      <3>7. Believed(s, c) => f.cached
        BY <1>4, <2>2, <2>5, <3>1 DEF OneEntry, Believed
      <3>8. Believed(s, c)' <=> Believed(s, c)
        BY <2>6, <3>3, <3>5, <3>6 DEF Believed, Has
      <3>9. Believed(s, c) => SidOf(s, c)' = SidOf(s, c)
        BY <2>6, <3>3, <3>5, <3>6 DEF SidOf
      <3>10. OneEntry(s, c)'
        BY <2>6, <3>3, <3>5, <3>6, <3>7 DEF OneEntry, Has
      <3>11. TalkIsNext(s, c)'
        <4>1. TalkIsNext(s, c) /\ Talk(s, c)' = Talk(s, c) /\ gui' = gui
          BY <1>2, <1>5, <2>7 DEF Belief
        <4>2. /\ \A m : First(s, c, m)' <=> First(s, c, m)
              /\ \A m : Last(s, c, m)' <=> Last(s, c, m)
              /\ \A m, w : Follows2(s, c, m, w)' <=> Follows2(s, c, m, w)
          BY <4>1 DEF First, Last, Follows2
        <4> QED BY <3>8, <3>9, <4>1, <4>2 DEF TalkIsNext
      <3> QED BY <3>10, <3>11 DEF Belief
    <2>8. \A s \in Js, q \in Keys : Belief(s, q) => Belief(s, q)'
      <3> SUFFICES ASSUME NEW s \in Js, NEW q \in Keys, Belief(s, q) PROVE Belief(s, q)'
        OBVIOUS
      <3>1. CASE q = c
        BY <2>7, <3>1
      <3>2. CASE q # c
        BY <1>6, <1>7, <2>6, <3>2
      <3> QED BY <3>1, <3>2
    <2> QED BY <1>8, <2>8
  <1>13. CASE PollingTimeout(c)
    <2>1. PICK subs : subs = IF \E s \in Sessions : i.old[s] # Nobody THEN i.old ELSE i.new
      OBVIOUS
    <2>2. \/ item' = [item EXCEPT ![c].fetching = TRUE, ![c].timer = FALSE]
          \/ item' = [item EXCEPT ![c] = NoItem] /\ \A s \in Sessions : subs[s] = Nobody
      BY <1>4, <1>13, <2>1, Zenon DEF PollingTimeout
    <2>3. CASE item' = [item EXCEPT ![c].fetching = TRUE, ![c].timer = FALSE]
      <3>1. PICK j : j = [i EXCEPT !.fetching = TRUE, !.timer = FALSE]
        OBVIOUS
      <3>2. /\ j.new = i.new /\ j.old = i.old /\ j.unsub = i.unsub /\ j.chg = i.chg
            /\ j.cached = i.cached
        BY <1>4, <3>1 DEF Item
      <3>3. item' = [item EXCEPT ![c] = j]
        BY <1>1, <1>4, <2>3, <3>1
      <3>4. item'[c] = j /\ \A q \in Keys : q # c => item'[q] = item[q]
        BY <1>1, <3>3
      <3>5. \A s \in Js, q \in Keys : SameEntry(s, q)
        BY <1>4, <1>6, <3>2, <3>4 DEF SameEntry
      <3> QED BY <1>7, <1>8, <3>5
    <2>4. CASE item' = [item EXCEPT ![c] = NoItem] /\ \A s \in Sessions : subs[s] = Nobody
      <3>1. \A s \in Sessions : i.new[s] = Nobody /\ i.old[s] = Nobody
        BY <2>1, <2>4
      <3>2. PICK n : n = NoItem
        OBVIOUS
      <3>3. \A s \in Sessions : /\ n.new[s] = Nobody /\ n.old[s] = Nobody
                                /\ n.unsub[s] = 0 /\ n.chg[s] = <<>>
        BY <3>2, EmptyStart
      <3>4. item'[c] = n /\ \A q \in Keys : q # c => item'[q] = item[q]
        BY <1>1, <2>4, <3>2
      <3>5. ASSUME NEW s \in Js, Belief(s, c) PROVE Belief(s, c)'
        <4>1. OneEntry(s, c) /\ s \in Sessions
          BY <1>1, <3>5 DEF Belief
        <4>2. i.unsub[s] = 0 /\ i.chg[s] = <<>> /\ ~Has(s, c) /\ ~Believed(s, c)
          BY <1>4, <3>1, <4>1 DEF OneEntry, Has, Believed
        <4>3. ~Has(s, c)' /\ ~Believed(s, c)'
          BY <3>3, <3>4, <4>1 DEF Has, Believed
        <4>4. OneEntry(s, c)'
          BY <3>3, <3>4, <4>1, <4>3 DEF OneEntry
        <4>5. TalkIsNext(s, c)'
          <5>1. TalkIsNext(s, c) /\ Talk(s, c)' = Talk(s, c) /\ gui' = gui
            BY <1>2, <1>5, <3>5 DEF Belief
          <5>2. /\ \A m : First(s, c, m)' <=> First(s, c, m)
                /\ \A m : Last(s, c, m)' <=> Last(s, c, m)
                /\ \A m, w : Follows2(s, c, m, w)' <=> Follows2(s, c, m, w)
            BY <5>1 DEF First, Last, Follows2
          <5> QED BY <4>2, <4>3, <5>1, <5>2 DEF TalkIsNext
        <4> QED BY <4>4, <4>5 DEF Belief
      <3>6. \A s \in Js, q \in Keys : Belief(s, q) => Belief(s, q)'
        <4> SUFFICES ASSUME NEW s \in Js, NEW q \in Keys, Belief(s, q) PROVE Belief(s, q)'
          OBVIOUS
        <4>1. CASE q = c
          BY <3>5, <4>1
        <4>2. CASE q # c
          BY <1>6, <1>7, <3>4, <4>2
        <4> QED BY <4>1, <4>2
      <3> QED BY <1>8, <3>6
    <2> QED BY <2>2, <2>3, <2>4
  <1> QED BY <1>9, <1>10, <1>11, <1>12, <1>13 DEF PollStep

LEMMA OtherBelief ==
  ASSUME BeliefInv, UNCHANGED <<wire, gui, item, crossed, missed>>,
         server' = "running" => server = "running"
  PROVE  BeliefInv'
  <1> SUFFICES ASSUME NEW s \in Js, NEW k \in Keys, InTurn(s, k)' PROVE Belief(s, k)'
    BY DEF BeliefInv, Belief
  <1>1. Belief(s, k)
    BY DEF BeliefInv, InTurn, Belief
  <1>2. SameEntry(s, k) /\ SameView(s, k) /\ Talk(s, k)' = Talk(s, k)
    BY DEF SameEntry, SameView, Talk
  <1> QED BY <1>1, <1>2, NothingSaid

LEMMA BeliefInit ==
  ASSUME Init
  PROVE  BeliefInv
  <1>1. wire = {} /\ item = [k \in Keys |-> NoItem] /\ gui = [s \in Sessions |-> NewGui]
    BY DEF Init
  <1> SUFFICES ASSUME NEW s \in Js, NEW k \in Keys PROVE OneEntry(s, k) /\ TalkIsNext(s, k)
    BY <1>1 DEF BeliefInv
  <1>2. s \in Sessions /\ item[k] = NoItem /\ gui[s].on = NoKey /\ k # NoKey
    BY <1>1, Bounds DEF NewGui
  <1>3. /\ item[k].new[s] = Nobody /\ item[k].old[s] = Nobody
        /\ item[k].unsub[s] = 0 /\ item[k].chg[s] = <<>>
    BY <1>2, EmptyStart
  <1>4. OneEntry(s, k) /\ ~Believed(s, k)
    BY <1>3 DEF OneEntry, Believed, Has
  <1>5. Talk(s, k) = {}
    BY <1>1 DEF Talk
  <1> QED BY <1>2, <1>4, <1>5 DEF TalkIsNext

LEMMA BeliefStep ==
  ASSUME CountInv, BeliefInv, [Next]_vars
  PROVE  BeliefInv'
  <1>0. TypeInv
    BY DEF CountInv
  <1>1. ASSUME NEW s \in Sessions, SessionStep(s) PROVE BeliefInv'
    BY <1>0, <1>1, SessionBelief
  <1>2. ASSUME NEW m \in wire, Take(m) PROVE BeliefInv'
    BY <1>0, <1>2, TakeBelief
  <1>3. ASSUME NEW k \in Keys, PollStep(k) PROVE BeliefInv'
    BY <1>0, <1>3, PollBelief
  <1>4. ASSUME NEW d \in direct, DirectStep(d) PROVE BeliefInv'
    BY <1>4, OtherBelief DEF DirectStep, AnswerDirect, DirectAnswered, DirectError, backoffDirect,
                retryDirect, hist, Got
  <1>5. ASSUME \/ \E k \in Keys : OtherStore(k)
               \/ BeginStopping \/ finalCleanupAndJoin \/ UNCHANGED vars
        PROVE  BeliefInv'
    BY <1>5, OtherBelief DEF OtherStore, BeginStopping, finalCleanupAndJoin, vars, backend, hist
  <1> QED BY <1>1, <1>2, <1>3, <1>4, <1>5, Zenon DEF Next

\* As long as a session's words on a campaign are taken in order, the backend
\* posts to it exactly while its page shows the campaign, under the session id
\* it has now, whatever polls, errors, retries and logins come between
\* (NewSubscribers, Subscribers and the requests to process momentarily).
THEOREM SubscriptionsAreRight == Spec => []SubscriptionsMatchPages
  <1>1. Init => BeliefInv
    BY BeliefInit
  <1>2. CountInv /\ BeliefInv /\ [Next]_vars => BeliefInv'
    BY BeliefStep
  <1>3. CountInv /\ BeliefInv => SubscriptionsMatchPages
    BY SubscriptionsFollow DEF CountInv, TypeInv
  <1> QED BY <1>1, <1>2, <1>3, CountsInvariant, PTL DEF Spec
=============================================================================
