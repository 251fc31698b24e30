--------------------------- MODULE GetAndSubscribe ---------------------------
(***************************************************************************)
(* The Couchbase backend of ABC2 (AnonymousBitcoinComputingCouchbaseDB): a *)
(* libevent thread through which the Wt sessions of one node reach the     *)
(* database, and which polls every campaign document that somebody is      *)
(* looking at and posts its changes to the pages showing it.               *)
(*                                                                         *)
(*   session --wire--> cache item --poll--> Couchbase                      *)
(*      ^-----inbox-------'   ^---100 ms timer--'                          *)
(*                                                                         *)
(* Each step is one handler: of a click in a session, of a message taken   *)
(* from one of the queues, of a timer, of an answer of the database.       *)
(***************************************************************************)
EXTENDS Integers, Sequences, FiniteSetsExt

CONSTANTS
  Sessions,      \* Wt sessions, by the address of their GUI object
  Js,            \* those whose browser runs JavaScript
  Keys,          \* campaign documents
  NoKey,
  MaxVersion,    \* bound: stores of each document
  MaxSent,       \* bound: MaxSent[s] messages are sent by session s
  MaxErrors,     \* bound: requests that end in a database error
  MaxEvents      \* bound: messages and errors altogether

ASSUME GetAndSubscribeAssumption ==
  /\ Js \subseteq Sessions /\ NoKey \notin Keys
  /\ MaxVersion \in Nat /\ MaxSent \in [Sessions -> Nat] /\ MaxErrors \in Nat
  /\ MaxEvents \in Nat

VARIABLES
  doc,       \* doc[k]: the CAS of document k in Couchbase, 0 if there is none
  item,      \* m_GetAndSubscribeCacheHash
  poll,      \* poll[k]: the get that fetches k for its cache item
  direct,    \* the stores and hard gets that sessions wait for
  wire,      \* messages in the queues: several queues, hence in no order
  gui,       \* the sessions' members
  inbox,     \* inbox[s]: what was posted to session s and not yet handled
  pending,   \* m_PendingGetCount, m_PendingStoreCount
  server,    \* m_NoMoreAllowed..., m_IsFinishedWithAllPendingRequests, end of the loop
  errors,    \* how many errors may still happen
  crossed,   \* history: <<s, k>> whose messages did not take effect in order
  missed,    \* history: keys for which a poll found no document
  asked      \* history: the version of its document when s last asked for it

backend == <<item, poll, direct, pending, server>>
hist    == <<crossed, missed, asked>>
vars    == <<doc, backend, wire, gui, inbox, errors, hist>>

Sids    == Nat
Version == 0..MaxVersion
\* A request kept as a subscription: the page that made it, by session id.
\* "next" is a "single" that has let one poll pass.
Request == [mode: {"none", "subscribe", "single", "next"}, sid: Sids]
Item    == [cached: BOOLEAN,             \* in m_GetAndSubscribeCacheHash
            fetching: BOOLEAN,           \* CurrentlyFetchingPossiblyNew
            cas: Version,                \* Document, DocumentCAS
            new: [Sessions -> Request],  \* NewSubscribers
            old: [Sessions -> Request],  \* Subscribers
            unsub: [Sessions -> Nat],      \* ...RequestsToProcessMomentarily
            chg: [Sessions -> Seq(Sids)],
            timer: BOOLEAN]
Poll    == [phase: {"none", "sent", "answered", "backoff"}, by: Sessions \cup {NoKey},
            sid: Sids, cas: Version]
Message == [from: Sessions, n: Nat, key: Keys, sid: Sids, cas: Version,
            mode: {"subscribe", "changeSessionId", "unsubscribe", "single", "store"}]
Direct  == [msg: Message, phase: {"sent", "answered", "backoff"}, cas: Version]
Shown   == [key: Keys \cup {NoKey}, cas: Version]
Post    == [to: {"page", "store"}, what: Shown]   \* cas 0: no such document, or an error
Gui     == [on: Keys \cup {NoKey},       \* m_CurrentlySubscribedTo
            sid: Sids, sent: Nat,
            made: BOOLEAN,               \* m_AdvertisingBuy...Widget exists
            shown: Shown,                \* the document the page has, and its CAS
            waits: {"no", "page", "store"}]       \* for what rendering is deferred

Nobody == [mode |-> "none", sid |-> 0]
NoItem == [cached |-> FALSE, fetching |-> FALSE, cas |-> 0,
           new |-> [s \in Sessions |-> Nobody], old |-> [s \in Sessions |-> Nobody],
           unsub |-> [s \in Sessions |-> 0], chg |-> [s \in Sessions |-> <<>>],
           timer |-> FALSE]
NoPoll == [phase |-> "none", by |-> NoKey, sid |-> 0, cas |-> 0]
Blank  == [key |-> NoKey, cas |-> 0]
NewGui == [on |-> NoKey, sid |-> 0, sent |-> 0, made |-> FALSE, shown |-> Blank,
           waits |-> "no"]

Init ==
  /\ doc \in [Keys -> {n \in {0, 1} : n <= MaxVersion}]
  /\ item = [k \in Keys |-> NoItem]
  /\ poll = [k \in Keys |-> NoPoll]
  /\ direct = {}
  /\ wire = {}
  /\ gui = [s \in Sessions |-> NewGui]
  /\ inbox = [s \in Sessions |-> <<>>]
  /\ pending = [get |-> 0, store |-> 0]
  /\ server = "running"
  /\ errors = MaxErrors
  /\ crossed = {} /\ missed = {}
  /\ asked = [s \in Sessions |-> 0]

-----------------------------------------------------------------------------
(* Sessions.  A session that waits for an answer has its rendering deferred *)
(* and does nothing else; it may be closed.                                 *)

Msg(s, i, mode, k) ==
  [from |-> s, n |-> gui[s].sent + i, mode |-> mode, key |-> k, sid |-> gui[s].sid,
   cas |-> IF mode = "store" THEN gui[s].shown.cas ELSE 0]

Events   == MapThenSumSet(LAMBDA s : gui[s].sent, Sessions) + MaxErrors - errors
MayError == errors > 0 /\ Events < MaxEvents

\* Push messages to the queues; g is the session afterwards.
Send(s, msgs, g) ==
  /\ server # "joined"
  /\ gui[s].sent + Cardinality(msgs) <= MaxSent[s]
  /\ Events + Cardinality(msgs) <= MaxEvents
  /\ wire' = wire \cup msgs
  /\ gui' = [gui EXCEPT ![s] = [g EXCEPT !.sent = @ + Cardinality(msgs)]]

\* The page of campaign k is opened: the campaign shown before is unsubscribed
\* from.  The first time, the page is only rendered once it is populated.
ShowCampaign(s, k) ==
  LET g == gui[s]
      left == IF g.on = NoKey THEN {} ELSE {Msg(s, 1, "unsubscribe", g.on)}
  IN
  /\ s \in Js /\ g.waits = "no" /\ g.on # k
  /\ Send(s, left \cup {Msg(s, 1 + Cardinality(left), "subscribe", k)},
          [g EXCEPT !.on = k, !.made = TRUE, !.waits = IF g.made THEN "no" ELSE "page"])
  /\ UNCHANGED <<doc, backend, inbox, errors, hist>>

\* Without JavaScript a page asks for one value, and waits for it.
ShowCampaignOnce(s, k) ==
  LET g == gui[s] IN
  /\ s \notin Js /\ g.waits = "no"
  /\ Send(s, {Msg(s, 1, "single", k)}, [g EXCEPT !.on = k, !.waits = "page"])
  /\ asked' = [asked EXCEPT ![s] = doc[k]]
  /\ UNCHANGED <<doc, backend, inbox, errors, crossed, missed>>

unsubscribeIfSubscribedToAnything(s) ==
  LET g == gui[s] IN
  /\ g.on # NoKey /\ g.waits = "no"
  /\ Send(s, {Msg(s, 1, "unsubscribe", g.on)}, [g EXCEPT !.on = NoKey])
  /\ UNCHANGED <<doc, backend, inbox, errors, hist>>

\* Login changes the session id; what was posted to the old one is lost.
Login(s) ==
  LET g == gui[s] IN
  /\ g.waits = "no" /\ g.on # NoKey
  /\ Send(s, {[Msg(s, 1, "changeSessionId", g.on) EXCEPT !.sid = @ + 1]},
          [g EXCEPT !.sid = @ + 1])
  /\ inbox' = [inbox EXCEPT ![s] = <<>>]
  /\ UNCHANGED <<doc, backend, errors, hist>>

\* The session ends; another may begin with its GUI object at the same address.
finalize(s) ==
  LET g == gui[s] IN
  /\ [g EXCEPT !.sid = 0, !.sent = 0] # NewGui /\ g.sid < MaxSent[s]
  /\ Send(s, IF g.on = NoKey THEN {} ELSE {Msg(s, 1, "unsubscribe", g.on)},
          [NewGui EXCEPT !.sid = g.sid + 1, !.sent = g.sent])
  /\ inbox' = [inbox EXCEPT ![s] = <<>>]
  /\ UNCHANGED <<doc, backend, errors, hist>>

\* Bound: every store, once it is made, finds a version left.
MoreStores(k) ==
  doc[k] + Cardinality({m \in wire : m.mode = "store" /\ m.key = k})
         + Cardinality({d \in direct : d.msg.mode = "store" /\ d.msg.key = k}) < MaxVersion

\* A session stores the document its page shows (after a purchase), or adds it.
StoreDocument(s, k) ==
  LET g == gui[s] IN
  /\ g.waits = "no" /\ g.shown.key \in {k, NoKey} /\ MoreStores(k)
  /\ Send(s, {Msg(s, 1, "store", k)}, [g EXCEPT !.waits = "store"])
  /\ UNCHANGED <<doc, backend, inbox, errors, hist>>

\* finishShowingAdvertisingBuy...: an error, or no document, blanks the labels of
\* the page; the document it has stays, with its CAS, for a later purchase.
Remembered(had, w) == IF w = Blank THEN had ELSE w

\* getAndSubscribeCouchbaseDocumentByKeySavingCas_UPDATE: what arrives is shown
\* if the session is subscribed to anything, and else dropped.
UPDATE(s) ==
  LET g == gui[s]
      once == s \notin Js
  IN
  /\ inbox[s] # <<>> /\ Head(inbox[s]).to = "page"
  /\ inbox' = [inbox EXCEPT ![s] = Tail(@)]
  /\ gui' = IF g.on = NoKey THEN gui ELSE
       [gui EXCEPT ![s] = [g EXCEPT !.shown = Remembered(@, Head(inbox[s]).what),
                                    !.on = IF once THEN NoKey ELSE @,
                                    !.waits = IF @ = "page" THEN "no" ELSE @]]
  /\ UNCHANGED <<doc, backend, wire, errors, hist>>

storeFinished(s) ==
  /\ inbox[s] # <<>> /\ Head(inbox[s]).to = "store"
  /\ inbox' = [inbox EXCEPT ![s] = Tail(@)]
  /\ gui' = [gui EXCEPT ![s].waits = "no"]
  /\ UNCHANGED <<doc, backend, wire, errors, hist>>

-----------------------------------------------------------------------------
(* The queues.                                                              *)

Post1(s, sid, p) == IF sid = gui[s].sid THEN <<p>> ELSE <<>>   \* WServer::post
Page(k, cas) ==
  [to |-> "page", what |-> IF cas = 0 THEN Blank ELSE [key |-> k, cas |-> cas]]

\* Out of order: an earlier message is still queued, or waits in the cache item.
Overtakes(m) ==
  \/ \E w \in wire : w.from = m.from /\ w.key = m.key /\ w.n < m.n
  \/ /\ m.mode \in {"subscribe", "single"}
     /\ item[m.key].unsub[m.from] > 0 \/ item[m.key].chg[m.from] # <<>>
  \/ m.mode = "changeSessionId" /\ item[m.key].chg[m.from] # <<>>

Taken(m) ==
  /\ m \in wire /\ server # "joined"
  /\ wire' = wire \ {m}
  /\ crossed' = IF Overtakes(m) THEN crossed \cup {<<m.from, m.key>>} ELSE crossed
  /\ UNCHANGED <<doc, gui, errors, missed, asked>>

Took(m) == Taken(m) /\ server = "running"

\* m_NoMoreAllowedMuahahaha: ignored, and never answered.
Discard(m) ==
  /\ Taken(m) /\ server # "running"
  /\ UNCHANGED <<backend, inbox>>

\* Queued until the next poll completes; dropped if nothing is cached.
TakeUnsubscribe(m) ==
  /\ m.mode = "unsubscribe" /\ Took(m)
  /\ item' = IF item[m.key].cached
             THEN [item EXCEPT ![m.key].unsub[m.from] = @ + 1] ELSE item
  /\ UNCHANGED <<poll, direct, pending, server, inbox>>

TakeChangeSessionId(m) ==
  /\ m.mode = "changeSessionId" /\ Took(m)
  /\ item' = IF item[m.key].cached
             THEN [item EXCEPT ![m.key].chg[m.from] = Append(@, m.sid)] ELSE item
  /\ UNCHANGED <<poll, direct, pending, server, inbox>>

TakeSubscribe(m) ==
  LET i == item[m.key]
      r == [mode |-> "subscribe", sid |-> m.sid]
  IN
  /\ m.mode = "subscribe" /\ Took(m)
  /\ \/ /\ i.cached /\ ~i.fetching       \* has a value, so it is answered now
        /\ item' = [item EXCEPT ![m.key].old[m.from] = r]
        /\ inbox' = [inbox EXCEPT ![m.from] = @ \o Post1(m.from, m.sid, Page(m.key, i.cas))]
        /\ UNCHANGED <<poll, pending>>
     \/ /\ i.cached /\ i.fetching        \* waits for the one about to come
        /\ item' = [item EXCEPT ![m.key].new[m.from] = r]
        /\ UNCHANGED <<poll, pending, inbox>>
     \/ /\ ~i.cached                     \* the first get of a new cache item
        /\ item' = [item EXCEPT ![m.key] =
             [NoItem EXCEPT !.cached = TRUE, !.fetching = TRUE, !.new[m.from] = r]]
        /\ poll' = [poll EXCEPT ![m.key] =
             [NoPoll EXCEPT !.phase = "sent", !.by = m.from, !.sid = m.sid]]
        /\ pending' = [pending EXCEPT !.get = @ + 1]
        /\ UNCHANGED inbox
  /\ UNCHANGED <<direct, server>>

\* What a page without JavaScript is put among the new subscribers as.
\* Broken: it is answered by the poll that is on its way.
AsNext(m) == [mode |-> "next", sid |-> m.sid]
AsSingle(m) == [mode |-> "single", sid |-> m.sid]

\* A page without JavaScript is given the value of the poll after the next, or
\* of a get of its own if nothing is cached.
TakeSingle(m) ==
  /\ m.mode = "single" /\ Took(m)
  /\ IF item[m.key].cached
     THEN /\ item' = [item EXCEPT ![m.key].new[m.from] = AsSingle(m)]
          /\ UNCHANGED <<direct, pending>>
     ELSE /\ direct' = direct \cup {[msg |-> m, phase |-> "sent", cas |-> 0]}
          /\ pending' = [pending EXCEPT !.get = @ + 1]
          /\ UNCHANGED item
  /\ UNCHANGED <<poll, server, inbox>>

TakeStore(m) ==
  /\ m.mode = "store" /\ Took(m)
  /\ direct' = direct \cup {[msg |-> m, phase |-> "sent", cas |-> 0]}
  /\ pending' = [pending EXCEPT !.store = @ + 1]
  /\ UNCHANGED <<item, poll, server, inbox>>

-----------------------------------------------------------------------------
(* Requests of the database.  Whatever became of a request, the count of    *)
(* its kind goes down; a request that is tried again counts once more when  *)
(* its backoff ends.                                                        *)

Kind(m) == IF m.mode = "store" THEN "store" ELSE "get"

\* Broken: only the gets are waited for.
NoPendingGets(p) == p.get = 0
NothingPending(p) == p.get = 0 /\ p.store = 0

Got(kind) ==
  /\ pending' = [pending EXCEPT ![kind] = @ - 1]
  /\ server' = IF server = "stopping" /\ NothingPending(pending')
               THEN "finished" ELSE server

Live == server # "joined"

\* Couchbase (external) reads or stores: a set needs the CAS, an add no document.
AnswerPoll(k) ==
  /\ Live /\ poll[k].phase = "sent"
  /\ poll' = [poll EXCEPT ![k].phase = "answered", ![k].cas = doc[k]]
  /\ UNCHANGED <<doc, item, direct, pending, server, wire, gui, inbox, errors, hist>>

AnswerDirect(d) ==
  LET m == d.msg
      stores == m.mode = "store" /\ m.cas = doc[m.key]
  IN
  /\ Live /\ d \in direct /\ d.phase = "sent"
  /\ doc' = IF stores THEN [doc EXCEPT ![m.key] = @ + 1] ELSE doc
  /\ direct' = (direct \ {d}) \cup {[d EXCEPT !.phase = "answered", !.cas = doc'[m.key]]}
  /\ UNCHANGED <<item, poll, pending, server, wire, gui, inbox, errors, hist>>

\* Another node, or one of the other programs, stores the document.
OtherStore(k) ==
  /\ MoreStores(k)
  /\ doc' = [doc EXCEPT ![k] = @ + 1]
  /\ UNCHANGED <<backend, wire, gui, inbox, errors, hist>>

\* Broken: only NewSubscribers are unsubscribed.
UnsubscribedNew(i) ==
  [i EXCEPT !.new = [s \in Sessions |-> IF i.unsub[s] > 0 THEN Nobody ELSE i.new[s]],
            !.unsub = NoItem.unsub]
\* Unsubscriptions, the newest first: from NewSubscribers, else from Subscribers.
Unsubscribed(i) ==
  [i EXCEPT !.new = [s \in Sessions |-> IF i.unsub[s] > 0 THEN Nobody ELSE i.new[s]],
            !.old = [s \in Sessions |->
                       IF i.unsub[s] > (IF i.new[s] = Nobody THEN 0 ELSE 1)
                       THEN Nobody ELSE i.old[s]],
            !.unsub = NoItem.unsub]

\* Changes of session id, the newest first: a subscriber is made new again.
Rebound(i) ==
  LET known(s) == i.new[s] # Nobody \/ i.old[s] # Nobody
      moves(s) == i.chg[s] # <<>> /\ known(s)
  IN
  [i EXCEPT !.new = [s \in Sessions |->
                       IF moves(s) THEN [mode |-> "subscribe", sid |-> Head(i.chg[s])]
                       ELSE i.new[s]],
            !.old = [s \in Sessions |->
                       IF moves(s) /\ i.new[s] = Nobody THEN Nobody ELSE i.old[s]],
            !.chg = NoItem.chg]

\* Broken: pages without JavaScript are not kept for the next poll.
AgedAll(i) ==
  [i EXCEPT !.new = NoItem.new,
            !.old = [s \in Sessions |-> IF i.new[s].mode = "subscribe"
                                        THEN i.new[s] ELSE i.old[s]]]
\* New subscribers become old ones, but for the pages without JavaScript.
Aged(i) ==
  [i EXCEPT !.new = [s \in Sessions |-> IF i.new[s].mode = "single"
                                        THEN [i.new[s] EXCEPT !.mode = "next"] ELSE Nobody],
            !.old = [s \in Sessions |-> IF i.new[s].mode = "subscribe"
                                        THEN i.new[s] ELSE i.old[s]]]

\* Broken: old subscribers are forgotten.
ToldNew(k, i, cas) ==
  [s \in Sessions |->
     inbox[s] \o (IF i.new[s].mode \in {"subscribe", "next"}
                  THEN Post1(s, i.new[s].sid, Page(k, cas)) ELSE <<>>)]
\* New subscribers are told the value, old ones if it is not the one they have.
Told(k, i, cas) ==
  [s \in Sessions |->
     inbox[s]
     \o (IF i.new[s].mode \in {"subscribe", "next"}
         THEN Post1(s, i.new[s].sid, Page(k, cas)) ELSE <<>>)
     \o (IF i.old[s] # Nobody /\ cas # i.cas
         THEN Post1(s, i.old[s].sid, Page(k, cas)) ELSE <<>>)]

\* The cache item after a poll.
\* Broken: the document of the first poll is kept.
Renewed(i, cas) ==
  [Aged(i) EXCEPT !.fetching = FALSE, !.cas = IF i.cas = 0 THEN cas ELSE i.cas, !.timer = TRUE]
Polled(i, cas) == [Aged(i) EXCEPT !.fetching = FALSE, !.cas = cas, !.timer = TRUE]

PollFound(k) ==
  LET i == Rebound(Unsubscribed(item[k])) IN
  /\ Live /\ poll[k].phase = "answered" /\ poll[k].cas > 0
  /\ inbox' = Told(k, i, poll[k].cas)
  /\ item' = [item EXCEPT ![k] = Polled(i, poll[k].cas)]
  /\ poll' = [poll EXCEPT ![k] = NoPoll]
  /\ Got("get")
  /\ UNCHANGED <<doc, direct, wire, gui, errors, hist>>

\* LCB_KEY_ENOENT: only the page whose request polled is told.
PollNotFound(k) ==
  LET p == poll[k] IN
  /\ Live /\ p.phase = "answered" /\ p.cas = 0
  /\ inbox' = [inbox EXCEPT ![p.by] = @ \o Post1(p.by, p.sid, Page(k, 0))]
  /\ item' = [item EXCEPT ![k].new[p.by] = Nobody]
  /\ poll' = [poll EXCEPT ![k] = NoPoll]
  /\ Got("get")
  /\ missed' = missed \cup {k}
  /\ UNCHANGED <<doc, direct, wire, gui, errors, crossed, asked>>

\* Broken: after an error nobody starts the timer.
PollErrorStops(k) ==
  /\ Live /\ poll[k].phase \in {"sent", "answered"} /\ MayError
  /\ errors' = errors - 1
  /\ poll' = [poll EXCEPT ![k] = NoPoll]
  /\ Got("get")
  /\ UNCHANGED <<doc, item, direct, wire, gui, inbox, hist>>
\* Broken: this exit of the callback does not count.
PollErrorUncounted(k) ==
  /\ Live /\ poll[k].phase \in {"sent", "answered"} /\ MayError
  /\ errors' = errors - 1
  /\ item' = [item EXCEPT ![k].timer = TRUE]
  /\ poll' = [poll EXCEPT ![k] = NoPoll]
  /\ UNCHANGED <<doc, direct, pending, server, wire, gui, inbox, hist>>
\* An error that is not tried again: the timer polls again in 100 ms.
PollError(k) ==
  /\ Live /\ poll[k].phase \in {"sent", "answered"} /\ MayError
  /\ errors' = errors - 1
  /\ item' = [item EXCEPT ![k].timer = TRUE]
  /\ poll' = [poll EXCEPT ![k] = NoPoll]
  /\ Got("get")
  /\ UNCHANGED <<doc, direct, wire, gui, inbox, hist>>

\* LCB_EBUSY, LCB_ETMPFAIL: tried again after the backoff.
backoffPoll(k) ==
  /\ Live /\ poll[k].phase = "sent" /\ MayError
  /\ errors' = errors - 1
  /\ poll' = [poll EXCEPT ![k].phase = "backoff"]
  /\ Got("get")
  /\ UNCHANGED <<doc, item, direct, wire, gui, inbox, hist>>

retryPoll(k) ==
  /\ Live /\ poll[k].phase = "backoff"
  /\ poll' = [poll EXCEPT ![k].phase = "sent"]
  /\ pending' = [pending EXCEPT !.get = @ + 1]
  /\ UNCHANGED <<doc, item, direct, server, wire, gui, inbox, errors, hist>>

Stored == [to |-> "store", what |-> Blank]

\* The session that asked is answered: its value, a success, a conflict.
DirectAnswered(d) ==
  LET m == d.msg IN
  /\ Live /\ d \in direct /\ d.phase = "answered"
  /\ direct' = direct \ {d}
  /\ inbox' = [inbox EXCEPT ![m.from] = @ \o Post1(m.from, m.sid,
                             IF m.mode = "store" THEN Stored ELSE Page(m.key, d.cas))]
  /\ Got(Kind(m))
  /\ UNCHANGED <<doc, item, poll, wire, gui, errors, hist>>

DirectError(d) ==
  LET m == d.msg IN
  /\ Live /\ d \in direct /\ d.phase \in {"sent", "answered"} /\ MayError
  /\ errors' = errors - 1
  /\ direct' = direct \ {d}
  /\ inbox' = [inbox EXCEPT ![m.from] = @ \o Post1(m.from, m.sid,
                             IF m.mode = "store" THEN Stored ELSE Page(m.key, 0))]
  /\ Got(Kind(m))
  /\ UNCHANGED <<doc, item, poll, wire, gui, hist>>

backoffDirect(d) ==
  /\ Live /\ d \in direct /\ d.phase = "sent" /\ MayError
  /\ errors' = errors - 1
  /\ direct' = (direct \ {d}) \cup {[d EXCEPT !.phase = "backoff"]}
  /\ Got(Kind(d.msg))
  /\ UNCHANGED <<doc, item, poll, wire, gui, inbox, hist>>

\* Broken: a request that is tried again is not counted again.
retryUncounted(d) ==
  /\ Live /\ d \in direct /\ d.phase = "backoff"
  /\ direct' = (direct \ {d}) \cup {[d EXCEPT !.phase = "sent"]}
  /\ UNCHANGED <<doc, item, poll, pending, server, wire, gui, inbox, errors, hist>>
retryDirect(d) ==
  /\ Live /\ d \in direct /\ d.phase = "backoff"
  /\ direct' = (direct \ {d}) \cup {[d EXCEPT !.phase = "sent"]}
  /\ pending' = [pending EXCEPT ![Kind(d.msg)] = @ + 1]
  /\ UNCHANGED <<doc, item, poll, server, wire, gui, inbox, errors, hist>>

\* 100 ms after a poll: poll again with the request of any subscriber, or else
\* delete the cache item.
PollingTimeout(k) ==
  LET i == item[k]
      subs == IF \E s \in Sessions : i.old[s] # Nobody THEN i.old ELSE i.new
  IN
  /\ Live /\ i.timer
  /\ \/ \E s \in Sessions :
          /\ subs[s] # Nobody
          /\ poll' = [poll EXCEPT ![k] = [NoPoll EXCEPT !.phase = "sent", !.by = s,
                                                        !.sid = subs[s].sid]]
          /\ item' = [item EXCEPT ![k].fetching = TRUE, ![k].timer = FALSE]
          /\ pending' = [pending EXCEPT !.get = @ + 1]
     \/ /\ \A s \in Sessions : subs[s] = Nobody
        /\ item' = [item EXCEPT ![k] = NoItem]
        /\ UNCHANGED <<poll, pending>>
  /\ UNCHANGED <<doc, direct, server, wire, gui, inbox, errors, hist>>

\* The node is stopped: the main thread waits until nothing is pending, and
\* only then breaks the loop.
BeginStopping ==
  /\ server = "running"
  /\ server' = IF NothingPending(pending) THEN "finished" ELSE "stopping"
  /\ UNCHANGED <<doc, item, poll, direct, pending, wire, gui, inbox, errors, hist>>

finalCleanupAndJoin ==
  /\ server = "finished"
  /\ server' = "joined"
  /\ UNCHANGED <<doc, item, poll, direct, pending, wire, gui, inbox, errors, hist>>

-----------------------------------------------------------------------------
SessionStep(s) ==
  \/ \E k \in Keys : ShowCampaign(s, k) \/ ShowCampaignOnce(s, k) \/ StoreDocument(s, k)
  \/ unsubscribeIfSubscribedToAnything(s) \/ Login(s) \/ finalize(s)
  \/ UPDATE(s) \/ storeFinished(s)

Take(m) ==
  \/ Discard(m) \/ TakeUnsubscribe(m) \/ TakeChangeSessionId(m)
  \/ TakeSubscribe(m) \/ TakeSingle(m) \/ TakeStore(m)

PollStep(k) ==
  \/ AnswerPoll(k) \/ PollFound(k) \/ PollNotFound(k) \/ PollError(k)
  \/ backoffPoll(k) \/ retryPoll(k) \/ PollingTimeout(k)

DirectStep(d) ==
  \/ AnswerDirect(d) \/ DirectAnswered(d) \/ DirectError(d)
  \/ backoffDirect(d) \/ retryDirect(d)

Next ==
  \/ \E s \in Sessions : SessionStep(s)
  \/ \E m \in wire : Take(m)
  \/ \E k \in Keys : PollStep(k) \/ OtherStore(k)
  \/ \E d \in direct : DirectStep(d)
  \/ BeginStopping \/ finalCleanupAndJoin

Spec == Init /\ [][Next]_vars

\* The event loop and the Wt server run what is ready, and Couchbase answers.
\* Nobody has to click, to store or to stop the server.
Fairness ==
  /\ \A s \in Sessions : WF_vars(UPDATE(s) \/ storeFinished(s))
  /\ WF_vars(\E m \in wire : Take(m))
  /\ \A k \in Keys : WF_vars(PollStep(k))
  /\ WF_vars(\E d \in direct : DirectStep(d))

FairSpec == Spec /\ Fairness

-----------------------------------------------------------------------------
(* Properties                                                               *)

\* Every variable stays in its type.
TypeOK ==
  /\ doc \in [Keys -> Version]
  /\ item \in [Keys -> Item]
  /\ poll \in [Keys -> Poll]
  /\ direct \subseteq Direct
  /\ wire \subseteq Message
  /\ gui \in [Sessions -> Gui]
  /\ inbox \in [Sessions -> Seq(Post)]
  /\ pending \in [get: Nat, store: Nat]
  /\ server \in {"running", "stopping", "finished", "joined"}
  /\ errors \in 0..MaxErrors
  /\ crossed \subseteq Sessions \X Keys /\ missed \subseteq Keys
  /\ asked \in [Sessions -> Version]

\* A cache item is polled for by one request at a time and never twice at once:
\* it has either a get on its way or a running timer, unless a poll found no
\* document, and has a document whenever a new page may be given it at once.
\* Nothing polls for a key that is not cached.
OnePollPerItem ==
  \A k \in Keys :
    /\ ~(item[k].timer /\ poll[k].phase # "none")
    /\ item[k].timer \/ poll[k].phase # "none" => item[k].cached
    /\ item[k].cached => item[k].timer \/ poll[k].phase # "none" \/ k \in missed
    /\ item[k].cached /\ ~item[k].fetching => item[k].cas > 0 /\ poll[k].phase = "none"

Settled(s, k) ==        \* the backend has all that the pages at s said of k
  /\ server = "running" /\ k \notin missed
  /\ \A m \in wire : m.from # s \/ m.key # k

Subscribed(s, k) ==     \* once the next poll is back
  LET i == Rebound(Unsubscribed(item[k]))
      r == [mode |-> "subscribe", sid |-> gui[s].sid]
  IN r \in {i.new[s], i.old[s]}

\* The sessions the backend posts to are those whose page shows the campaign,
\* under the session id they have now, as long as nobody returned to a campaign
\* before the backend had handled that he left it.
SubscriptionsMatchPages ==
  \A s \in Js, k \in Keys :
    Settled(s, k) /\ <<s, k>> \notin crossed => (Subscribed(s, k) <=> gui[s].on = k)

\* A page that returned to a campaign, in one session and with no login between,
\* is subscribed to it: the front end says a subscription would be lost to a late
\* unsubscription if they had the same key, "BUT THEY DON'T"
\* (anonymousbitcoincomputingwtgui.cpp:651).
SubscriptionIsKept ==
  \A s \in Js, k \in Keys :
    Settled(s, k) /\ gui[s].on = k /\ gui[s].sid = 0 => Subscribed(s, k)

\* A page without JavaScript is never given a value older than the document was
\* when it asked: a buyer sees his own purchase.
SinglesAreFresh ==
  \A s \in Sessions \ Js : \A n \in 1..Len(inbox[s]) :
    LET w == inbox[s][n].what IN w # Blank => w.cas >= asked[s]

\* The document a page has of a campaign is never replaced by an older version of
\* it, whatever errors come between: it never offers again a slot that it has seen
\* sold.
PagesGoForward ==
  [][\A s \in Sessions :
       gui'[s].shown.key = gui[s].shown.key => gui'[s].shown.cas >= gui[s].shown.cas]_vars

\* The main thread is only told that all is finished when no request of the
\* database is on its way: the rest wait for their backoff to end.
FinishedMeansIdle ==
  [][server # "finished" /\ server' = "finished" =>
       /\ \A k \in Keys : poll'[k].phase \in {"none", "backoff"}
       /\ \A d \in direct' : d.phase = "backoff"]_vars

Follows(s, k) ==
  gui[s].on = k /\ <<s, k>> \notin crossed /\ k \notin missed /\ server = "running"

\* A page that goes on showing a campaign comes to show every change of it, or a
\* later one.
ViewersKeepUp ==
  \A s \in Js, k \in Keys, v \in Version \ {0} :
    Follows(s, k) /\ doc[k] = v
      ~> ~Follows(s, k) \/ (gui[s].shown.key = k /\ gui[s].shown.cas >= v)

\* No page waits for ever, but for those whose request was taken out of order or
\* found no document, or that the node's shutdown caught.
PagesAreRendered ==
  \A s \in Sessions :
    gui[s].waits # "no" ~>
      \/ gui[s].waits = "no" \/ server # "running"
      \/ \E k \in Keys : <<s, k>> \in crossed \/ k \in missed

\* Stopping comes to an end although pages keep their subscriptions and timers.
\* (With several campaigns their polls may overlap so that the count of pending
\* gets is never zero.)
ShutdownCompletes ==
  Cardinality(Keys) = 1 => (server = "stopping" ~> server = "finished")
==============================================================================
