----------------------------- MODULE SseClient -----------------------------
(***************************************************************************)
(* Who is told about which storage key.  The page keeps one event stream   *)
(* and tells the server by POST which keys it wants                        *)
(* (widget-runtime/src/storage/server/sse-client.ts); the server keeps     *)
(* them per connection (server/src/realtime/sse.ts) and forgets a          *)
(* connection that closes.  The POST and its answer travel for a while,    *)
(* during which keys come and go, the stream breaks, and a new connection  *)
(* becomes ready.                                                          *)
(***************************************************************************)
EXTENDS Naturals

CONSTANTS
    Subscriptions, \* the deliver callbacks of the page
    Keys,
    keyOf,         \* keyOf[s]: the full key subscription s is for
    Conns,         \* bound: the connections there may be
    MaxFailures,   \* bound: POSTs and connection attempts that fail
    None           \* no connection

ASSUME SseAssumption ==
    /\ keyOf \in [Subscriptions -> Keys]
    /\ None \notin Conns /\ MaxFailures \in Nat

VARIABLES
    subscribers, \* the subscriptions that were added and not removed
    registered,  \* the keys the page takes to be registered
    connId,      \* the connection the page has last heard "ready" from
    scheduled,   \* syncScheduled: a sync is queued as a microtask
    dirty,       \* syncDirty
    retry,       \* the retry timer is running
    stream,      \* the EventSource: "closed", "connecting", "opened" or "ready"
    post,        \* the POST in flight: "none", "sent", or "handled" by the server
    request,     \* what the POST in flight asks for
    conn,        \* the connection that the stream is on, as the server sees it
    used,        \* the connections there have been
    serves,      \* serves[c]: registry: the keys of connection c
    failures,    \* history: POSTs and connection attempts that failed
    dropped,     \* history: keys whose unsubscription was handled, unknown to the page
    extra        \* history: keys whose subscription was handled, unknown to the page

client == <<registered, connId, scheduled, dirty, retry>>
wire   == <<post, request>>
server == <<conn, used, serves>>
doubt  == <<dropped, extra>>
vars   == <<subscribers, client, stream, wire, server, failures, doubt>>

desired == {keyOf[s] : s \in subscribers}

NoRequest == [connId |-> None, subscribe |-> {}, unsubscribe |-> {}, next |-> {}]

Init ==
    /\ subscribers = {}
    /\ registered = {} /\ connId = None
    /\ scheduled = FALSE /\ dirty = FALSE /\ retry = FALSE
    /\ stream = "connecting"
    /\ post = "none" /\ request = NoRequest
    /\ conn = None /\ used = {}
    /\ serves = [c \in Conns |-> {}]
    /\ failures = 0 /\ dropped = {} /\ extra = {}

-----------------------------------------------------------------------------
(* The page subscribes and unsubscribes.                                   *)

Add(s) ==
    /\ s \notin subscribers
    /\ subscribers' = subscribers \cup {s}
    /\ scheduled' = TRUE
    /\ UNCHANGED <<registered, connId, dirty, retry, stream, wire, server, failures, doubt>>

\* The closure that add() returned: the last subscription of a key ends the
\* interest in it.  Both callers call it once (the clean-up of a connect hook and
\* an abort listener, reatom-storage.ts:79, 184); called again after the key's
\* Set was replaced, it would take the newcomers' key away.
Unsubscribe(s) ==
    /\ s \in subscribers
    /\ subscribers' = subscribers \ {s}
    /\ scheduled' = (scheduled \/ keyOf[s] \notin desired')
    /\ UNCHANGED <<registered, connId, dirty, retry, stream, wire, server, failures, doubt>>

-----------------------------------------------------------------------------
(* sync().                                                                 *)

InStep == desired = registered

\* A POST is in flight: it will be followed by another sync.
SyncLater ==
    /\ scheduled /\ post # "none"
    /\ scheduled' = FALSE
    /\ dirty' = TRUE
    /\ UNCHANGED <<subscribers, registered, connId, retry, stream, wire, server, failures, doubt>>

SyncIdle ==
    /\ scheduled /\ post = "none"
    /\ connId = None \/ InStep
    /\ scheduled' = FALSE
    /\ UNCHANGED <<subscribers, registered, connId, dirty, retry, stream, wire, server, failures, doubt>>

SyncPosts ==
    /\ scheduled /\ post = "none"
    /\ connId # None /\ ~InStep
    /\ scheduled' = FALSE
    /\ post' = "sent"
    /\ request' = [connId |-> connId, subscribe |-> desired \ registered,
                   unsubscribe |-> registered \ desired, next |-> desired]
    /\ UNCHANGED <<subscribers, registered, connId, dirty, retry, stream, server, failures, doubt>>

\* POST /events/:connId: an unknown connection is answered 204 as well.
ServerHandles ==
    /\ post = "sent"
    /\ post' = "handled"
    /\ serves' = IF request.connId # conn THEN serves
                 ELSE [serves EXCEPT ![conn] = (@ \cup request.subscribe) \ request.unsubscribe]
    /\ UNCHANGED <<subscribers, client, stream, request, conn, used, failures, doubt>>

PostEnds == post' = "none" /\ request' = NoRequest

\* The stream has become another one meanwhile: the answer says nothing.
AnswerOutdated ==
    /\ post = "handled" /\ connId # request.connId
    /\ PostEnds
    /\ dirty' = FALSE /\ scheduled' = TRUE
    /\ UNCHANGED <<subscribers, registered, connId, retry, stream, server, failures, doubt>>

\* Mutant: what is desired by now is taken to be registered.
AnswerOk_TakesDesired ==
    /\ post = "handled" /\ connId = request.connId
    /\ PostEnds
    /\ registered' = desired
    /\ scheduled' = (scheduled \/ dirty)
    /\ dirty' = FALSE
    /\ UNCHANGED <<subscribers, connId, retry, stream, server, failures, doubt>>

AnswerOk ==
    /\ post = "handled" /\ connId = request.connId
    /\ PostEnds
    /\ registered' = request.next
    /\ scheduled' = (scheduled \/ dirty \/ desired # request.next)
    /\ dirty' = FALSE
    /\ UNCHANGED <<subscribers, connId, retry, stream, server, failures, doubt>>

\* The POST fails on its way there, is refused, or its answer is lost: retry.
PostFails ==
    /\ post # "none" /\ failures < MaxFailures
    /\ PostEnds
    /\ failures' = failures + 1
    /\ dirty' = FALSE
    /\ \/ /\ connId # request.connId
          /\ scheduled' = TRUE
          /\ UNCHANGED <<retry, doubt>>
       \/ /\ connId = request.connId
          /\ retry' = TRUE
          /\ dropped' = dropped \cup (IF post = "handled" THEN request.unsubscribe ELSE {})
          /\ extra' = extra \cup (IF post = "handled" THEN request.subscribe ELSE {})
          /\ UNCHANGED scheduled
    /\ UNCHANGED <<subscribers, registered, connId, stream, server>>

\* Mutant: the timer is an interval that nobody clears.
RetryFires_Repeats ==
    /\ retry
    /\ scheduled' = TRUE
    /\ UNCHANGED <<subscribers, registered, connId, dirty, retry, stream, wire, server, failures, doubt>>

RetryFires ==
    /\ retry
    /\ retry' = FALSE
    /\ scheduled' = TRUE
    /\ UNCHANGED <<subscribers, registered, connId, dirty, stream, wire, server, failures, doubt>>

-----------------------------------------------------------------------------
(* The stream.                                                             *)

\* GET /events: the connection is registered without keys, "ready" is sent.
ServerAccepts(c) ==
    /\ stream = "connecting" /\ c \notin used
    /\ stream' = "opened"
    /\ conn' = c /\ used' = used \cup {c}
    /\ serves' = [serves EXCEPT ![c] = {}]
    /\ UNCHANGED <<subscribers, client, wire, failures, doubt>>

\* onReady: a new connection, of which the server knows nothing yet.
Ready ==
    /\ stream = "opened"
    /\ stream' = "ready"
    /\ connId' = conn
    /\ registered' = {} /\ dropped' = {} /\ extra' = {}
    /\ retry' = FALSE /\ scheduled' = TRUE
    /\ UNCHANGED <<subscribers, dirty, wire, server, failures>>

\* req.on('close'): the registry forgets the connection.
ServerForgets ==
    /\ conn # None
    /\ serves' = [serves EXCEPT ![conn] = {}]
    /\ conn' = None
    /\ UNCHANGED used

\* Bound: the last connection there may be stays.
MayBreak == stream \in {"opened", "ready"} /\ used # Conns

\* EventSource connects again by itself; the page notices at the next "ready".
Blip ==
    /\ MayBreak
    /\ ServerForgets
    /\ stream' = "connecting"
    /\ UNCHANGED <<subscribers, client, wire, failures, doubt>>

\* onError, a fatal close: the connection is unknown until the next one.
FatalClose ==
    /\ MayBreak
    /\ ServerForgets
    /\ stream' = "closed"
    /\ connId' = None
    /\ UNCHANGED <<subscribers, registered, scheduled, dirty, retry, wire, failures, doubt>>

\* So is an attempt to connect that is refused, as by a gate without a session.
ConnectRefused ==
    /\ stream = "connecting" /\ failures < MaxFailures
    /\ failures' = failures + 1
    /\ stream' = "closed"
    /\ connId' = None
    /\ UNCHANGED <<subscribers, registered, scheduled, dirty, retry, wire, server, doubt>>

Reconnect ==
    /\ stream = "closed"
    /\ stream' = "connecting"
    /\ UNCHANGED <<subscribers, client, wire, server, failures, doubt>>

Sync == SyncLater \/ SyncIdle \/ SyncPosts

Answer == AnswerOutdated \/ AnswerOk

Next ==
    \/ \E s \in Subscriptions : Add(s) \/ Unsubscribe(s)
    \/ Sync \/ ServerHandles \/ Answer \/ PostFails \/ RetryFires
    \/ \E c \in Conns : ServerAccepts(c)
    \/ Ready \/ Blip \/ FatalClose \/ ConnectRefused \/ Reconnect

Spec == Init /\ [][Next]_vars

\* Microtasks run, timers fire, and a POST and a connection attempt end.
FairSpec ==
    /\ Spec
    /\ WF_vars(Sync) /\ WF_vars(ServerHandles) /\ WF_vars(Answer) /\ WF_vars(RetryFires)
    /\ WF_vars(\E c \in Conns : ServerAccepts(c)) /\ WF_vars(Ready) /\ WF_vars(Reconnect)

-----------------------------------------------------------------------------

TypeOK ==
    /\ subscribers \subseteq Subscriptions
    /\ registered \subseteq Keys /\ connId \in Conns \cup {None}
    /\ scheduled \in BOOLEAN /\ dirty \in BOOLEAN /\ retry \in BOOLEAN
    /\ stream \in {"closed", "connecting", "opened", "ready"}
    /\ post \in {"none", "sent", "handled"}
    /\ request \in [connId : Conns \cup {None}, subscribe : SUBSET Keys,
                    unsubscribe : SUBSET Keys, next : SUBSET Keys]
    /\ conn \in Conns \cup {None} /\ used \subseteq Conns
    /\ serves \in [Conns -> SUBSET Keys]
    /\ failures \in Nat /\ dropped \subseteq Keys /\ extra \subseteq Keys

\* The connections of the page, the server and a request in flight: a connection
\* that is opened but not heard of yet is new to the page and serves nothing.
StreamKnown ==
    /\ conn # None <=> stream \in {"opened", "ready"}
    /\ ({conn, connId, request.connId} \ {None}) \subseteq used
    /\ stream = "ready" => connId = conn
    /\ stream = "opened" => connId # conn /\ request.connId # conn /\ serves[conn] = {}
    /\ post = "none" <=> request.connId = None

\* What a request asks for is what it takes from the keys registered to those
\* that will be.
RequestIsDifference ==
    post # "none" /\ connId = request.connId =>
        /\ request.subscribe = request.next \ registered
        /\ request.unsubscribe = registered \ request.next

\* The keys that the server has for the page, as far as the page can know.
Believed == IF post = "handled" /\ connId = request.connId THEN request.next ELSE registered

RegisteredIsServed ==
    connId = conn /\ conn # None =>
        Believed \ dropped \subseteq serves[conn] /\ serves[conn] \ extra \subseteq Believed

\* A difference between desired and registered has a sync to come.
DifferenceIsDue ==
    ~scheduled /\ ~retry /\ post = "none" /\ connId # None => InStep

\* The manager has nothing left to do, and its stream is up.
Settled ==
    /\ stream = "ready"
    /\ ~scheduled /\ ~retry /\ post = "none"

\* A manager that has come to rest is served what it wants and nothing else,
\* whatever was added, removed or reconnected while its POSTs travelled
\* (sse-client.ts:130-171).  The exceptions, until the next connection, are the
\* keys of a POST that was handled although it failed for the page.
SettledIsServed ==
    /\ TypeOK
    /\ Settled => desired \ dropped \subseteq serves[conn] /\ serves[conn] \ extra \subseteq desired

\* The registry holds no keys for connections that are gone (sse.ts:15-20).
GoneIsForgotten == \A c \in Conns : c # conn => serves[c] = {}

\* What makes both inductive.
SseInv ==
    /\ TypeOK
    /\ StreamKnown /\ GoneIsForgotten
    /\ RequestIsDifference /\ RegisteredIsServed /\ DifferenceIsDue

\* Once the page stops changing its mind the manager comes to rest: no sync is
\* dropped, no retry forgotten, and the flags never block one another.
SettlesInTheEnd ==
    \A S \in SUBSET Subscriptions : <>[](subscribers = S) => <>[]Settled
=============================================================================
