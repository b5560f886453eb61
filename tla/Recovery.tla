------------------------------ MODULE Recovery ------------------------------
(***************************************************************************)
(* server/src/recovery: an operator who has to act on a page that a widget *)
(* task left open in the browser container.  A request asks the service    *)
(* whether the page is there and gets a single-use token for its widget    *)
(* (handlers.ts, capability.ts); a WebSocket upgrade consumes the token    *)
(* and becomes the one tunnel to the browser (tunnel.ts); sending a new    *)
(* task for the widget revokes both (revoking-client.ts).  An action ends  *)
(* where the code awaits; a socket that was destroyed reports its 'close'  *)
(* event later.  A token is named by the request it was issued to.         *)
(***************************************************************************)
CONSTANTS
    Requests, \* requests for a recovery token, each made at most once
    Sockets,  \* upgrade requests, each made at most once
    Widgets,
    wants,    \* wants[i]: the widget request i asks for
    None

ASSUME RecoveryAssumption ==
    /\ None \notin Requests \cup Sockets
    /\ wants \in [Requests -> Widgets]

VARIABLES
    issuing, \* issuing[i]: how far request i has got
    live,    \* the tokens in the store
    socket,  \* socket[k]: how far upgrade k has got
    token,   \* token[k]: the token in the cookie of upgrade k
    active,  \* the connection the store knows of
    entered, \* history: the upgrades that became a tunnel
    revoked  \* history: tokens issued before a revocation of their widget

accessVars == <<issuing, live, socket, token, active, entered, revoked>>

Tunnel(k) == socket[k] \in {"dialing", "open"}

Issued == {i \in Requests : issuing[i] = "issued"}

TokensOf(w) == {i \in Requests : wants[i] = w}

AccessInit ==
    /\ issuing = [i \in Requests |-> "idle"]
    /\ live = {}
    /\ socket = [k \in Sockets |-> "idle"]
    /\ token = [k \in Sockets |-> None]
    /\ active = None
    /\ entered = {}
    /\ revoked = {}

-----------------------------------------------------------------------------
(* handleRecoveryIssue                                                     *)

\* Refused while a tunnel is up; otherwise the service is asked.
Ask(i) ==
    /\ issuing[i] = "idle"
    /\ issuing' = [issuing EXCEPT ![i] = IF active = None THEN "asked" ELSE "refused"]
    /\ UNCHANGED <<live, socket, token, active, entered, revoked>>

\* The service has no page for the widget, or cannot be reached.
NoPage(i) ==
    /\ issuing[i] = "asked"
    /\ issuing' = [issuing EXCEPT ![i] = "refused"]
    /\ UNCHANGED <<live, socket, token, active, entered, revoked>>

\* "One live token per widget."
Issue(i) ==
    /\ issuing[i] = "asked"
    /\ issuing' = [issuing EXCEPT ![i] = "issued"]
    /\ live' = (live \ TokensOf(wants[i])) \cup {i}
    /\ UNCHANGED <<socket, token, active, entered, revoked>>

\* An expired token is as good as absent.
Expire(i) ==
    /\ i \in live
    /\ live' = live \ {i}
    /\ UNCHANGED <<issuing, socket, token, active, entered, revoked>>

-----------------------------------------------------------------------------
(* handleUpgrade                                                           *)

\* The upgrade arrives with an issued cookie; its session is looked up.
Upgrade(k) ==
    /\ socket[k] = "idle"
    /\ \E i \in Issued : token' = [token EXCEPT ![k] = i]
    /\ socket' = [socket EXCEPT ![k] = "session"]
    /\ UNCHANGED <<issuing, live, active, entered, revoked>>

\* Mutant: the token survives its use.
Accept_KeepsToken(k) ==
    /\ socket[k] = "session" /\ active = None /\ token[k] \in live
    /\ socket' = [socket EXCEPT ![k] = "dialing"]
    /\ active' = k
    /\ entered' = entered \cup {k}
    /\ UNCHANGED <<issuing, live, token, revoked>>

\* Not busy and the token is there: it is consumed, the connection attached.
Accept(k) ==
    /\ socket[k] = "session" /\ active = None /\ token[k] \in live
    /\ live' = live \ {token[k]}
    /\ socket' = [socket EXCEPT ![k] = "dialing"]
    /\ active' = k
    /\ entered' = entered \cup {k}
    /\ UNCHANGED <<issuing, token, revoked>>

\* No session, a tunnel is up, the token is gone, or it was another session's
\* and dies with the attempt.
Refuse(k) ==
    /\ socket[k] = "session"
    /\ socket' = [socket EXCEPT ![k] = "closed"]
    /\ live' \in IF active = None THEN {live, live \ {token[k]}} ELSE {live}
    /\ UNCHANGED <<issuing, token, active, entered, revoked>>

Connect(k) ==
    /\ socket[k] = "dialing"
    /\ socket' = [socket EXCEPT ![k] = "open"]
    /\ UNCHANGED <<issuing, live, token, active, entered, revoked>>

\* Mutant: detach forgets whatever connection is active.
Detach_Any(k) == active' = None

\* detach(connection): only the connection itself is forgotten.
Detach(k) == active' = IF active = k THEN None ELSE active

\* Either side errs or closes, or the session's time is up: teardown.
Teardown(k) ==
    /\ Tunnel(k)
    /\ Detach(k)
    /\ socket' = [socket EXCEPT ![k] = "closing"]
    /\ UNCHANGED <<issuing, live, token, entered, revoked>>

\* The 'close' event of a destroyed socket tears down once more.
CloseEvent(k) ==
    /\ socket[k] = "closing"
    /\ Detach(k)
    /\ socket' = [socket EXCEPT ![k] = "closed"]
    /\ UNCHANGED <<issuing, live, token, entered, revoked>>

-----------------------------------------------------------------------------
(* The store's revocations.                                                *)

\* destroyActive for a connection that is to be revoked.
Destroy(k) ==
    IF k = None THEN UNCHANGED <<active, socket>>
    ELSE /\ active' = None
         /\ socket' = [socket EXCEPT ![k] = "closing"]

\* Mutant: the tunnel is destroyed, the unused token stays.
Revoke_KeepsTokens(w) ==
    /\ Destroy(IF active # None /\ wants[token[active]] = w THEN active ELSE None)
    /\ revoked' = revoked \cup (Issued \cap TokensOf(w))
    /\ UNCHANGED <<issuing, live, token, entered>>

Revoke(w) ==
    /\ live' = live \ TokensOf(w)
    /\ Destroy(IF active # None /\ wants[token[active]] = w THEN active ELSE None)
    /\ revoked' = revoked \cup (Issued \cap TokensOf(w))
    /\ UNCHANGED <<issuing, token, entered>>

\* close() of the server; what is in flight goes on.
RevokeAll ==
    /\ live' = {}
    /\ Destroy(active)
    /\ revoked' = revoked \cup Issued
    /\ UNCHANGED <<issuing, token, entered>>

AccessStep ==
    \/ \E i \in Requests : Ask(i) \/ NoPage(i) \/ Issue(i) \/ Expire(i)
    \/ \E k \in Sockets :
           Upgrade(k) \/ Accept(k) \/ Refuse(k) \/ Connect(k) \/ Teardown(k) \/ CloseEvent(k)
    \/ \E w \in Widgets : Revoke(w)
    \/ RevokeAll

\* The recovery stack on its own: the browser service answers anything.
AccessSpec == AccessInit /\ [][AccessStep]_accessVars

-----------------------------------------------------------------------------

AccessTypeOK ==
    /\ issuing \in [Requests -> {"idle", "asked", "issued", "refused"}]
    /\ live \subseteq Requests
    /\ socket \in [Sockets -> {"idle", "session", "dialing", "open", "closing", "closed"}]
    /\ token \in [Sockets -> Requests \cup {None}]
    /\ active \in Sockets \cup {None}
    /\ entered \subseteq Sockets
    /\ revoked \subseteq Requests

\* There is one tunnel at most, and it is the one the store can revoke: no late
\* 'close' event of an earlier socket makes the store forget a newer tunnel
\* (capability.ts:84-86, tunnel.ts:84-89).
OneTunnel == AccessTypeOK /\ \A k \in Sockets : Tunnel(k) <=> active = k

\* A token opens one tunnel (capability.ts:70-72), however many upgrades carry it.
TokenUsedOnce ==
    \A k, m \in entered : token[k] = token[m] => k = m

\* One live token per widget (capability.ts:62-63).
OneLiveToken == \A i, j \in live : wants[i] = wants[j] => i = j

\* What was issued before a task was sent for the widget is of no use after it,
\* also to an upgrade that was already waiting for its session (capability.ts:87-90).
RevokedStaysOut ==
    /\ revoked \cap live = {}
    /\ \A k \in Sockets : Tunnel(k) => token[k] \notin revoked

\* The inductive invariant: besides the above, where tokens come from and that
\* the token of a tunnel has left the store for good.
TokensAreIssued ==
    /\ live \cup revoked \subseteq Issued
    /\ \A k \in Sockets : socket[k] # "idle" => token[k] \in Issued

TunnelsEntered ==
    /\ \A k \in Sockets : Tunnel(k) => k \in entered
    /\ \A k \in entered : socket[k] \notin {"idle", "session"} /\ token[k] \notin live

AccessInv ==
    /\ OneTunnel /\ TokenUsedOnce /\ OneLiveToken /\ RevokedStaysOut
    /\ TokensAreIssued /\ TunnelsEntered
=============================================================================
