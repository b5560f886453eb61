----------------------------- MODULE AuthDevices -----------------------------
(***************************************************************************)
(* server/src/auth: the devices, sessions, pending tickets and add-tokens  *)
(* of one account, kept as Valkey records that concurrent HTTP requests    *)
(* read and write.  Every Valkey operation is a step of its own; a request *)
(* is at the label pc[r], which is the operation it awaits next.  Between  *)
(* two operations any other request may run, unless it waits for the same  *)
(* runExclusive key (KeyedMutex): who is inside a lock follows from pc.    *)
(* A rejected Valkey operation ends the request and frees its locks.       *)
(* Expiry is a nondeterministic absence; ceremonies that do not verify are *)
(* refused requests; device.disabled, which no code sets, is left out.     *)
(***************************************************************************)
EXTENDS Naturals, FiniteSets

CONSTANTS
    Requests,    \* HTTP requests, each made at most once
    Veterans,    \* devices that may be active at the start, with a session each
    Joining,     \* devices that registered and wait for approval, with a ticket
    Newcomers,   \* credentials that may still register with an add-token
    DeviceLimit, \* account.deviceLimit
    Scenarios,   \* the operations tried against each other, and the veterans
    FirstToken,  \* the add-token that is live at the start
    None         \* the absent device

Devices    == Veterans \cup Joining \cup Newcomers
SessionIds == Veterans \cup Requests  \* a login session is named by its request
TokenIds   == Requests \cup {FirstToken}

SessionOps == {"check", "approve", "deny", "revoke", "mint"}

ASSUME DevicesAssumption ==
    /\ None \notin Devices
    /\ FirstToken \notin Requests
    /\ Veterans \cap Joining = {} /\ Newcomers \cap (Veterans \cup Joining) = {}
    /\ Requests \cap Veterans = {}
    /\ DeviceLimit \in Nat
    /\ Scenarios \subseteq
           [operations : SUBSET (SessionOps \cup {"logout", "claim", "login", "register"}),
            veterans : SUBSET Veterans]

VARIABLES
    record,    \* record[d]: the device record: "none", "pending" or "active"
    listed,    \* the ids in account:<id>:devices
    sessions,  \* sessions[s]: the device of session s, or None
    tickets,   \* the devices whose pending ticket is stored
    tokens,    \* the stored add-tokens
    scenario,  \* what this behaviour starts from and which handlers it calls
    pc,        \* pc[r]: the operation request r awaits, or its answer
    op,        \* op[r]: the handler that serves request r
    dev,       \* dev[r]: the device the request is about
    bearer,    \* bearer[r]: the session id or add-token the request carries
    todo,      \* todo[r]: ids still to read, of a listDevices or of a scan
    seen,      \* seen[r]: active devices counted, ids read, or the record read
    late       \* history: devices whose revocation was answered before r began

store  == <<record, listed, sessions, tickets, tokens>>
locals == <<scenario, op, dev, bearer, todo, seen, late>>
vars   == <<store, pc, locals>>

Final == {"done", "refused", "failed"}

Goto(r, label) == pc' = [pc EXCEPT ![r] = label]

\* The runExclusive keys, by the labels inside them.
DeviceLocked(d)  == \E q \in Requests : pc[q] \in {"revokeDel", "countGet", "countSet"} /\ dev[q] = d
ListLocked       == \E q \in Requests : pc[q] \in {"removeWrite", "addWrite"}
SessionLocked(s) == \E q \in Requests : pc[q] = "refreshSet" /\ bearer[q] = s
TokenLocked(t)   == \E q \in Requests : pc[q] \in {"consumeDel", "failSet"} /\ bearer[q] = t

Init ==
    /\ scenario \in Scenarios
    /\ record = [d \in Devices |-> IF d \in scenario.veterans THEN "active"
                                   ELSE IF d \in Joining THEN "pending" ELSE "none"]
    /\ listed = scenario.veterans \cup Joining
    /\ sessions = [s \in SessionIds |-> IF s \in scenario.veterans THEN s ELSE None]
    /\ tickets = Joining
    /\ tokens = {FirstToken}
    /\ pc = [r \in Requests |-> "idle"]
    /\ op = [r \in Requests |-> "none"]
    /\ dev = [r \in Requests |-> None]
    /\ bearer = [r \in Requests |-> None]
    /\ todo = [r \in Requests |-> {}]
    /\ seen = [r \in Requests |-> {}]
    /\ late = [r \in Requests |-> {}]

\* The device written in a session record when it was issued, and never changed.
Owner(s) == IF s \in Veterans THEN s ELSE dev[s]

\* The devices whose revocation has been answered 204.
Revoked == {dev[q] : q \in {q \in Requests : op[q] = "revoke" /\ pc[q] = "done"}}

-----------------------------------------------------------------------------
(* Requests arrive.                                                        *)

Begin(r, o, d, b, label) ==
    /\ pc[r] = "idle"
    /\ o \in scenario.operations
    /\ Goto(r, label)
    /\ op' = [op EXCEPT ![r] = o]
    /\ dev' = [dev EXCEPT ![r] = d]
    /\ bearer' = [bearer EXCEPT ![r] = b]
    /\ late' = [late EXCEPT ![r] = Revoked]
    /\ UNCHANGED <<store, scenario, todo, seen>>

Registering == {q \in Requests : op[q] = "register"}

\* The credentials of the account that were registered so far, pending or not.
Credentials == scenario.veterans \cup Joining \cup {dev[q] : q \in Registering}

\* The account's page offers the devices on the list.
BeginWithSession(r) ==
    \E s \in {s \in SessionIds : sessions[s] # None} :
        \/ \E o \in {"check", "mint"} : Begin(r, o, None, s, "session")
        \/ \E o \in {"approve", "deny", "revoke"}, d \in listed : Begin(r, o, d, s, "session")
        \/ Begin(r, "logout", None, s, "logout")

\* Only a credential that was registered before can sign a login.
BeginLogin(r) ==
    \E d \in Credentials : Begin(r, "login", d, None, "loginGet")

BeginClaim(r) == \E d \in tickets : Begin(r, "claim", d, None, "ticket")

\* An authenticator makes a new credential for every registration.
BeginRegister(r) ==
    \E d \in Newcomers, t \in tokens :
        /\ \A q \in Registering : dev[q] # d
        /\ Begin(r, "register", d, t, "lookup")

-----------------------------------------------------------------------------
(* verifySession, behind requireSession and GET /session.                  *)

\* The handler's own part begins once the session is accepted.
Handler(r) == CASE op[r] = "check" -> "done"
                [] op[r] = "mint"  -> "loginGet"
                [] OTHER           -> "owned"

\* mint's ceremony is signed with any credential of the account, which need
\* not be the session's own: loginGet then asks whether it is active.
EnterHandler(r) ==
    /\ Goto(r, Handler(r))
    /\ \/ op[r] = "mint" /\ \E d \in Credentials : dev' = [dev EXCEPT ![r] = d]
       \/ op[r] # "mint" /\ UNCHANGED dev

\* The session is read; an expired one is deleted and refused.
SessionGet(r) ==
    /\ pc[r] = "session"
    /\ \/ /\ sessions[bearer[r]] # None
          /\ Goto(r, "device")
          /\ UNCHANGED sessions
       \/ /\ Goto(r, "refused")
          /\ sessions' = [sessions EXCEPT ![bearer[r]] = None]
    /\ UNCHANGED <<record, listed, tickets, tokens, scenario, op, dev, bearer, todo, seen, late>>

\* Mutant: the session is trusted without reading its device.
SessionDevice_Unchecked(r) ==
    /\ pc[r] = "device"
    /\ EnterHandler(r)
    /\ UNCHANGED <<store, scenario, op, bearer, todo, seen, late>>

\* Its device must be active; an old lastSeenAt leads to a refresh.
SessionDevice(r) ==
    /\ pc[r] = "device"
    /\ \/ /\ record[Owner(bearer[r])] = "active"
          /\ EnterHandler(r)
       \/ /\ record[Owner(bearer[r])] = "active"
          /\ Goto(r, "refreshGet")
          /\ UNCHANGED dev
       \/ /\ record[Owner(bearer[r])] # "active"
          /\ Goto(r, "refused")
          /\ UNCHANGED dev
    /\ UNCHANGED <<store, scenario, op, bearer, todo, seen, late>>

RefreshGet(r) ==
    /\ pc[r] = "refreshGet"
    /\ ~SessionLocked(bearer[r])
    /\ Goto(r, IF sessions[bearer[r]] = None THEN "refused" ELSE "refreshSet")
    /\ UNCHANGED <<store, locals>>

RefreshSet(r) ==
    /\ pc[r] = "refreshSet"
    /\ sessions' = [sessions EXCEPT ![bearer[r]] = Owner(bearer[r])]
    /\ EnterHandler(r)
    /\ UNCHANGED <<record, listed, tickets, tokens, scenario, op, bearer, todo, seen, late>>

\* Mutant: revokeSession deletes without the session's lock.
Logout_NoLock(r) ==
    /\ pc[r] = "logout"
    /\ sessions' = [sessions EXCEPT ![bearer[r]] = None]
    /\ Goto(r, "done")
    /\ UNCHANGED <<record, listed, tickets, tokens, locals>>

\* postLogout: revokeSession deletes under the session's lock.
Logout(r) ==
    /\ pc[r] = "logout"
    /\ ~SessionLocked(bearer[r])
    /\ sessions' = [sessions EXCEPT ![bearer[r]] = None]
    /\ Goto(r, "done")
    /\ UNCHANGED <<record, listed, tickets, tokens, locals>>

-----------------------------------------------------------------------------
(* postApproveDevice, postDenyDevice and postRevokeDevice.                 *)

\* assertOwnedDevice and the status the handler asks for.
Owned(r) ==
    /\ pc[r] = "owned"
    /\ \/ /\ record[dev[r]] # (IF op[r] = "revoke" THEN "active" ELSE "pending")
          /\ Goto(r, "refused")
       \/ /\ op[r] = "deny" /\ record[dev[r]] = "pending"
          /\ Goto(r, "revokeGet")
       \/ /\ op[r] = "approve" /\ record[dev[r]] = "pending"
          /\ Goto(r, "list")
       \/ /\ op[r] = "revoke" /\ record[dev[r]] = "active"
          /\ Goto(r, "list")
    /\ UNCHANGED <<store, locals>>

\* listDevices reads the id list, then one record after the other.
ListIds(r) ==
    /\ pc[r] = "list"
    /\ Goto(r, "listRead")
    /\ todo' = [todo EXCEPT ![r] = listed]
    /\ UNCHANGED <<store, scenario, op, dev, bearer, seen, late>>

ListRead(r) ==
    /\ pc[r] = "listRead"
    /\ \E d \in todo[r] :
        /\ todo' = [todo EXCEPT ![r] = @ \ {d}]
        /\ seen' = [seen EXCEPT ![r] = IF record[d] = "active" THEN @ \cup {d} ELSE @]
    /\ UNCHANGED <<store, pc, scenario, op, dev, bearer, late>>

\* The device limit guards an approval, the last-device rule a revocation.
CountActive(r) ==
    /\ pc[r] = "listRead" /\ todo[r] = {}
    /\ LET activeCount == Cardinality(seen[r])
       IN  \/ /\ op[r] = "approve"
              /\ Goto(r, IF activeCount + 1 > DeviceLimit THEN "refused" ELSE "statusGet")
           \/ /\ op[r] = "revoke"
              /\ Goto(r, IF activeCount <= 1 THEN "refused" ELSE "revokeGet")
    /\ seen' = [seen EXCEPT ![r] = {}]
    /\ UNCHANGED <<store, scenario, op, dev, bearer, todo, late>>

\* setDeviceStatus(active): a record that is gone by now is not an error here.
StatusGet(r) ==
    /\ pc[r] = "statusGet"
    /\ Goto(r, IF record[dev[r]] = "none" THEN "done" ELSE "statusSet")
    /\ UNCHANGED <<store, locals>>

StatusSet(r) ==
    /\ pc[r] = "statusSet"
    /\ record' = [record EXCEPT ![dev[r]] = "active"]
    /\ Goto(r, "done")
    /\ UNCHANGED <<listed, sessions, tickets, tokens, locals>>

\* Mutant: revokeDevice does not take the device lock.
RevokeGet_NoLock(r) ==
    /\ pc[r] = "revokeGet"
    /\ Goto(r, IF record[dev[r]] = "none" THEN "done" ELSE "revokeDel")
    /\ UNCHANGED <<store, locals>>

\* revokeDevice: under the device lock, read and delete the record ...
RevokeGet(r) ==
    /\ pc[r] = "revokeGet"
    /\ ~DeviceLocked(dev[r])
    /\ Goto(r, IF record[dev[r]] = "none" THEN "done" ELSE "revokeDel")
    /\ UNCHANGED <<store, locals>>

RevokeDel(r) ==
    /\ pc[r] = "revokeDel"
    /\ record' = [record EXCEPT ![dev[r]] = "none"]
    /\ Goto(r, "removeRead")
    /\ UNCHANGED <<listed, sessions, tickets, tokens, locals>>

\* Mutant: removeDeviceFromAccount does not take the lock of the id list.
RemoveRead_NoLock(r) ==
    /\ pc[r] = "removeRead"
    /\ Goto(r, "removeWrite")
    /\ seen' = [seen EXCEPT ![r] = listed]
    /\ UNCHANGED <<store, scenario, op, dev, bearer, todo, late>>

\* ... then take it off the account's list, under the list's lock ...
RemoveRead(r) ==
    /\ pc[r] = "removeRead"
    /\ ~ListLocked
    /\ Goto(r, "removeWrite")
    /\ seen' = [seen EXCEPT ![r] = listed]
    /\ UNCHANGED <<store, scenario, op, dev, bearer, todo, late>>

RemoveWrite(r) ==
    /\ pc[r] = "removeWrite"
    /\ listed' = seen[r] \ {dev[r]}
    /\ Goto(r, "scan")
    /\ seen' = [seen EXCEPT ![r] = {}]
    /\ UNCHANGED <<record, sessions, tickets, tokens, scenario, op, dev, bearer, todo, late>>

\* ... then revokeAllSessionsForDevice: scan, read each, delete its own.
Scan(r) ==
    /\ pc[r] = "scan"
    /\ todo' = [todo EXCEPT ![r] = {s \in SessionIds : sessions[s] # None}]
    /\ Goto(r, "sweep")
    /\ UNCHANGED <<store, scenario, op, dev, bearer, seen, late>>

SweepGet(r) ==
    /\ pc[r] = "sweep"
    /\ \E s \in todo[r] :
        \/ /\ sessions[s] # dev[r]
           /\ todo' = [todo EXCEPT ![r] = @ \ {s}]
           /\ UNCHANGED <<pc, bearer>>
        \/ /\ sessions[s] = dev[r]
           /\ todo' = [todo EXCEPT ![r] = @ \ {s}]
           /\ Goto(r, "sweepDel")
           /\ bearer' = [bearer EXCEPT ![r] = s]
    /\ UNCHANGED <<store, scenario, op, dev, seen, late>>

SweepDel(r) ==
    /\ pc[r] = "sweepDel"
    /\ ~SessionLocked(bearer[r])
    /\ sessions' = [sessions EXCEPT ![bearer[r]] = None]
    /\ Goto(r, "sweep")
    /\ UNCHANGED <<record, listed, tickets, tokens, locals>>

SweepDone(r) ==
    /\ pc[r] = "sweep" /\ todo[r] = {}
    /\ Goto(r, "done")
    /\ UNCHANGED <<store, locals>>

-----------------------------------------------------------------------------
(* postLoginVerify, and the same ceremony in postAddToken.                 *)

LoginGet(r) ==
    /\ pc[r] = "loginGet"
    /\ ~DeviceLocked(dev[r])
    /\ Goto(r, IF record[dev[r]] = "active" THEN "countGet" ELSE "refused")
    /\ UNCHANGED <<store, locals>>

\* Where the request goes when it leaves the device lock.
Verified(r) == IF op[r] = "mint" THEN "mint" ELSE "issue"

\* updateSignCount reads the record again and writes it back.
CountGet(r) ==
    /\ pc[r] = "countGet"
    /\ Goto(r, IF record[dev[r]] = "none" THEN Verified(r) ELSE "countSet")
    /\ seen' = [seen EXCEPT ![r] = {record[dev[r]]} \ {"none"}]
    /\ UNCHANGED <<store, scenario, op, dev, bearer, todo, late>>

CountSet(r) ==
    /\ pc[r] = "countSet"
    /\ \E status \in seen[r] : record' = [record EXCEPT ![dev[r]] = status]
    /\ Goto(r, Verified(r))
    /\ seen' = [seen EXCEPT ![r] = {}]
    /\ UNCHANGED <<listed, sessions, tickets, tokens, scenario, op, dev, bearer, todo, late>>

\* issueSession, outside every lock.
IssueSession(r) ==
    /\ pc[r] = "issue"
    /\ sessions' = [sessions EXCEPT ![r] = dev[r]]
    /\ Goto(r, "done")
    /\ UNCHANGED <<record, listed, tickets, tokens, locals>>

MintAddToken(r) ==
    /\ pc[r] = "mint"
    /\ tokens' = tokens \cup {r}
    /\ Goto(r, "done")
    /\ UNCHANGED <<record, listed, sessions, tickets, locals>>

-----------------------------------------------------------------------------
(* postDeviceRegisterVerify and postClaimSession: a device joins.          *)

\* A ceremony that does not verify, or a dead token, is counted as a failure.
LookupAddToken(r) ==
    /\ pc[r] = "lookup"
    /\ \/ /\ bearer[r] \in tokens
          /\ Goto(r, "consumeGet")
       \/ Goto(r, "failGet")
    /\ UNCHANGED <<store, locals>>

\* The token may be gone, or still stored and no longer live: checkLive finds
\* it expired or its failed attempts used up.
ConsumeGet(r) ==
    /\ pc[r] = "consumeGet"
    /\ ~TokenLocked(bearer[r])
    /\ \/ bearer[r] \in tokens /\ Goto(r, "consumeDel")
       \/ Goto(r, "failGet")
    /\ UNCHANGED <<store, locals>>

ConsumeDel(r) ==
    /\ pc[r] = "consumeDel"
    /\ tokens' = tokens \ {bearer[r]}
    /\ Goto(r, "addRead")
    /\ UNCHANGED <<record, listed, sessions, tickets, locals>>

\* recordAddTokenFailure: the record is written back with one more failure,
\* unless it is gone or expired.
FailGet(r) ==
    /\ pc[r] = "failGet"
    /\ ~TokenLocked(bearer[r])
    /\ \/ bearer[r] \in tokens /\ Goto(r, "failSet")
       \/ Goto(r, "refused")
    /\ UNCHANGED <<store, locals>>

FailSet(r) ==
    /\ pc[r] = "failSet"
    /\ tokens' = tokens \cup {bearer[r]}
    /\ Goto(r, "refused")
    /\ UNCHANGED <<record, listed, sessions, tickets, locals>>

\* addDeviceToAccount, which counts against no limit here.
AddRead(r) ==
    /\ pc[r] = "addRead"
    /\ ~ListLocked
    /\ Goto(r, "addWrite")
    /\ seen' = [seen EXCEPT ![r] = listed]
    /\ UNCHANGED <<store, scenario, op, dev, bearer, todo, late>>

AddWrite(r) ==
    /\ pc[r] = "addWrite"
    /\ listed' = seen[r] \cup {dev[r]}
    /\ Goto(r, "store")
    /\ seen' = [seen EXCEPT ![r] = {}]
    /\ UNCHANGED <<record, sessions, tickets, tokens, scenario, op, dev, bearer, todo, late>>

StoreDevice(r) ==
    /\ pc[r] = "store"
    /\ record' = [record EXCEPT ![dev[r]] = "pending"]
    /\ Goto(r, "giveTicket")
    /\ UNCHANGED <<listed, sessions, tickets, tokens, locals>>

IssuePendingTicket(r) ==
    /\ pc[r] = "giveTicket"
    /\ tickets' = tickets \cup {dev[r]}
    /\ Goto(r, "done")
    /\ UNCHANGED <<record, listed, sessions, tokens, locals>>

\* The claim peeks at the ticket, reads the device, and takes the ticket,
\* which at either look may be gone or expired.
ReadPendingTicket(r) ==
    /\ pc[r] = "ticket"
    /\ \/ dev[r] \in tickets /\ Goto(r, "claimDevice")
       \/ Goto(r, "refused")
    /\ UNCHANGED <<store, locals>>

ClaimDevice(r) ==
    /\ pc[r] = "claimDevice"
    /\ Goto(r, IF record[dev[r]] = "active" THEN "take" ELSE "refused")
    /\ UNCHANGED <<store, locals>>

ConsumePendingTicket(r) ==
    /\ pc[r] = "take"
    /\ tickets' = tickets \ {dev[r]}
    /\ \/ dev[r] \in tickets /\ Goto(r, "issue")
       \/ Goto(r, "refused")
    /\ UNCHANGED <<record, listed, sessions, tokens, locals>>

-----------------------------------------------------------------------------

\* A Valkey operation rejects: the handler throws and its locks are freed.
Fail(r) ==
    /\ pc[r] \notin Final \cup {"idle"}
    /\ Goto(r, "failed")
    /\ bearer' = [bearer EXCEPT ![r] = None]
    /\ todo' = [todo EXCEPT ![r] = {}]
    /\ seen' = [seen EXCEPT ![r] = {}]
    /\ late' = [late EXCEPT ![r] = {}]
    /\ UNCHANGED <<store, scenario, op, dev>>

Terminated ==
    /\ \A r \in Requests : pc[r] \in Final \cup {"idle"}
    /\ UNCHANGED vars

Arrive(r) == BeginWithSession(r) \/ BeginLogin(r) \/ BeginClaim(r) \/ BeginRegister(r)

Verify(r) ==
    SessionGet(r) \/ SessionDevice(r) \/ RefreshGet(r) \/ RefreshSet(r) \/ Logout(r)

Manage(r) ==
    \/ Owned(r) \/ ListIds(r) \/ ListRead(r) \/ CountActive(r)
    \/ StatusGet(r) \/ StatusSet(r)
    \/ RevokeGet(r) \/ RevokeDel(r) \/ RemoveRead(r) \/ RemoveWrite(r)
    \/ Scan(r) \/ SweepGet(r) \/ SweepDel(r) \/ SweepDone(r)

Login(r) ==
    LoginGet(r) \/ CountGet(r) \/ CountSet(r) \/ IssueSession(r) \/ MintAddToken(r)

Join(r) ==
    \/ LookupAddToken(r) \/ ConsumeGet(r) \/ ConsumeDel(r) \/ FailGet(r) \/ FailSet(r)
    \/ AddRead(r) \/ AddWrite(r) \/ StoreDevice(r) \/ IssuePendingTicket(r)
    \/ ReadPendingTicket(r) \/ ClaimDevice(r) \/ ConsumePendingTicket(r)

Next ==
    \/ \E r \in Requests : Arrive(r) \/ Verify(r) \/ Manage(r) \/ Login(r) \/ Join(r) \/ Fail(r)
    \/ Terminated

Spec == Init /\ [][Next]_vars

-----------------------------------------------------------------------------
TypeOK ==
    /\ record \in [Devices -> {"none", "pending", "active"}]
    /\ listed \subseteq Devices
    /\ sessions \in [SessionIds -> Devices \cup {None}]
    /\ tickets \subseteq Devices
    /\ tokens \subseteq TokenIds
    /\ scenario \in Scenarios
    /\ dev \in [Requests -> Devices \cup {None}]
    /\ bearer \in [Requests -> SessionIds \cup TokenIds \cup {None}]
    /\ todo \in [Requests -> SUBSET (SessionIds \cup Devices)]
    /\ seen \in [Requests -> SUBSET (Devices \cup {"active", "pending"})]
    /\ late \in [Requests -> SUBSET Devices]

\* A request that may take a device off the list, or has begun to.
Removing(d) ==
    \E r \in Requests :
        /\ op[r] \in {"deny", "revoke"} /\ dev[r] = d
        /\ pc[r] \notin {"idle", "session", "device", "refreshGet", "refreshSet", "owned",
                         "list", "listRead", "refused"}

\* The id list loses no update: every device with a record, and every ticket's
\* device, is listed unless somebody removes that very device.  Two requests
\* rewriting the list of one account (accounts.ts:71-109) could lose one.
NoListUpdateLost ==
    TypeOK /\ \A d \in Devices : record[d] # "none" \/ d \in tickets => d \in listed \/ Removing(d)

\* "A concurrent login can't resurrect a device that's being revoked": the
\* write of updateSignCount meets a record that still exists (devices.ts:68-70).
LoginNeverResurrects ==
    \A r \in Requests : pc[r] = "countSet" => record[dev[r]] # "none"

\* Past the session guard: verifySession has accepted the session.
Admitted(r) ==
    /\ op[r] \in SessionOps
    /\ pc[r] \notin {"idle", "session", "device", "refreshGet", "refused", "failed"}

\* Revocation takes effect at its answer, although a session issued by a login
\* that overlapped it may survive the sweep: no request that begins later is
\* admitted for the device, nor does it log in again.  (A device can only be
\* approved back by an approval that raced it; veterans have none.)
RevocationIsFinal ==
    \A r \in Requests :
        /\ Admitted(r) => Owner(bearer[r]) \notin late[r] \cap Veterans
        /\ op[r] = "login" /\ pc[r] \in {"issue", "done"} => dev[r] \notin late[r] \cap Veterans

\* A session that was logged out stays deleted, although a request that uses
\* it may be refreshing it at that moment (sessions.ts:72-75, 99-103).
LogoutIsFinal ==
    \A r \in Requests : op[r] = "logout" /\ pc[r] = "done" => sessions[bearer[r]] = None

-----------------------------------------------------------------------------
(* What the code's own words promise and its unlocked checks do not keep.  *)

\* "Cannot remove the last active device on an account" (errors.ts:131): the
\* account keeps an active device.  postRevokeDevice counts the active devices
\* first and revokes afterwards, without a lock around both.
LastActiveDeviceKept == \E d \in Devices : record[d] = "active"

\* "Denying deletes the pending device" (device-handlers.ts:454-455): once a
\* denial is answered, the device is not active.  setDeviceStatus of an
\* overlapping approval reads and writes the record outside the device lock.
DeniedStaysOut ==
    \A r \in Requests : op[r] = "deny" /\ pc[r] = "done" => record[dev[r]] # "active"
=============================================================================
