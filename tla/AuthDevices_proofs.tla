------------------------- MODULE AuthDevices_proofs -------------------------
(***************************************************************************)
(* What the locks of server/src/auth achieve for any number of requests,   *)
(* devices and scenarios: no lost update of the device list, no device     *)
(* brought back by a login, no session kept by a refresh, and nobody let   *)
(* in by a device that was revoked before.                                 *)
(***************************************************************************)
EXTENDS AuthDevices, TLAPS

GuardLabels  == {"session", "device", "refreshGet", "refreshSet"}
RemoveLabels == {"revokeGet", "revokeDel", "removeRead", "removeWrite", "scan", "sweep", "sweepDel"}
LoginLabels  == {"loginGet", "countGet", "countSet"}
TokenLabels  == {"lookup", "consumeGet", "consumeDel", "failGet", "failSet"}
AddLabels    == {"addRead", "addWrite", "store", "giveTicket"}
ClaimLabels  == {"ticket", "claimDevice", "take"}

\* A session id that was issued names the device it was issued to.
Issued(s) ==
    \/ s \in Veterans
    \/ s \in Requests /\ op[s] \in {"login", "claim"} /\ pc[s] = "done"

\* A request is only at the labels of its handler ...
OpFits(r) ==
    /\ pc[r] = "idle" => op[r] = "none"
    /\ pc[r] \in GuardLabels => op[r] \in SessionOps
    /\ pc[r] = "owned" => op[r] \in {"approve", "deny", "revoke"}
    /\ pc[r] \in {"list", "listRead"} => op[r] \in {"approve", "revoke"}
    /\ pc[r] \in {"statusGet", "statusSet"} => op[r] = "approve"
    /\ pc[r] \in RemoveLabels => op[r] \in {"deny", "revoke"}
    /\ pc[r] \in LoginLabels => op[r] \in {"login", "mint"}
    /\ pc[r] = "issue" => op[r] \in {"login", "claim"}
    /\ pc[r] = "mint" => op[r] = "mint"
    /\ pc[r] \in TokenLabels \cup AddLabels => op[r] = "register"
    /\ pc[r] \in ClaimLabels => op[r] = "claim"
    /\ pc[r] = "logout" => op[r] = "logout"

\* ... about a device ...
DevFits(r) ==
    /\ op[r] \in {"approve", "deny", "revoke", "login", "claim"} => dev[r] \in Devices
    /\ op[r] = "register" => dev[r] \in Newcomers
    /\ pc[r] \in LoginLabels => dev[r] \in Devices

\* ... with a session or token ...
BearerFits(r) ==
    /\ op[r] \in SessionOps \cup {"logout"} /\ pc[r] # "failed" => Issued(bearer[r])
    /\ pc[r] \in TokenLabels => bearer[r] \in TokenIds

\* ... and with what it has read of that kind.
ReadFits(r) ==
    /\ pc[r] = "listRead" => todo[r] \subseteq Devices
    /\ pc[r] \in {"sweep", "sweepDel"} => todo[r] \subseteq SessionIds
    /\ pc[r] \in {"removeWrite", "addWrite"} => seen[r] \subseteq Devices
    /\ pc[r] = "countSet" => seen[r] \subseteq {"active", "pending"}

Fits(r) == OpFits(r) /\ DevFits(r) /\ BearerFits(r) /\ ReadFits(r)

Typed ==
    /\ TypeOK
    /\ pc = [r \in Requests |-> pc[r]] /\ op = [r \in Requests |-> op[r]]
    /\ \A r \in Requests : Fits(r)
    /\ \A s \in SessionIds : sessions[s] # None => Issued(s) /\ sessions[s] = Owner(s)

LEMMA TypedInitial == Init => Typed
<1> SUFFICES ASSUME Init PROVE Typed
  OBVIOUS
<1> USE DevicesAssumption DEF Init, Devices, SessionIds, TokenIds
<1>1. scenario.veterans \subseteq Veterans
  OBVIOUS
<1>2. TypeOK
  BY <1>1 DEF TypeOK
<1>3. \A r \in Requests : Fits(r)
  BY DEF Fits, OpFits, DevFits, BearerFits, ReadFits, SessionOps, GuardLabels, RemoveLabels,
     LoginLabels, TokenLabels, AddLabels, ClaimLabels
<1>4. \A s \in SessionIds : sessions[s] # None => Issued(s) /\ sessions[s] = Owner(s)
  BY <1>1 DEF Issued, Owner
<1>5. pc = [r \in Requests |-> pc[r]] /\ op = [r \in Requests |-> op[r]]
  OBVIOUS
<1> QED BY <1>2, <1>3, <1>4, <1>5 DEF Typed

\* An issued session stays issued, and its device the same.
LEMMA IssuedStays ==
    ASSUME Typed, NEW r \in Requests, NEW s,
           Issued(s),
           \A q \in Requests : q # r => pc'[q] = pc[q] /\ op'[q] = op[q] /\ dev'[q] = dev[q],
           pc[r] # "done"
    PROVE  Issued(s)' /\ Owner(s)' = Owner(s)
BY DevicesAssumption DEF Issued, Owner

\* All but one request stay where they are.
Others(r) ==
    \A q \in Requests : q # r => /\ pc'[q] = pc[q] /\ op'[q] = op[q] /\ dev'[q] = dev[q]
                               /\ bearer'[q] = bearer[q] /\ todo'[q] = todo[q]
                               /\ seen'[q] = seen[q] /\ late'[q] = late[q]

\* What a step of r has to show for the typing: the rest is the others'.
LEMMA TypedStep ==
    ASSUME Typed, NEW r \in Requests, pc[r] # "done", Others(r),
           TypeOK', pc' = [q \in Requests |-> pc'[q]], op' = [q \in Requests |-> op'[q]], Fits(r)',
           \A s \in SessionIds : sessions'[s] # sessions[s] /\ sessions'[s] # None
                                   => Issued(s)' /\ sessions'[s] = Owner(s)'
    PROVE  Typed'
<1>1. \A q \in Requests : q # r => Fits(q)'
  <2> SUFFICES ASSUME NEW q \in Requests, q # r PROVE Fits(q)'
    OBVIOUS
  <2>1. Fits(q) /\ (Issued(bearer[q]) => Issued(bearer[q])')
    BY IssuedStays DEF Typed, Others
  <2> QED BY <2>1 DEF Fits, OpFits, DevFits, BearerFits, ReadFits, Others
<1>2. ASSUME NEW s \in SessionIds, sessions'[s] # None
      PROVE  Issued(s)' /\ sessions'[s] = Owner(s)'
  BY <1>2, IssuedStays DEF Typed, Others
<1> QED BY <1>1, <1>2 DEF Typed

\* The device of an issued session is known.
LEMMA IssuedOwner ==
    ASSUME Typed, NEW s, Issued(s)
    PROVE  Owner(s) \in Devices /\ s \in SessionIds
BY DEF Typed, Issued, Owner, Fits, DevFits, Devices, SessionIds

\* A request begins with what its handler needs.
LEMMA TypedBegin ==
    ASSUME Typed, NEW r \in Requests, NEW o, NEW d, NEW b, NEW label, Begin(r, o, d, b, label),
           \/ /\ o \in SessionOps /\ label = "session" /\ Issued(b) /\ d \in Devices \cup {None}
              /\ o \in {"approve", "deny", "revoke"} => d \in Devices
           \/ o = "logout" /\ label = "logout" /\ Issued(b) /\ d = None
           \/ o = "login" /\ label = "loginGet" /\ b = None /\ d \in Devices
           \/ o = "claim" /\ label = "ticket" /\ b = None /\ d \in Devices
           \/ o = "register" /\ label = "lookup" /\ b \in TokenIds /\ d \in Newcomers
    PROVE  Typed'
<1> USE DEF Typed
<1>1. b \in SessionIds \cup TokenIds \cup {None} /\ d \in Devices \cup {None}
  BY IssuedOwner DEF Devices
<1>2. pc[r] # "done" /\ Others(r) /\ UNCHANGED <<store, scenario, todo, seen>>
  BY DEF Begin, Goto, Others
<1>3. /\ pc' = [q \in Requests |-> pc'[q]] /\ op' = [q \in Requests |-> op'[q]]
      /\ pc'[r] = label /\ op'[r] = o /\ dev'[r] = d /\ bearer'[r] = b
  BY DEF Begin, Goto, TypeOK
<1>4. Revoked \subseteq Devices
  BY DEF Revoked, Fits, DevFits
<1>5. TypeOK'
  BY <1>1, <1>4 DEF Begin, TypeOK, store
<1>6. Issued(b) => Issued(b)'
  BY <1>2, IssuedStays DEF Others
<1>7. OpFits(r)'
  BY <1>3 DEF OpFits, SessionOps, GuardLabels, RemoveLabels, LoginLabels, TokenLabels, AddLabels,
              ClaimLabels
<1>8. DevFits(r)'
  BY <1>3 DEF DevFits, SessionOps, LoginLabels
<1>9. BearerFits(r)'
  BY <1>3, <1>6 DEF BearerFits, SessionOps, GuardLabels, TokenLabels
<1>10. ReadFits(r)'
  BY <1>3 DEF ReadFits
<1> QED BY <1>2, <1>3, <1>5, <1>7, <1>8, <1>9, <1>10, TypedStep DEF Fits, store

\* What may sign is a device of the model.
LEMMA CredentialsAreDevices ==
    ASSUME Typed
    PROVE  Credentials \subseteq Devices
<1>1. scenario.veterans \subseteq Veterans
  BY DevicesAssumption DEF Typed, TypeOK
<1>2. \A q \in Registering : dev[q] \in Newcomers
  BY DEF Registering, Typed, Fits, DevFits
<1> QED BY <1>1, <1>2 DEF Credentials, Devices

\* Requests arrive.
LEMMA TypedArrive ==
    ASSUME Typed, NEW r \in Requests, Arrive(r)
    PROVE  Typed'
<1>1. CASE BeginWithSession(r)
  <2>1. PICK s \in SessionIds :
          /\ sessions[s] # None
          /\ \/ \E o \in {"check", "mint"} : Begin(r, o, None, s, "session")
             \/ \E o \in {"approve", "deny", "revoke"}, d \in listed : Begin(r, o, d, s, "session")
             \/ Begin(r, "logout", None, s, "logout")
    BY <1>1 DEF BeginWithSession
  <2>2. Issued(s) /\ listed \subseteq Devices
    BY <2>1 DEF Typed, TypeOK
  <2> QED BY <2>1, <2>2, TypedBegin DEF SessionOps
<1>2. CASE BeginLogin(r)
  <2>1. PICK d \in Credentials : Begin(r, "login", d, None, "loginGet")
    BY <1>2 DEF BeginLogin
  <2> QED BY <2>1, CredentialsAreDevices, TypedBegin
<1>3. CASE BeginClaim(r)
  BY <1>3, TypedBegin DEF BeginClaim, Typed, TypeOK
<1>4. CASE BeginRegister(r)
  BY <1>4, TypedBegin DEF BeginRegister, Typed, TypeOK
<1> QED BY <1>1, <1>2, <1>3, <1>4 DEF Arrive

\* What a handler does once the request has arrived.
Handle(r) == Verify(r) \/ Manage(r) \/ Login(r) \/ Join(r) \/ Fail(r)

LEMMA TypedHandle ==
    ASSUME Typed, NEW r \in Requests, Handle(r)
    PROVE  Typed'
<1>1. /\ Fits(r) /\ dev[r] \in Devices \cup {None}
      /\ Issued(bearer[r]) => Owner(bearer[r]) \in Devices /\ bearer[r] \in SessionIds
  BY IssuedOwner DEF Typed, TypeOK
<1>0. Credentials \subseteq Devices
  BY CredentialsAreDevices
<1>2. /\ pc[r] \in GuardLabels \cup {"sweepDel"} => Owner(bearer[r]) \in Devices
      /\ pc[r] \in {"statusSet", "revokeDel", "issue", "giveTicket", "addWrite", "countSet", "store",
                    "countGet"} => dev[r] \in Devices
      /\ pc[r] \in {"consumeDel", "failSet"} => bearer[r] \in TokenIds
      /\ r \in TokenIds /\ r \in SessionIds
  BY <1>1 DEF Fits, OpFits, DevFits, BearerFits, GuardLabels, RemoveLabels, LoginLabels,
     AddLabels, TokenLabels, SessionOps, Devices, TokenIds, SessionIds
<1> USE DEF Goto, store, locals, Handle,
      Verify, SessionGet, SessionDevice, RefreshGet, RefreshSet, Logout, EnterHandler,
      Manage, Owned, ListIds, ListRead, CountActive, StatusGet, StatusSet, RevokeGet, RevokeDel,
      RemoveRead, RemoveWrite, Scan, SweepGet, SweepDel, SweepDone,
      Login, LoginGet, CountGet, CountSet, IssueSession, MintAddToken, Verified,
      Join, LookupAddToken, ConsumeGet, ConsumeDel, FailGet, FailSet, AddRead, AddWrite,
      StoreDevice, IssuePendingTicket, ReadPendingTicket, ClaimDevice, ConsumePendingTicket, Fail
<1>3. pc[r] # "done" /\ Others(r)
  <2>1. pc[r] # "done" /\ op' = op
    BY SMTT(60) DEF Final
  <2>2. ASSUME NEW q \in Requests, q # r
        PROVE  pc'[q] = pc[q] /\ dev'[q] = dev[q] /\ bearer'[q] = bearer[q]
    BY <2>2 DEF Typed, TypeOK
  <2>3. ASSUME NEW q \in Requests, q # r
        PROVE  todo'[q] = todo[q] /\ seen'[q] = seen[q] /\ late'[q] = late[q]
    BY <2>3 DEF Typed, TypeOK
  <2> QED BY <2>1, <2>2, <2>3 DEF Others
<1>4. pc' = [q \in Requests |-> pc'[q]] /\ op' = [q \in Requests |-> op'[q]]
  BY SMTT(60) DEF Typed
<1>5. TypeOK'
  <2> USE <1>1, <1>2 DEF TypeOK, Typed
  <2>1. record' \in [Devices -> {"none", "pending", "active"}]
    BY SMTT(60) DEF ReadFits, Fits
  <2>2. listed' \subseteq Devices
    BY SMTT(60) DEF ReadFits, Fits
  <2>3. sessions' \in [SessionIds -> Devices \cup {None}]
    BY SMTT(60) DEF GuardLabels
  <2>4. tickets' \subseteq Devices /\ tokens' \subseteq TokenIds /\ scenario' \in Scenarios
    BY SMTT(60)
  <2>5. dev' \in [Requests -> Devices \cup {None}]
    BY <1>0, SMTT(60) DEF GuardLabels
  <2>6. bearer' \in [Requests -> SessionIds \cup TokenIds \cup {None}]
    BY SMTT(60) DEF ReadFits, Fits
  <2>7. todo' \in [Requests -> SUBSET (SessionIds \cup Devices)]
    BY SMTT(60)
  <2>8. seen' \in [Requests -> SUBSET (Devices \cup {"active", "pending"})]
    BY SMTT(60) DEF ReadFits, Fits
  <2>9. late' \in [Requests -> SUBSET Devices]
    BY SMTT(60)
  <2> QED BY <2>1, <2>2, <2>3, <2>4, <2>5, <2>6, <2>7, <2>8, <2>9
<1>6. OpFits(r)'
  BY <1>1, SMTT(60) DEF Fits, Typed, TypeOK, OpFits, Handler, SessionOps, GuardLabels, RemoveLabels,
     LoginLabels, TokenLabels, AddLabels, ClaimLabels
<1>7. DevFits(r)'
  BY <1>0, <1>1, <1>2, SMTT(60) DEF Fits, Typed, TypeOK, DevFits, OpFits, Handler, GuardLabels, LoginLabels,
     SessionOps
<1>8. BearerFits(r)'
  <2>1. op[r] \in SessionOps \cup {"logout"} /\ pc'[r] # "failed" => Issued(bearer'[r])
    <3>1. CASE pc[r] = "sweep"
      <4>1. \/ pc'[r] = "failed" \/ bearer'[r] = bearer[r]
            \/ bearer'[r] \in todo[r] /\ sessions[bearer'[r]] = dev[r]
        BY <3>1, SMTT(60) DEF Typed, TypeOK
      <4>2. op[r] \in {"deny", "revoke"} /\ dev[r] \in Devices /\ todo[r] \subseteq SessionIds
        BY <1>1, <3>1 DEF Fits, OpFits, DevFits, ReadFits, RemoveLabels
      <4> QED BY <1>1, <3>1, <4>1, <4>2, DevicesAssumption DEF Typed, Fits, BearerFits, SessionOps
    <3>2. CASE pc[r] # "sweep"
      <4>1. pc'[r] = "failed" \/ bearer'[r] = bearer[r]
        BY <3>2, SMTT(60) DEF Typed, TypeOK
      <4>2. pc[r] # "failed"
        BY SMTT(60) DEF Final
      <4> QED BY <1>1, <4>1, <4>2 DEF Fits, BearerFits
    <3> QED BY <3>1, <3>2
  <2>2. Issued(bearer'[r]) => Issued(bearer[r])'
    BY <1>3, IssuedStays DEF Others
  <2>3. pc'[r] \in TokenLabels => bearer'[r] \in TokenIds
    BY <1>1, SMTT(60) DEF Typed, TypeOK, Fits, BearerFits, Handler, TokenLabels
  <2> QED BY <2>1, <2>2, <2>3 DEF BearerFits, Typed
<1>9. ReadFits(r)'
  <2>1. pc'[r] = "listRead" => todo'[r] \subseteq Devices
    BY <1>1, SMTT(60) DEF Fits, Typed, TypeOK, ReadFits, Handler
  <2>2. pc'[r] \in {"sweep", "sweepDel"} => todo'[r] \subseteq SessionIds
    BY <1>1, SMTT(60) DEF Fits, Typed, TypeOK, ReadFits, Handler
  <2>3. pc'[r] \in {"removeWrite", "addWrite"} => seen'[r] \subseteq Devices
    BY <1>1, SMTT(60) DEF Fits, Typed, TypeOK, ReadFits, Handler
  <2>4. pc'[r] = "countSet" => seen'[r] \subseteq {"active", "pending"}
    BY <1>1, <1>2, SMTT(60) DEF Fits, Typed, TypeOK, ReadFits, Handler
  <2> QED BY <2>1, <2>2, <2>3, <2>4 DEF ReadFits
<1>10. ASSUME NEW s \in SessionIds, sessions'[s] # sessions[s], sessions'[s] # None
      PROVE  Issued(s)' /\ sessions'[s] = Owner(s)'
  <2>1. CASE pc[r] = "refreshSet"
    BY <1>1, <1>3, <1>10, <2>1, IssuedStays DEF Typed, TypeOK, Fits, OpFits, BearerFits,
       GuardLabels, Others
  <2>2. CASE pc[r] = "issue"
    BY <1>1, <1>10, <2>2, DevicesAssumption DEF Typed, TypeOK, Fits, OpFits, Issued, Owner
  <2>3. CASE pc[r] \notin {"refreshSet", "issue"}
    BY <1>10, <2>3 DEF Typed, TypeOK
  <2> QED BY <2>1, <2>2, <2>3
<1> QED BY <1>3, <1>4, <1>5, <1>6, <1>7, <1>8, <1>9, <1>10, TypedStep DEF Fits

\* The types hold throughout.
LEMMA TypedInductive == Typed /\ [Next]_vars => Typed'
<1> SUFFICES ASSUME Typed, [Next]_vars PROVE Typed'
  OBVIOUS
<1>1. ASSUME NEW r \in Requests, Arrive(r) \/ Handle(r)
      PROVE  Typed'
  BY <1>1, TypedArrive, TypedHandle
<1>2. CASE UNCHANGED vars
  <2> USE <1>2 DEF vars, store, locals
  <2>1. TypeOK'
    BY DEF Typed, TypeOK
  <2>2. \A s : Issued(s)' = Issued(s) /\ Owner(s)' = Owner(s)
    BY DEF Issued, Owner
  <2>3. ASSUME NEW r \in Requests PROVE Fits(r)'
    <3>1. OpFits(r)' /\ DevFits(r)' /\ ReadFits(r)'
      BY DEF Typed, Fits, OpFits, DevFits, ReadFits
    <3>2. BearerFits(r)'
      BY <2>2 DEF Typed, Fits, BearerFits
    <3> QED BY <3>1, <3>2 DEF Fits
  <2> QED BY <2>1, <2>2, <2>3 DEF Typed
<1> QED BY <1>1, <1>2 DEF Next, Terminated, Handle

-----------------------------------------------------------------------------
(* What one step of a request may change: the proofs below need only this. *)

DeviceInside == {"revokeDel", "countGet", "countSet"}
ListInside   == {"removeWrite", "addWrite"}
EarlyLabels  == {"idle", "session", "device", "refreshGet", "refreshSet", "owned", "refused", "failed"}
BeforeRemoval == {"idle", "session", "device", "refreshGet", "refreshSet", "owned", "list",
                  "listRead", "refused"}
GoneLabels   == {"removeRead", "removeWrite", "scan", "sweep", "sweepDel", "done"}

\* Who writes device records ...
RecordMoves(r) ==
    \/ record' = record /\ pc[r] # "revokeDel"
    \/ record' = record /\ pc'[r] = "failed"
    \/ pc[r] = "statusSet" /\ record' = [record EXCEPT ![dev[r]] = "active"]
    \/ pc[r] = "revokeDel" /\ record' = [record EXCEPT ![dev[r]] = "none"]
    \/ pc[r] = "countSet" /\ \E status \in seen[r] : record' = [record EXCEPT ![dev[r]] = status]
    \/ pc[r] = "store" /\ record' = [record EXCEPT ![dev[r]] = "pending"]

\* ... the id list and the tickets ...
ListMoves(r) ==
    \/ listed' = listed /\ pc'[r] # "store"
    \/ pc[r] = "removeWrite" /\ pc'[r] = "scan" /\ listed' = seen[r] \ {dev[r]}
    \/ pc[r] = "addWrite" /\ pc'[r] = "store" /\ listed' = seen[r] \cup {dev[r]}

TicketMoves(r) ==
    \/ tickets' \subseteq tickets
    \/ pc[r] = "giveTicket" /\ tickets' = tickets \cup {dev[r]}

\* ... and sessions, and what a logout leaves.
SessionMoves(r) ==
    /\ \/ sessions' = sessions
       \/ \E s : sessions' = [sessions EXCEPT ![s] = None]
       \/ pc[r] = "refreshSet" /\ sessions' = [sessions EXCEPT ![bearer[r]] = Owner(bearer[r])]
       \/ pc[r] = "issue" /\ sessions' = [sessions EXCEPT ![r] = dev[r]]
    /\ pc'[r] = "refreshSet" => sessions[bearer[r]] # None /\ bearer'[r] = bearer[r]
    /\ op'[r] = "logout" /\ pc'[r] = "done" =>
           ~SessionLocked(bearer[r]) /\ sessions' = [sessions EXCEPT ![bearer[r]] = None]
           /\ bearer'[r] = bearer[r]

\* What a request has checked when it enters a lock ...
LockMoves(r) ==
    /\ pc'[r] \in DeviceInside \cup ListInside => dev'[r] = dev[r]
    /\ pc'[r] \in DeviceInside => pc[r] \in DeviceInside \/ ~DeviceLocked(dev[r])
    /\ pc'[r] = "countSet" => /\ pc[r] = "countGet" /\ record[dev[r]] # "none"
                              /\ record' = record /\ seen'[r] = {record[dev[r]]}
    /\ pc'[r] \in ListInside => ~ListLocked /\ seen'[r] = listed /\ listed' = listed

\* ... or gets ready to write a record.
WriteMoves(r) ==
    /\ pc'[r] \in {"statusSet", "store", "giveTicket"} => dev'[r] = dev[r]
    /\ pc'[r] = "statusSet" => pc[r] = "statusGet" /\ record[dev[r]] # "none"
    /\ pc'[r] = "store" => pc[r] = "addWrite"
    /\ pc'[r] = "giveTicket" => pc[r] = "store"

\* How a request goes on: what it is about is settled when it begins.
HandleMoves(r) ==
    /\ pc[r] # "idle" => op'[r] = op[r] /\ (op[r] # "mint" => dev'[r] = dev[r])
    /\ pc[r] # "idle" => late'[r] \in {late[r], {}}
    /\ pc[r] = "idle" => late'[r] = Revoked /\ pc'[r] \in {"session", "logout", "loginGet", "ticket", "lookup"}
    /\ pc[r] \notin Final

\* A denial or revocation that is past its checks goes on with them.
RemovalMoves(r) ==
    op[r] \in {"deny", "revoke"} /\ pc[r] \notin BeforeRemoval => pc'[r] \notin BeforeRemoval

\* The status that approval, denial and revocation have found ...
OwnedMoves(r) ==
    op'[r] \in {"approve", "deny", "revoke"} /\ pc'[r] \notin EarlyLabels =>
        \/ pc[r] \notin EarlyLabels
        \/ pc[r] = "owned" /\ record[dev[r]] = IF op[r] = "revoke" THEN "active" ELSE "pending"

\* ... that the record is gone behind revokeDevice ...
GoneMoves(r) ==
    op'[r] = "revoke" /\ pc'[r] \in GoneLabels =>
        \/ pc[r] \in GoneLabels
        \/ pc[r] = "revokeDel"
        \/ pc[r] = "revokeGet" /\ record[dev[r]] = "none"

\* ... and that the device is active behind the guard and the login.
EntryMoves(r) ==
    /\ op'[r] \in SessionOps /\ pc'[r] \notin {"idle", "session", "device", "refused", "failed"} =>
           \/ pc[r] = "device" /\ record[Owner(bearer[r])] = "active" /\ bearer'[r] = bearer[r]
           \/ /\ pc[r] \notin {"idle", "session", "device", "refused", "failed"}
              /\ \/ bearer'[r] = bearer[r]
                 \/ pc[r] = "sweep" /\ bearer'[r] \in todo[r] /\ sessions[bearer'[r]] = dev[r]
    /\ op'[r] = "login" /\ pc'[r] \in {"countGet", "countSet", "issue", "done"} =>
           \/ pc[r] \in {"countGet", "countSet", "issue"}
           \/ pc[r] = "loginGet" /\ record[dev[r]] = "active"

\* Every step moves so, whichever handler makes it.
LEMMA Footprint ==
    ASSUME Typed, NEW r \in Requests, Arrive(r) \/ Handle(r)
    PROVE  /\ RecordMoves(r) /\ ListMoves(r) /\ TicketMoves(r) /\ SessionMoves(r)
           /\ LockMoves(r) /\ WriteMoves(r) /\ HandleMoves(r) /\ RemovalMoves(r)
           /\ OwnedMoves(r) /\ GoneMoves(r) /\ EntryMoves(r)
           /\ pc[r] # "done" /\ Others(r)
<1>0. Fits(r)
  BY DEF Typed
<1> USE <1>0 DEF Typed, Goto, store, locals, Handle,
      Arrive, BeginWithSession, BeginLogin, BeginClaim, BeginRegister, Begin,
      Verify, SessionGet, SessionDevice, RefreshGet, RefreshSet, Logout, EnterHandler,
      Manage, Owned, ListIds, ListRead, CountActive, StatusGet, StatusSet, RevokeGet, RevokeDel,
      RemoveRead, RemoveWrite, Scan, SweepGet, SweepDel, SweepDone,
      Login, LoginGet, CountGet, CountSet, IssueSession, MintAddToken, Verified,
      Join, LookupAddToken, ConsumeGet, ConsumeDel, FailGet, FailSet, AddRead, AddWrite,
      StoreDevice, IssuePendingTicket, ReadPendingTicket, ClaimDevice, ConsumePendingTicket, Fail
<1>1. RecordMoves(r)
  BY SMTT(60) DEF RecordMoves, TypeOK
<1>2. ListMoves(r)
  BY SMTT(60) DEF ListMoves, Handler, TypeOK
<1>3. TicketMoves(r)
  BY SMTT(60) DEF TicketMoves
<1>4. SessionMoves(r)
  <2>1. \/ sessions' = sessions
        \/ \E s : sessions' = [sessions EXCEPT ![s] = None]
        \/ pc[r] = "refreshSet" /\ sessions' = [sessions EXCEPT ![bearer[r]] = Owner(bearer[r])]
        \/ pc[r] = "issue" /\ sessions' = [sessions EXCEPT ![r] = dev[r]]
    BY SMTT(60)
  <2>2. pc'[r] = "refreshSet" => sessions[bearer[r]] # None /\ bearer'[r] = bearer[r]
    BY SMTT(60) DEF Handler, TypeOK
  <2>3. op'[r] = "logout" /\ pc'[r] = "done" =>
           ~SessionLocked(bearer[r]) /\ sessions' = [sessions EXCEPT ![bearer[r]] = None]
           /\ bearer'[r] = bearer[r]
    BY SMTT(60) DEF Handler, TypeOK, Fits, OpFits, SessionOps, GuardLabels, RemoveLabels, LoginLabels,
       TokenLabels, AddLabels, ClaimLabels
  <2> QED BY ONLY <2>1, <2>2, <2>3 DEF SessionMoves
<1>5. LockMoves(r)
  BY SMTT(60) DEF LockMoves, DeviceInside, ListInside, Handler, TypeOK
<1>6. WriteMoves(r)
  BY SMTT(60) DEF WriteMoves, Handler, TypeOK
<1>7. HandleMoves(r)
  BY SMTT(60) DEF HandleMoves, TypeOK, Final
<1>8. OwnedMoves(r)
  BY SMTT(60) DEF OwnedMoves, EarlyLabels, Handler, TypeOK, SessionOps
<1>9. GoneMoves(r)
  BY SMTT(60) DEF GoneMoves, GoneLabels, Handler, TypeOK, Fits, OpFits, SessionOps, GuardLabels,
     RemoveLabels, LoginLabels, TokenLabels, AddLabels, ClaimLabels
<1>10. EntryMoves(r)
  BY SMTT(60) DEF EntryMoves, Handler, TypeOK, Fits, OpFits, SessionOps, GuardLabels, RemoveLabels,
     LoginLabels, TokenLabels, AddLabels, ClaimLabels, Final
<1>11. RemovalMoves(r)
  BY SMTT(60) DEF RemovalMoves, BeforeRemoval, Handler, TypeOK, Fits, OpFits, SessionOps, GuardLabels,
     RemoveLabels, LoginLabels, TokenLabels, AddLabels, ClaimLabels
<1>12. pc[r] # "done" /\ Others(r)
  BY SMTT(60) DEF Others, TypeOK, Final
<1> QED BY <1>1, <1>2, <1>3, <1>4, <1>5, <1>6, <1>7, <1>8, <1>9, <1>10, <1>11, <1>12

-----------------------------------------------------------------------------
(* The locks of the device records and of the id list.                     *)

Locked ==
    /\ \A q, r \in Requests :
           q # r /\ pc[q] \in DeviceInside /\ pc[r] \in DeviceInside => dev[q] # dev[r]
    /\ \A q, r \in Requests : q # r => ~(pc[q] \in ListInside /\ pc[r] \in ListInside)
    /\ \A r \in Requests : pc[r] \in ListInside => seen[r] = listed
    /\ LoginNeverResurrects

LEMMA LockedStep ==
    ASSUME Typed, Locked, NEW r \in Requests, Arrive(r) \/ Handle(r)
    PROVE  Locked'
<1>1. /\ RecordMoves(r) /\ ListMoves(r) /\ LockMoves(r) /\ Others(r)
      /\ \A d \in Devices : record[d] \in {"none", "pending", "active"}
      /\ \A q \in Requests : Fits(q)
  BY Footprint DEF Typed, TypeOK
<1>2. ASSUME NEW q \in Requests, q # r, pc'[q] \in DeviceInside, pc'[r] \in DeviceInside
      PROVE  dev'[q] # dev'[r]
  BY <1>1, <1>2 DEF Locked, LockMoves, Others, DeviceLocked, DeviceInside
<1>3. ASSUME NEW q \in Requests, q # r
      PROVE  ~(pc'[q] \in ListInside /\ pc'[r] \in ListInside)
  BY <1>1, <1>3 DEF LockMoves, Others, ListLocked, ListInside
<1>4. ASSUME NEW q \in Requests, pc'[q] \in ListInside
      PROVE  seen'[q] = listed'
  <2>1. CASE q = r
    BY <1>1, <1>4, <2>1 DEF LockMoves
  <2>2. CASE q # r
    BY <1>1, <1>4, <2>2 DEF Locked, ListMoves, Others, ListInside
  <2> QED BY <2>1, <2>2
<1>5. ASSUME NEW q \in Requests, pc'[q] = "countSet"
      PROVE  record'[dev'[q]] # "none"
  <2>1. CASE q = r
    BY <1>1, <1>5, <2>1 DEF LockMoves, DeviceInside
  <2>2. CASE q # r
    <3>1. pc[q] = "countSet" /\ dev'[q] = dev[q] /\ record[dev[q]] # "none" /\ dev[q] \in Devices
      BY <1>1, <1>5, <2>2 DEF Others, Locked, LoginNeverResurrects, Fits, DevFits, LoginLabels
    <3>2. pc[r] \in {"revokeDel", "countSet"} => dev[r] # dev[q]
      BY <2>2, <3>1 DEF Locked, DeviceInside
    <3> QED BY <1>1, <3>1, <3>2 DEF RecordMoves, Typed, TypeOK
  <2> QED BY <2>1, <2>2
<1> QED BY <1>1, <1>2, <1>3, <1>4, <1>5 DEF Locked, LoginNeverResurrects, Others

-----------------------------------------------------------------------------
(* The id list keeps what somebody still needs.                            *)

Tracked(d) == d \in listed \/ Removing(d)

Listing ==
    /\ \A d \in Devices : record[d] # "none" \/ d \in tickets => Tracked(d)
    /\ \A r \in Requests :
           pc[r] \in {"statusSet", "countSet", "store", "giveTicket"} => Tracked(dev[r])

\* Who began to remove a device goes on.
LEMMA RemovingStays ==
    ASSUME Typed, NEW r \in Requests, Arrive(r) \/ Handle(r), NEW d, Removing(d)
    PROVE  Removing(d)'
BY Footprint DEF Removing, HandleMoves, RemovalMoves, BeforeRemoval, Others

LEMMA TrackedStays ==
    ASSUME Typed, Locked, NEW r \in Requests, Arrive(r) \/ Handle(r), NEW d, Tracked(d)
    PROVE  Tracked(d)'
<1>1. ListMoves(r) /\ Others(r) /\ HandleMoves(r)
  BY Footprint
<1>2. CASE listed \subseteq listed'
  BY <1>2, RemovingStays DEF Tracked
<1>3. CASE pc[r] = "removeWrite" /\ pc'[r] = "scan" /\ listed' = listed \ {dev[r]}
  <2>1. op[r] \in {"deny", "revoke"} /\ op'[r] = op[r] /\ dev'[r] = dev[r]
    BY <1>1, <1>3 DEF Typed, Fits, OpFits, RemoveLabels, HandleMoves
  <2>2. CASE d = dev[r]
    BY <1>3, <2>1, <2>2 DEF Removing, Tracked
  <2>3. CASE d # dev[r]
    BY <1>3, <2>3, RemovingStays DEF Tracked
  <2> QED BY <2>2, <2>3
<1> QED BY <1>1, <1>2, <1>3 DEF ListMoves, Locked, ListInside

LEMMA ListingStep ==
    ASSUME Typed, Locked, Listing, NEW r \in Requests, Arrive(r) \/ Handle(r)
    PROVE  Listing'
<1>1. /\ RecordMoves(r) /\ ListMoves(r) /\ TicketMoves(r) /\ LockMoves(r) /\ WriteMoves(r)
      /\ Others(r) /\ Fits(r)
  BY Footprint DEF Typed
<1>2. ASSUME NEW d \in Devices, record'[d] # "none" \/ d \in tickets'
      PROVE  Tracked(d)'
  <2>1. Tracked(d)
    BY <1>1, <1>2 DEF Listing, RecordMoves, TicketMoves, Typed, TypeOK
  <2> QED BY <2>1, TrackedStays
<1>3. ASSUME NEW q \in Requests, pc'[q] \in {"statusSet", "countSet", "store", "giveTicket"}
      PROVE  Tracked(dev[q])' /\ dev'[q] = dev[q]
  <2>1. CASE q # r
    BY <1>1, <1>3, <2>1, TrackedStays DEF Others, Listing
  <2>2. CASE q = r /\ pc'[r] = "store"
    BY <1>1, <2>2 DEF ListMoves, WriteMoves, Tracked
  <2>3. CASE q = r /\ pc'[r] # "store"
    <3>1. Tracked(dev[r]) /\ dev'[r] = dev[r]
      BY <1>1, <1>3, <2>3 DEF Listing, WriteMoves, LockMoves, DeviceInside, Fits, DevFits,
         OpFits, LoginLabels
    <3> QED BY <2>3, <3>1, TrackedStays
  <2> QED BY <2>1, <2>2, <2>3
<1> QED BY <1>2, <1>3 DEF Listing

-----------------------------------------------------------------------------
(* A session that was logged out is not refreshed back.                    *)

LoggedOut ==
    \A r \in Requests : op[r] = "logout" /\ pc[r] = "done" =>
        sessions[bearer[r]] = None /\ ~SessionLocked(bearer[r])

LEMMA LoggedOutStep ==
    ASSUME Typed, LoggedOut, NEW r \in Requests, Arrive(r) \/ Handle(r)
    PROVE  LoggedOut'
<1>1. SessionMoves(r) /\ HandleMoves(r) /\ Others(r) /\ pc[r] # "done"
  BY Footprint
<1>2. ASSUME NEW q \in Requests, q # r, op'[q] = "logout", pc'[q] = "done"
      PROVE  sessions'[bearer'[q]] = None /\ ~SessionLocked(bearer[q])'
  <2>1. op[q] = "logout" /\ pc[q] = "done" /\ bearer'[q] = bearer[q]
    BY <1>1, <1>2 DEF Others
  <2>2. sessions[bearer[q]] = None /\ ~SessionLocked(bearer[q]) /\ Issued(bearer[q])
    BY <2>1 DEF LoggedOut, Typed, Fits, BearerFits
  <2>3. bearer[q] # r \/ pc[r] # "issue"
    BY <2>2, DevicesAssumption DEF Issued
  <2>4. sessions'[bearer[q]] = None
    <3>1. bearer[q] \in SessionIds
      BY <2>2, IssuedOwner
    <3>2. pc[r] = "refreshSet" => bearer[r] # bearer[q]
      BY <2>2 DEF SessionLocked
    <3>3. \A s \in SessionIds : s = bearer[q] => sessions'[s] = None
      BY <1>1, <2>2, <2>3, <3>2 DEF SessionMoves, Typed, TypeOK
    <3> QED BY <3>1, <3>3
  <2>5. ASSUME NEW p \in Requests, pc'[p] = "refreshSet" PROVE bearer'[p] # bearer[q]
    BY <1>1, <2>2, <2>5 DEF SessionMoves, SessionLocked, Others
  <2> QED BY <2>1, <2>4, <2>5 DEF SessionLocked
<1>3. ASSUME op'[r] = "logout", pc'[r] = "done"
      PROVE  sessions'[bearer'[r]] = None /\ ~SessionLocked(bearer[r])'
  <2>1. /\ sessions' = [sessions EXCEPT ![bearer[r]] = None] /\ bearer'[r] = bearer[r]
        /\ ~SessionLocked(bearer[r])
    BY <1>1, <1>3 DEF SessionMoves
  <2>2. bearer[r] \in SessionIds
    <3>1. op[r] = "logout" /\ pc[r] # "failed"
      BY <1>1, <1>3 DEF HandleMoves, Final
    <3> QED BY <3>1, IssuedOwner DEF Typed, Fits, BearerFits
  <2>3. sessions'[bearer[r]] = None
    BY <2>1, <2>2 DEF Typed, TypeOK
  <2>4. ASSUME NEW p \in Requests, pc'[p] = "refreshSet" PROVE bearer'[p] # bearer[r]
    BY <1>1, <1>3, <2>1, <2>4 DEF SessionLocked, Others
  <2> QED BY <2>1, <2>3, <2>4 DEF SessionLocked
<1> QED BY <1>2, <1>3 DEF LoggedOut

-----------------------------------------------------------------------------
(* A revoked device stays revoked, and nobody gets in with it.             *)

\* A veteran's record is active or gone, and once gone nobody writes it ...
VeteranRecords ==
    /\ \A d \in Veterans : record[d] # "pending"
    /\ \A r \in Requests : pc[r] = "countSet" /\ dev[r] \in Veterans => seen[r] \subseteq {"active"}
    /\ \A r \in Requests : op[r] \in {"approve", "deny"} /\ pc[r] \notin EarlyLabels =>
           dev[r] \notin Veterans

\* ... which is what a revocation's answer means ...
RevokedGone ==
    /\ \A r \in Requests : op[r] = "revoke" /\ pc[r] \in GoneLabels /\ dev[r] \in Veterans =>
           record[dev[r]] = "none"
    /\ \A r \in Requests : late[r] \subseteq Revoked

\* ... and whoever is let in had an active device after it began.
LetIn ==
    /\ \A r \in Requests : op[r] = "revoke" /\ pc[r] \notin EarlyLabels =>
           dev[r] \notin late[r] \cap Veterans
    /\ \A r \in Requests :
           op[r] \in SessionOps /\ pc[r] \notin {"idle", "session", "device", "refused", "failed"} =>
               Owner(bearer[r]) \notin late[r] \cap Veterans
    /\ \A r \in Requests : op[r] = "login" /\ pc[r] \in {"countGet", "countSet", "issue", "done"} =>
           dev[r] \notin late[r] \cap Veterans

\* Who was revoked before a request began has no record any more.
LEMMA LateIsGone ==
    ASSUME RevokedGone, NEW r \in Requests, NEW d \in late[r] \cap Veterans
    PROVE  record[d] = "none"
BY DEF RevokedGone, Revoked, GoneLabels

LEMMA VeteranRecordsStep ==
    ASSUME Typed, Locked, VeteranRecords, NEW r \in Requests, Arrive(r) \/ Handle(r)
    PROVE  /\ VeteranRecords'
           /\ \A d \in Veterans : record[d] = "none" => record'[d] = "none"
<1>1. RecordMoves(r) /\ LockMoves(r) /\ HandleMoves(r) /\ OwnedMoves(r) /\ Others(r) /\ Fits(r)
  BY Footprint DEF Typed
<1>2. ASSUME NEW d \in Veterans
      PROVE  record'[d] # "pending" /\ (record[d] = "none" => record'[d] = "none")
  <2>1. record[d] \in {"none", "active"} /\ d \in Devices /\ d \notin Newcomers
    BY DevicesAssumption DEF VeteranRecords, Typed, TypeOK, Devices
  <2>2. pc[r] = "statusSet" => dev[r] # d
    BY <1>1 DEF VeteranRecords, EarlyLabels, Fits, OpFits
  <2>3. pc[r] = "store" => dev[r] # d
    BY <1>1, <2>1 DEF Fits, OpFits, DevFits, AddLabels
  <2>4. pc[r] = "countSet" /\ dev[r] = d => record[d] # "none" /\ seen[r] \subseteq {"active"}
    BY DEF Locked, LoginNeverResurrects, VeteranRecords
  <2> QED BY <1>1, <2>1, <2>2, <2>3, <2>4 DEF RecordMoves, Typed, TypeOK
<1>3. ASSUME NEW q \in Requests, pc'[q] = "countSet", dev'[q] \in Veterans
      PROVE  seen'[q] \subseteq {"active"}
  <2>1. CASE q # r
    BY <1>1, <1>3, <2>1 DEF Others, VeteranRecords
  <2>2. CASE q = r
    BY <1>1, <1>3, <2>2 DEF LockMoves, DeviceInside, VeteranRecords, Typed, TypeOK, Devices
  <2> QED BY <2>1, <2>2
<1>4. ASSUME NEW q \in Requests, op'[q] \in {"approve", "deny"}, pc'[q] \notin EarlyLabels
      PROVE  dev'[q] \notin Veterans
  <2>1. CASE q # r
    BY <1>1, <1>4, <2>1 DEF Others, VeteranRecords
  <2>2. CASE q = r
    BY <1>1, <1>4, <2>2 DEF OwnedMoves, HandleMoves, VeteranRecords, EarlyLabels
  <2> QED BY <2>1, <2>2
<1> QED BY <1>2, <1>3, <1>4 DEF VeteranRecords

LEMMA RevokedGoneStep ==
    ASSUME Typed, RevokedGone, NEW r \in Requests, Arrive(r) \/ Handle(r),
           \A d \in Veterans : record[d] = "none" => record'[d] = "none"
    PROVE  RevokedGone'
<1>1. /\ RecordMoves(r) /\ HandleMoves(r) /\ GoneMoves(r) /\ Others(r) /\ Fits(r)
      /\ pc[r] # "done"
  BY Footprint DEF Typed
<1>2. ASSUME NEW q \in Requests, op'[q] = "revoke", pc'[q] \in GoneLabels, dev'[q] \in Veterans
      PROVE  record'[dev'[q]] = "none"
  <2>1. CASE q # r
    BY <1>1, <1>2, <2>1 DEF Others, RevokedGone
  <2>2. CASE q = r
    <3>1. op[r] = "revoke" /\ dev'[r] = dev[r] /\ dev[r] \in Devices
      BY <1>1, <1>2, <2>2 DEF HandleMoves, GoneLabels, Fits, DevFits
    <3>2. CASE pc[r] = "revokeDel"
      BY <1>1, <1>2, <2>2, <3>1, <3>2 DEF RecordMoves, GoneLabels, Typed, TypeOK
    <3> QED BY <1>1, <1>2, <2>2, <3>1, <3>2 DEF GoneMoves, RevokedGone
  <2> QED BY <2>1, <2>2
<1>3. Revoked \subseteq Revoked'
  BY <1>1 DEF Revoked, Others
<1>4. \A q \in Requests : late'[q] \subseteq Revoked
  BY <1>1 DEF HandleMoves, Others, RevokedGone
<1> QED BY <1>2, <1>3, <1>4 DEF RevokedGone

LEMMA LetInStep ==
    ASSUME Typed, RevokedGone, VeteranRecords, LetIn, NEW r \in Requests, Arrive(r) \/ Handle(r)
    PROVE  LetIn'
<1>1. /\ HandleMoves(r) /\ OwnedMoves(r) /\ EntryMoves(r) /\ Others(r) /\ Fits(r)
      /\ pc[r] # "done"
      /\ \A d \in late[r] \cap Veterans : record[d] = "none"
  BY Footprint, LateIsGone DEF Typed
<1>2. ASSUME NEW q \in Requests, op'[q] = "revoke", pc'[q] \notin EarlyLabels
      PROVE  dev'[q] \notin late'[q] \cap Veterans
  <2>1. CASE q # r
    BY <1>1, <1>2, <2>1 DEF Others, LetIn
  <2>2. CASE q = r
    BY <1>1, <1>2, <2>2 DEF OwnedMoves, HandleMoves, LetIn, EarlyLabels
  <2> QED BY <2>1, <2>2
<1>3. ASSUME NEW q \in Requests, op'[q] \in SessionOps,
             pc'[q] \notin {"idle", "session", "device", "refused", "failed"}
      PROVE  Owner(bearer[q])' \notin late'[q] \cap Veterans
  <2>1. CASE q # r
    <3>1. Issued(bearer[q]) /\ Owner(bearer[q]) \notin late[q] \cap Veterans
      BY <1>1, <1>3, <2>1 DEF Others, LetIn, Typed, Fits, BearerFits
    <3>2. Owner(bearer[q])' = Owner(bearer[q])
      BY <1>1, <2>1, <3>1, IssuedStays DEF Others
    <3> QED BY <1>1, <2>1, <3>1, <3>2 DEF Others
  <2>2. CASE q = r
    <3>1. op[r] \in SessionOps /\ op'[r] = op[r] /\ pc[r] # "idle" /\ late'[r] \subseteq late[r]
      BY <1>1, <1>3, <2>2 DEF HandleMoves, EntryMoves
    <3>2. Issued(bearer'[r]) /\ Owner(bearer'[r]) \notin late[r] \cap Veterans
      <4>1. CASE bearer'[r] = bearer[r]
        BY <1>1, <1>3, <2>2, <3>1, <4>1 DEF EntryMoves, LetIn, Fits, BearerFits, HandleMoves,
           Final
      <4>2. CASE pc[r] = "sweep" /\ bearer'[r] \in todo[r] /\ sessions[bearer'[r]] = dev[r]
        <5>1. op[r] \in {"deny", "revoke"} /\ dev[r] \in Devices /\ bearer'[r] \in SessionIds
          BY <1>1, <4>2 DEF Fits, OpFits, DevFits, ReadFits, RemoveLabels
        <5>2. Issued(bearer'[r]) /\ Owner(bearer'[r]) = dev[r]
          BY <4>2, <5>1, DevicesAssumption DEF Typed
        <5>3. dev[r] \notin late[r] \cap Veterans
          BY <4>2, <5>1 DEF LetIn, VeteranRecords, EarlyLabels
        <5> QED BY <5>2, <5>3
      <4> QED BY <1>1, <1>3, <2>2, <4>1, <4>2 DEF EntryMoves
    <3>3. Owner(bearer[r])' = Owner(bearer'[r])
      BY <1>1, <3>2, IssuedStays DEF Others
    <3> QED BY <2>2, <3>1, <3>2, <3>3
  <2> QED BY <2>1, <2>2
<1>4. ASSUME NEW q \in Requests, op'[q] = "login", pc'[q] \in {"countGet", "countSet", "issue", "done"}
      PROVE  dev'[q] \notin late'[q] \cap Veterans
  <2>1. CASE q # r
    BY <1>1, <1>4, <2>1 DEF Others, LetIn
  <2>2. CASE q = r
    BY <1>1, <1>4, <2>2 DEF EntryMoves, HandleMoves, LetIn
  <2> QED BY <2>1, <2>2
<1> QED BY <1>2, <1>3, <1>4 DEF LetIn

-----------------------------------------------------------------------------
(* All of it together, and what it means for the account.                  *)

DevicesInv ==
    Typed /\ Locked /\ Listing /\ LoggedOut /\ VeteranRecords /\ RevokedGone /\ LetIn

LEMMA DevicesInvInitial == Init => DevicesInv
<1> SUFFICES ASSUME Init PROVE DevicesInv
  OBVIOUS
<1>1. Typed
  BY TypedInitial
<1>2. Locked /\ LoggedOut /\ RevokedGone /\ LetIn
  BY DEF Init, Locked, LoginNeverResurrects, DeviceInside, ListInside, LoggedOut, RevokedGone,
         GoneLabels, Revoked, LetIn, SessionOps
<1>3. Listing
  BY DEF Init, Listing, Tracked
<1>4. VeteranRecords
  BY DevicesAssumption DEF Init, VeteranRecords, Devices
<1> QED BY <1>1, <1>2, <1>3, <1>4 DEF DevicesInv

LEMMA DevicesInvInductive == DevicesInv /\ [Next]_vars => DevicesInv'
<1> SUFFICES ASSUME DevicesInv, [Next]_vars PROVE DevicesInv'
  OBVIOUS
<1>1. Typed'
  BY TypedInductive DEF DevicesInv
<1>2. ASSUME NEW r \in Requests, Arrive(r) \/ Handle(r)
      PROVE  DevicesInv'
  BY <1>1, <1>2, LockedStep, ListingStep, LoggedOutStep, VeteranRecordsStep, RevokedGoneStep,
     LetInStep DEF DevicesInv
<1>3. CASE UNCHANGED vars
  <2> USE <1>3 DEF vars, store, locals, DevicesInv
  <2>1. Locked' /\ LoggedOut' /\ VeteranRecords'
    BY DEF Locked, LoginNeverResurrects, LoggedOut, SessionLocked, VeteranRecords
  <2>2. Listing'
    BY DEF Listing, Tracked, Removing
  <2>3. RevokedGone' /\ LetIn'
    BY DEF RevokedGone, Revoked, LetIn, Owner
  <2> QED BY <1>1, <2>1, <2>2, <2>3
<1> QED BY <1>2, <1>3 DEF Next, Terminated, Handle

\* The inductive invariant: types, locks, the list, sessions and revocations.
THEOREM DevicesInvHolds == Spec => []DevicesInv
<1> QED BY DevicesInvInitial, DevicesInvInductive, PTL DEF Spec

\* Rewriting the id list of an account loses no device that somebody else
\* adds or removes at the same time (accounts.ts:71-109), and every record
\* keeps its type: for any number of devices and overlapping requests.
THEOREM ListKeepsDevices == Spec => []NoListUpdateLost
<1>1. DevicesInv => NoListUpdateLost
  BY DEF DevicesInv, Typed, Listing, Tracked, NoListUpdateLost
<1> QED BY <1>1, DevicesInvHolds, PTL

\* The sign count of a login is never written over a record that a revocation
\* has deleted meanwhile (devices.ts:68-70, device-handlers.ts).
THEOREM LoginMeetsRecord == Spec => []LoginNeverResurrects
<1>1. DevicesInv => LoginNeverResurrects
  BY DEF DevicesInv, Locked
<1> QED BY <1>1, DevicesInvHolds, PTL

\* No refresh writes back a session that was logged out (sessions.ts:72-103).
THEOREM LogoutStays == Spec => []LogoutIsFinal
<1>1. DevicesInv => LogoutIsFinal
  BY DEF DevicesInv, LoggedOut, LogoutIsFinal
<1> QED BY <1>1, DevicesInvHolds, PTL

\* Once a revocation is answered, a request that begins later is neither
\* admitted with a session of the device nor logged in with its key, whatever
\* sessions the sweep has missed.
THEOREM RevocationStays == Spec => []RevocationIsFinal
<1>1. DevicesInv => RevocationIsFinal
  BY DEF DevicesInv, LetIn, RevocationIsFinal, Admitted
<1> QED BY <1>1, DevicesInvHolds, PTL
=============================================================================
