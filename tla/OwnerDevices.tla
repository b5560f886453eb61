---------------------------- MODULE OwnerDevices ----------------------------
(***************************************************************************)
(* The owner's side of the devices: the account model, the dialog "My      *)
(* devices" and the modal that mints an add-device code and approves the   *)
(* device that used it (packages/client/src/account).                      *)
(*                                                                         *)
(* All of them share one account model.  An action is a call that passes   *)
(* through its requests one answer at a time, while events from the server *)
(* and other clicks start further ones; answers arrive in any order.       *)
(* `generation` is a mark on the calls the modal started: reset() clears   *)
(* it, which is what comparing the captured number finds.                  *)
(***************************************************************************)
EXTENDS Naturals

CONSTANTS Devices,    \* devices that can ask to join
          MaxCalls,   \* bound: actions in flight at once
          MaxEvents,  \* bound: undelivered events; one more changes nothing
          None

VARIABLES
  list, error,          \* the account model: devices and error
  phase, code,          \* the modal's model: the phase, a minted code
  justApproved, modalError,
  dialogOpen, modalOpen, loggedOut,
  call,                 \* the actions in flight
  status, events,       \* the server: devices, and events on their way here
  approved, gap         \* ghost: devices the server approved; see ListCurrent

account == <<list, error>>
modal   == <<phase, code, justApproved, modalError>>
dialogs == <<dialogOpen, modalOpen, loggedOut>>
remote  == <<status, events, approved>>
vars    == <<account, modal, dialogs, call, remote, gap>>

Slots == 1..MaxCalls
Idle  == [kind |-> "none", step |-> "none", device |-> None, answer |-> "none",
          seen |-> <<>>, generation |-> FALSE]
Free  == {i \in Slots : call[i] = Idle /\ \A j \in 1..i-1 : call[j] # Idle}
Refreshing == {i \in Slots : call[i].step \in {"account", "devices"}}

\* The device the modal offers: the last of those listed as pending.
PendingDevice(l) ==
  LET pending == {d \in Devices : l[d] = "pending"}
  IN  IF pending = {} THEN None ELSE CHOOSE d \in pending : TRUE

Init ==
  /\ list = [d \in Devices |-> "absent"] /\ error = FALSE
  /\ phase = "idle" /\ code = FALSE
  /\ justApproved = None /\ modalError = FALSE
  /\ dialogOpen = FALSE /\ modalOpen = FALSE /\ loggedOut = FALSE
  /\ call = [i \in Slots |-> IF i = 1 THEN [Idle EXCEPT !.kind = "refresh", !.step = "account"]
                             ELSE Idle]
  /\ status = [d \in Devices |-> "absent"] /\ events = 0 /\ approved = {} /\ gap = FALSE

-----------------------------------------------------------------------------
(* The user.                                                               *)

Begin(kind, step, d, fromModal) ==
  \E i \in Free :
    call' = [call EXCEPT ![i] = [Idle EXCEPT !.kind = kind, !.step = step, !.device = d,
                                             !.generation = fromModal]]

OpenDialog ==
  /\ ~dialogOpen /\ dialogOpen' = TRUE
  /\ UNCHANGED <<account, modal, modalOpen, loggedOut, call, remote, gap>>

CloseDialog ==
  /\ dialogOpen /\ ~modalOpen /\ dialogOpen' = FALSE
  /\ UNCHANGED <<account, modal, modalOpen, loggedOut, call, remote, gap>>

\* The rows of the dialog: approve, deny, and revoke with its confirmation.
Act(kind, d) ==
  /\ dialogOpen /\ ~modalOpen
  /\ list[d] = IF kind = "revoke" THEN "active" ELSE "pending"
  /\ error' = FALSE /\ Begin(kind, "act", d, FALSE)
  /\ UNCHANGED <<list, modal, dialogs, remote, gap>>

OpenModal ==
  /\ dialogOpen /\ ~modalOpen /\ modalOpen' = TRUE
  /\ UNCHANGED <<account, modal, dialogOpen, loggedOut, call, remote, gap>>

\* Mutant: reset() does not start a new generation.
CloseModalKeepsCalls ==
  /\ modalOpen /\ modalOpen' = FALSE
  /\ phase' = "idle" /\ code' = FALSE /\ justApproved' = None /\ modalError' = FALSE
  /\ UNCHANGED <<account, dialogOpen, loggedOut, call, remote, gap>>

\* Every way out of the modal resets its model; calls in flight go stale.
CloseModal ==
  /\ modalOpen /\ modalOpen' = FALSE
  /\ phase' = "idle" /\ code' = FALSE
  /\ justApproved' = None /\ modalError' = FALSE
  /\ call' = [i \in Slots |-> [call[i] EXCEPT !.generation = FALSE]]
  /\ UNCHANGED <<account, dialogOpen, loggedOut, remote, gap>>

\* The modal shows a device that asks to join before one that was just added,
\* and only without either the confirmation, the code, or the retry.
CodeOffered ==
  /\ modalOpen /\ PendingDevice(list) = None /\ justApproved = None
  /\ phase \in {"idle", "approving", "expired"}

\* The confirm and the retry buttons.
Start ==
  /\ CodeOffered
  /\ modalError' = FALSE /\ phase' = "verifying" /\ Begin("start", "options", None, TRUE)
  /\ UNCHANGED <<account, code, justApproved, dialogs, remote, gap>>

\* The modal's own approve and deny, disabled while either is in flight.
InModal == {"approve in modal", "deny in modal"}

Busy == \E i \in Slots : call[i].kind \in InModal

DecisionOffered == modalOpen /\ PendingDevice(list) # None /\ ~Busy

Decide(kind) ==
  /\ DecisionOffered
  /\ justApproved' = None /\ modalError' = FALSE /\ error' = FALSE /\ phase' = "approving"
  /\ Begin(kind, "act", PendingDevice(list), TRUE)
  /\ UNCHANGED <<list, code, dialogs, remote, gap>>

Logout ==
  /\ ~dialogOpen /\ error' = FALSE /\ Begin("logout", "logout", None, FALSE)
  /\ UNCHANGED <<list, modal, dialogs, remote, gap>>

Expire ==
  /\ phase = "showing" /\ phase' = "expired"
  /\ UNCHANGED <<account, code, justApproved, modalError, dialogs, call, remote, gap>>

-----------------------------------------------------------------------------
(* The server and the network.                                             *)

\* Every change of a device is published to the account's event stream.
Change(d, to) ==
  /\ status' = [status EXCEPT ![d] = to]
  /\ events' = IF events < MaxEvents THEN events + 1 ELSE events
  /\ approved' = IF to = "active" THEN approved \cup {d} ELSE approved

Decided(kind) == IF kind \in {"approve", "approve in modal"} THEN "active" ELSE "gone"

\* A request that took effect can still fail for the client.
Serve(i) ==
  /\ call[i].kind # "none" /\ call[i].answer = "none"
  /\ \/ /\ call[i].step # "act"
        /\ \E a \in {"ok", "refused"} :
             call' = [call EXCEPT ![i] = [@ EXCEPT !.answer = a,
                        !.seen = IF call[i].step = "devices" /\ a = "ok" THEN status
                                 ELSE call[i].seen]]
        /\ UNCHANGED remote
     \/ /\ call[i].step = "act"
        /\ status[call[i].device] = IF call[i].kind = "revoke" THEN "active" ELSE "pending"
        /\ Change(call[i].device, Decided(call[i].kind))
        /\ \E a \in {"ok", "refused"} : call' = [call EXCEPT ![i].answer = a]
     \/ /\ call[i].step = "act"
        /\ call' = [call EXCEPT ![i].answer = "refused"]
        /\ UNCHANGED remote
  /\ UNCHANGED <<account, modal, dialogs, gap>>

\* A device asks to join; the owner's other browsers decide about it.
Elsewhere(d) ==
  /\ \/ status[d] = "absent"  /\ Change(d, "pending")
     \/ status[d] = "pending" /\ Change(d, "active")
     \/ status[d] \in {"pending", "active"} /\ Change(d, "gone")
  /\ UNCHANGED <<account, modal, dialogs, call, gap>>

\* The stream was down when the event was published.
EventLost ==
  /\ events > 0 /\ events' = events - 1 /\ gap' = TRUE
  /\ UNCHANGED <<account, modal, dialogs, call, status, approved>>

-----------------------------------------------------------------------------
(* The continuations.                                                      *)

\* A refresh that starts alone sees all that happened before it.
StartsRefresh == gap' = (Refreshing # {})

\* Mutant: an event is ignored while a refresh is under way.
EventCoalesced ==
  /\ events > 0 /\ events' = events - 1
  /\ error' = FALSE
  /\ IF Refreshing # {} THEN UNCHANGED <<call, gap>>
     ELSE Begin("refresh", "account", None, FALSE) /\ StartsRefresh
  /\ UNCHANGED <<list, modal, dialogs, status, approved>>

EventArrives ==
  /\ events > 0 /\ events' = events - 1
  /\ error' = FALSE /\ Begin("refresh", "account", None, FALSE) /\ StartsRefresh
  /\ UNCHANGED <<list, modal, dialogs, status, approved>>

\* The end of an action of the account model, and what the modal makes of it
\* if it started it: a failure is known only from the model's error.  Another
\* device that asks to join takes an older failure off the screen.
Finish(i, newList, failed) ==
  LET c     == call[i]
      other == PendingDevice(newList) \notin {None, PendingDevice(list)}
  IN  /\ call' = [call EXCEPT ![i] = Idle]
      /\ list' = newList /\ error' = failed
      /\ modalError' = ((c.generation /\ failed) \/ (modalError /\ ~other))
      /\ IF c.generation
         THEN /\ phase' = "idle"
              /\ justApproved' = IF c.kind = "approve in modal" /\ ~failed THEN c.device
                                 ELSE justApproved
         ELSE UNCHANGED <<phase, justApproved>>
      /\ UNCHANGED code

\* approve, deny and revoke: a success goes on to a refresh, which is all that
\* is left of one that was not asked for in the modal.
ActDone(i) ==
  /\ call[i].step = "act" /\ call[i].answer # "none"
  /\ IF call[i].answer = "ok"
     THEN /\ call' = [call EXCEPT ![i] =
               IF @.kind \in InModal THEN [@ EXCEPT !.step = "account", !.answer = "none"]
               ELSE [Idle EXCEPT !.kind = "refresh", !.step = "account"]]
          /\ error' = FALSE /\ StartsRefresh
          /\ UNCHANGED <<list, modal>>
     ELSE Finish(i, list, TRUE) /\ UNCHANGED gap
  /\ UNCHANGED <<dialogs, remote>>

\* refresh: the account, then the devices, applied as they were read.
RefreshStep(i) ==
  /\ i \in Refreshing /\ call[i].answer # "none"
  /\ \/ call[i].answer # "ok" /\ Finish(i, list, TRUE) /\ gap' = TRUE
     \/ /\ call[i].answer = "ok" /\ call[i].step = "account"
        /\ call' = [call EXCEPT ![i] = [@ EXCEPT !.step = "devices", !.answer = "none"]]
        /\ UNCHANGED <<account, modal, gap>>
     \/ /\ call[i].answer = "ok" /\ call[i].step = "devices"
        /\ Finish(i, call[i].seen, error) /\ UNCHANGED gap
  /\ UNCHANGED <<dialogs, remote>>

\* start: nothing of it counts once the model has been reset.
StartStep(i) ==
  LET c == call[i]
      next == IF c.step = "options" THEN "ceremony" ELSE "mint"
  IN
  /\ c.kind = "start" /\ c.answer # "none"
  /\ IF c.generation /\ c.answer = "ok" /\ c.step # "mint"
     THEN /\ call' = [call EXCEPT ![i] = [@ EXCEPT !.step = next, !.answer = "none"]]
          /\ UNCHANGED modal
     ELSE /\ call' = [call EXCEPT ![i] = Idle]
          /\ IF ~c.generation THEN UNCHANGED modal
             ELSE IF c.answer = "ok"
             THEN phase' = "showing" /\ code' = TRUE
                  /\ UNCHANGED <<justApproved, modalError>>
             ELSE phase' = "idle" /\ modalError' = TRUE /\ UNCHANGED <<code, justApproved>>
  /\ UNCHANGED <<account, dialogs, remote, gap>>

\* Logging out purges the local data and leaves the page.
LogoutDone(i) ==
  /\ call[i].kind = "logout" /\ call[i].answer # "none"
  /\ call' = [call EXCEPT ![i] = Idle]
  /\ loggedOut' = (call[i].answer = "ok") /\ error' = (error \/ ~loggedOut')
  /\ UNCHANGED <<list, modal, dialogOpen, modalOpen, remote, gap>>

Next ==
  /\ ~loggedOut
  /\ \/ OpenDialog \/ CloseDialog \/ OpenModal \/ CloseModal \/ Start \/ Logout \/ Expire
     \/ \E kind \in InModal : Decide(kind)
     \/ \E kind \in {"approve", "deny", "revoke"}, d \in Devices : Act(kind, d)
     \/ \E d \in Devices : Elsewhere(d)
     \/ EventLost \/ EventArrives
     \/ \E i \in Slots : Serve(i) \/ ActDone(i) \/ RefreshStep(i) \/ StartStep(i)
                         \/ LogoutDone(i)

Spec == Init /\ [][Next]_vars

-----------------------------------------------------------------------------
States == {"absent", "pending", "active", "gone"}

TypeOK ==
  /\ list \in [Devices -> States] /\ status \in [Devices -> States]
  /\ {error, code, modalError, dialogOpen, modalOpen, loggedOut, gap} \subseteq BOOLEAN
  /\ phase \in {"idle", "verifying", "showing", "expired", "approving"}
  /\ justApproved \in Devices \cup {None}
  /\ events \in 0..MaxEvents /\ approved \subseteq Devices
  /\ \A i \in Slots : call[i].device \in Devices \cup {None} /\ call[i].generation \in BOOLEAN

\* Once the refreshes are over and the events are in, the list is the one of
\* the server, unless an event or a refresh was lost or two refreshes
\* overlapped (their answers can be applied in either order) since the last
\* refresh that ran alone.
ListCurrent ==
  TypeOK /\ (Refreshing = {} /\ events = 0 /\ ~gap => list = status)

\* Nothing a closed modal had under way shows in it again, and an open one
\* reports as added only a device the server has approved, though it learns of
\* a failure only from an error that refreshes clear and set.
ModalIsHonest ==
  /\ ~modalOpen => phase = "idle" /\ ~code /\ justApproved = None /\ ~modalError
  /\ justApproved # None => justApproved \in approved
=============================================================================
