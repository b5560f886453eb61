----------------------------- MODULE JoinDevice -----------------------------
(***************************************************************************)
(* The page a new device joins an account from: packages/client/activation *)
(* src/model/add-device-model.ts and ui/AddDeviceScreen.tsx, against the   *)
(* server's handlers for the joining device.                               *)
(*                                                                         *)
(* Every awaited request is a call of its own: it is sent, served (or      *)
(* lost), and its continuation runs when the answer is delivered, in any   *)
(* order with the others and with what the user does meanwhile.  A code    *)
(* admits one device, so the device is named by its code.                  *)
(***************************************************************************)
EXTENDS Integers

CONSTANTS Codes,      \* add-device codes, well formed
          MaxCalls,   \* bound: calls in flight at once
          MaxTicks,   \* POLL_MAX_TICKS
          None

VARIABLES
  mode, error, token, claiming,   \* the model's atoms and its guard
  ticks, polling,                 \* the poller: ticks so far, interval armed
  direct,                         \* the screen was opened on the scanner
  open,                           \* the page is on this screen
  call,                           \* the calls in flight
  cookie,                         \* the device named by the pending ticket
  session,                        \* the browser holds a session cookie
  live, device, tickets           \* the server: codes, devices, tickets

browser == <<mode, error, token, claiming, ticks, polling, direct, open, cookie, session>>
server  == <<live, device, tickets>>
vars    == <<browser, call, server>>

Slots  == 1..MaxCalls
Idle   == [step |-> "idle", code |-> None, answer |-> None]
Free   == {i \in Slots : call[i] = Idle /\ \A j \in 1..i-1 : call[j] # Idle}
InStep(steps) == {i \in Slots : call[i].step \in steps}

\* A code in the link opens on its registration, before `scan=1` is looked at.
Init ==
  /\ \E urlCode \in Codes \cup {None}, scan \in BOOLEAN :
       /\ token = urlCode
       /\ mode = IF urlCode # None THEN "registering" ELSE IF scan THEN "scanning" ELSE "choose"
       /\ call = [i \in Slots |-> IF urlCode # None /\ i = 1
                                  THEN [Idle EXCEPT !.step = "init", !.code = urlCode]
                                  ELSE Idle]
  /\ direct = (mode = "scanning")
  /\ error = FALSE /\ claiming = FALSE /\ ticks = 0 /\ polling = FALSE
  /\ open = TRUE /\ cookie = None /\ session = FALSE
  /\ live = Codes
  /\ device = [c \in Codes |-> "none"] /\ tickets = {}

\* init() is still validating the code of the link: nothing is rendered yet.
Loading == InStep({"init"}) # {}

CeremonyPending == InStep({"options", "ceremony", "verify"}) # {}

\* The waiting screen connects the poller, any other one disconnects it.
Show(m) ==
  /\ mode' = m
  /\ polling' = (m = "waiting" /\ (mode = "waiting" => polling))
  /\ ticks' = IF m = "waiting" /\ mode # "waiting" THEN 0 ELSE ticks

Send(i, step, code) == call' = [call EXCEPT ![i] = [Idle EXCEPT !.step = step, !.code = code]]

-----------------------------------------------------------------------------
(* The user and the screens.                                               *)

\* goToScan and goToChoose; closing the scanner leaves the screen when the
\* page was opened on it.
GoToScan ==
  /\ mode = "choose"
  /\ error' = FALSE /\ Show("scanning")
  /\ UNCHANGED <<token, claiming, direct, open, call, cookie, session, server>>

GoToChoose ==
  /\ mode = "rejected" \/ (mode = "scanning" /\ ~direct)
  /\ error' = FALSE /\ Show("choose")
  /\ UNCHANGED <<token, claiming, direct, open, call, cookie, session, server>>

CameraError ==
  /\ mode = "scanning" /\ error' = TRUE
  /\ UNCHANGED <<mode, token, claiming, ticks, polling, direct, open, call, cookie, session, server>>

\* The screens that have a field for the code, and the one with the passkey.
CodeOffered    == mode \in {"choose", "manual"}
PasskeyOffered == mode = "registering" /\ ~CeremonyPending

\* closeScan, and "sign in with a passkey" from the registration.
LeaveScreen ==
  /\ (mode = "scanning" /\ direct) \/ PasskeyOffered
  /\ open' = FALSE /\ call' = [i \in Slots |-> Idle]
  /\ UNCHANGED <<mode, error, token, claiming, ticks, polling, direct, cookie, session, server>>

\* stageScannedCode: the camera decodes frames as long as it is shown.
Decode(c) ==
  /\ mode = "scanning" /\ ~error
  /\ \E i \in Free : Send(i, "stage", c)
  /\ token' = c /\ error' = FALSE
  /\ UNCHANGED <<mode, claiming, ticks, polling, direct, open, cookie, session, server>>

\* submitManual: typed or pasted, possibly not a code at all.
SubmitManual(c) ==
  /\ CodeOffered
  /\ IF c = None THEN error' = TRUE /\ UNCHANGED <<token, call>>
     ELSE /\ error' = FALSE /\ token' = c
          /\ \E i \in Free : Send(i, "options", c)
  /\ UNCHANGED <<mode, claiming, ticks, polling, direct, open, cookie, session, server>>

\* startRegistration from its button.
CreatePasskey ==
  /\ PasskeyOffered
  /\ IF token = None THEN error' = TRUE /\ Show("manual") /\ UNCHANGED call
     ELSE /\ error' = FALSE /\ UNCHANGED <<mode, ticks, polling>>
          /\ \E i \in Free : Send(i, "options", token)
  /\ UNCHANGED <<token, claiming, direct, open, cookie, session, server>>

\* A tick of the poller; the interval stops itself when time is up.
Tick ==
  /\ polling /\ mode = "waiting"
  /\ ticks' = ticks + 1
  /\ IF ticks' > MaxTicks THEN polling' = FALSE /\ error' = TRUE /\ UNCHANGED call
     ELSE /\ UNCHANGED <<polling, error>>
          /\ \E i \in Free : Send(i, "status", cookie)
  /\ UNCHANGED <<mode, token, claiming, direct, open, cookie, session, server>>

-----------------------------------------------------------------------------
(* The server, the authenticator and the network.                          *)

Answer(i, a) == call' = [call EXCEPT ![i].answer = a]

\* getPendingStatus; postClaimSession answers the same way.
StatusOf(c) ==
  IF c \notin tickets THEN "refused"
  ELSE CASE device[c] = "gone" -> "denied"
         [] device[c] = "active" -> "approved"
         [] OTHER -> "pending"

Serve(i) ==
  LET c == call[i].code IN
  /\ call[i].step # "idle" /\ call[i].answer = None
  /\ CASE call[i].step \in {"init", "stage", "options"} ->
            Answer(i, IF c \in live THEN "ok" ELSE "refused") /\ UNCHANGED server
       [] call[i].step = "ceremony" ->
            (\E a \in {"ok", "refused"} : Answer(i, a)) /\ UNCHANGED server
       [] call[i].step = "verify" ->
            IF c \in live
            THEN /\ Answer(i, "ok")
                 /\ live' = live \ {c} /\ tickets' = tickets \cup {c}
                 /\ device' = [device EXCEPT ![c] = "pending"]
            ELSE Answer(i, "refused") /\ UNCHANGED server
       [] call[i].step = "status" -> Answer(i, StatusOf(c)) /\ UNCHANGED server
       [] call[i].step = "claim" ->
            /\ Answer(i, StatusOf(c))
            /\ tickets' = IF StatusOf(c) = "approved" THEN tickets \ {c} ELSE tickets
            /\ UNCHANGED <<live, device>>
  /\ UNCHANGED browser

\* A request or its answer is lost, which the client cannot tell apart.
Lose(i) ==
  /\ call[i].step \notin {"idle", "ceremony"} /\ call[i].answer # "lost"
  /\ Answer(i, "lost")
  /\ UNCHANGED <<browser, server>>

\* The owner, and the lifetime of a code.
Decide(c, from, to) ==
  /\ device[c] = from /\ device' = [device EXCEPT ![c] = to]
  /\ UNCHANGED <<browser, call, live, tickets>>

Expire(c) ==
  /\ c \in live /\ live' = live \ {c}
  /\ UNCHANGED <<browser, call, device, tickets>>

-----------------------------------------------------------------------------
(* The continuations.                                                      *)

Answered(i, step) == call[i].step = step /\ call[i].answer # None
Ends(i)      == call' = [call EXCEPT ![i] = Idle]
Fails(i, m)  == Ends(i) /\ error' = TRUE /\ Show(m) /\ UNCHANGED <<claiming, cookie, session, open>>

\* A code the server refused sends the user to the manual entry.
StageDone(i) ==
  /\ Answered(i, "stage") \/ Answered(i, "init")
  /\ IF call[i].answer # "ok" THEN Fails(i, "manual")
     ELSE Ends(i) /\ Show("registering") /\ UNCHANGED <<error, claiming, cookie, session, open>>
  /\ UNCHANGED <<token, direct, server>>

\* The passkey prompt opens, which aborts a prompt already open.
OptionsDone(i) ==
  /\ Answered(i, "options")
  /\ IF call[i].answer # "ok" THEN Fails(i, "manual")
     ELSE /\ call' = [j \in Slots |->
                        IF j = i THEN [Idle EXCEPT !.step = "ceremony", !.code = call[i].code]
                        ELSE IF call[j].step = "ceremony" /\ call[j].answer = None
                        THEN [call[j] EXCEPT !.answer = "refused"] ELSE call[j]]
          /\ Show("registering") /\ UNCHANGED <<error, claiming, cookie, session, open>>
  /\ UNCHANGED <<token, direct, server>>

CeremonyDone(i) ==
  /\ Answered(i, "ceremony")
  /\ IF call[i].answer # "ok" THEN Fails(i, mode)
     ELSE /\ Send(i, "verify", call[i].code)
          /\ UNCHANGED <<mode, ticks, polling, error, claiming, cookie, session, open>>
  /\ UNCHANGED <<token, direct, server>>

VerifyDone(i) ==
  /\ Answered(i, "verify")
  /\ IF call[i].answer # "ok" THEN Fails(i, mode)
     ELSE /\ Ends(i) /\ Show("waiting") /\ cookie' = call[i].code
          /\ UNCHANGED <<error, claiming, session, open>>
  /\ UNCHANGED <<token, direct, server>>

\* Mutant: overlapping polls all go on to the claim.
StatusClaims(i) ==
  /\ Answered(i, "status")
  /\ IF call[i].answer \in {"lost", "refused"} THEN Fails(i, mode)
     ELSE /\ error' = FALSE
          /\ IF call[i].answer = "approved"
             THEN Send(i, "claim", cookie) /\ claiming' = TRUE
             ELSE Ends(i) /\ UNCHANGED claiming
          /\ Show(IF call[i].answer = "denied" THEN "rejected" ELSE mode)
          /\ UNCHANGED <<cookie, session, open>>
  /\ UNCHANGED <<token, direct, server>>

\* pollPendingStatus up to the claim: only one poll may go on to it.
StatusDone(i) ==
  /\ Answered(i, "status")
  /\ IF call[i].answer \in {"lost", "refused"} THEN Fails(i, mode)
     ELSE /\ error' = FALSE
          /\ IF call[i].answer = "approved" /\ ~claiming
             THEN Send(i, "claim", cookie) /\ claiming' = TRUE
             ELSE Ends(i) /\ UNCHANGED claiming
          /\ Show(IF call[i].answer = "denied" THEN "rejected" ELSE mode)
          /\ UNCHANGED <<cookie, session, open>>
  /\ UNCHANGED <<token, direct, server>>

\* pollPendingStatus after the claim.
ClaimDone(i) ==
  /\ Answered(i, "claim") /\ Ends(i)
  /\ LET a == call[i].answer IN
     /\ claiming' = (a \in {"denied", "approved"})
     /\ error' = (error \/ a \in {"lost", "refused"})
     /\ Show(CASE a = "denied" -> "rejected" [] a = "approved" -> "done" [] OTHER -> mode)
     /\ session' = (session \/ a = "approved")
     /\ cookie' = IF a = "approved" THEN None ELSE cookie
     /\ open' = (a # "approved")
  /\ UNCHANGED <<token, direct, server>>

-----------------------------------------------------------------------------
User == /\ ~Loading
        /\ \/ GoToScan \/ GoToChoose \/ CameraError \/ LeaveScreen \/ CreatePasskey
           \/ \E c \in Codes : Decode(c)
           \/ \E c \in Codes \cup {None} : SubmitManual(c)

Owner == \E c \in Codes : \/ Decide(c, "pending", "active")
                          \/ Decide(c, "pending", "gone")
                          \/ Decide(c, "active", "gone")
                          \/ Expire(c)

Deliver(i) == StageDone(i) \/ OptionsDone(i) \/ CeremonyDone(i) \/ VerifyDone(i)
              \/ StatusDone(i) \/ ClaimDone(i)

Next == open /\ (User \/ Owner \/ Tick \/ \E i \in Slots : Serve(i) \/ Lose(i) \/ Deliver(i))

Spec == Init /\ [][Next]_vars

-----------------------------------------------------------------------------
TypeOK ==
  /\ mode \in {"choose", "scanning", "manual", "registering", "waiting", "done", "rejected"}
  /\ {error, claiming, polling, direct, open, session} \subseteq BOOLEAN
  /\ {token, cookie} \subseteq Codes \cup {None}
  /\ ticks \in 0..MaxTicks + 1
  /\ \A i \in Slots : call[i].code \in Codes \cup {None}
  /\ live \subseteq Codes /\ tickets \subseteq Codes
  /\ device \in [Codes -> {"none", "pending", "active", "gone"}]

\* Overlapping polls that all see the approval lead to one claim: the
\* single-flight guard holds a claim open exactly while one is in flight or
\* has been settled for good.
OneClaim ==
  /\ TypeOK
  /\ \A i, j \in InStep({"claim"}) : i = j
  /\ InStep({"claim"}) # {} => claiming
=============================================================================
