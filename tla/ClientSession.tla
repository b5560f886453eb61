--------------------------- MODULE ClientSession ---------------------------
(***************************************************************************)
(* How a browser gets and keeps its session.  The board sends its requests *)
(* through one HTTP client that answers a 401 by a recovery and one replay *)
(* (shared/http/client.ts, client/src/runtime.ts, relogin.ts); the         *)
(* activation page registers or logs in (activation-model.ts,              *)
(* ActivateScreen.tsx).  They are two documents of one origin and share    *)
(* the credential hint in local storage; a navigation replaces the         *)
(* document and everything that was running in it.                         *)
(*                                                                         *)
(* `flow` is the one ceremony a document runs: the board's recovery, which *)
(* is single-flight, or the activation page's login or registration, whose *)
(* buttons are disabled while one runs.                                    *)
(***************************************************************************)
EXTENDS Naturals

CONSTANTS Requests   \* the requests the board has under way

VARIABLES
  page,        \* the document, and the one it is being left for
  screen,      \* the activation page's screen
  request,     \* [step, answer, retried] of each request of the board
  flow,        \* [kind, step, answer, hinted] of the ceremony under way
  hint,        \* local storage names a credential
  cookie,      \* the session cookie names a live session
  credential,  \* this browser's passkey at the server
  invite,      \* the invite of the activation link is unused
  runs,        \* ghost: how often each request took effect
  suspect      \* ghost: the stored hint has failed, as far as a page knows

sessionVars == <<page, screen, request, flow, hint, cookie, credential, invite, runs, suspect>>

Request(step, answer, retried) == [step |-> step, answer |-> answer, retried |-> retried]
Fresh == Request("idle", "none", FALSE)

Flow(kind, step, hinted) == [kind |-> kind, step |-> step, answer |-> "none", hinted |-> hinted]
NoFlow == Flow("none", "none", FALSE)

Screens == {"home", "activate", "activate-no-code", "activate-used"}

OnBoard      == page \in {"board", "board to activate"}
OnActivation == page \in {"activate", "activate to board"}

\* A browser that registered before, or a new one that follows a link.
SessionInit ==
  /\ request = [r \in Requests |-> Fresh] /\ runs = [r \in Requests |-> 0]
  /\ flow = NoFlow /\ suspect = FALSE /\ invite = TRUE
  /\ \/ page = "board" /\ screen = "home" /\ hint = TRUE /\ cookie = TRUE /\ credential = "active"
     \/ /\ page = "activate" /\ screen \in Screens \ {"activate-used"}
        /\ hint = FALSE /\ cookie = FALSE /\ credential = "none"

-----------------------------------------------------------------------------
(* The board's requests.                                                   *)

Send(r) ==
  /\ OnBoard /\ request[r].step = "idle"
  /\ request' = [request EXCEPT ![r] = Request("sent", "none", FALSE)]
  /\ UNCHANGED <<page, screen, flow, hint, cookie, credential, invite, runs, suspect>>

\* The server runs a request of a live session; a request or its answer can
\* be lost on the way, and an endpoint can answer 401 for reasons of its own.
Serve(r) ==
  /\ OnBoard /\ request[r].step = "sent" /\ request[r].answer = "none"
  /\ \E a \in {"ok", "401", "lost"} :
       /\ a = "ok" => cookie
       /\ request' = [request EXCEPT ![r] = Request("sent", a, request[r].retried)]
       /\ runs' = IF a = "ok" THEN [runs EXCEPT ![r] = @ + 1] ELSE runs
  /\ UNCHANGED <<page, screen, flow, hint, cookie, credential, invite, suspect>>

AnswerLost(r) ==
  /\ OnBoard /\ request[r].answer = "ok"
  /\ request' = [request EXCEPT ![r] = Request(request[r].step, "lost", request[r].retried)]
  /\ UNCHANGED <<page, screen, flow, hint, cookie, credential, invite, runs, suspect>>

\* Mutant: a lost answer is replayed like a 401.
RetryLost(r) ==
  LET again == request[r].answer \in {"401", "lost"} /\ ~request[r].retried IN
  /\ OnBoard /\ request[r].step = "sent" /\ request[r].answer # "none"
  /\ request' = [request EXCEPT ![r] = Request(IF again THEN "recovering" ELSE "done",
                                              request[r].answer, request[r].retried)]
  /\ flow' = IF again /\ flow = NoFlow THEN Flow("recovery", "probe", FALSE) ELSE flow
  /\ UNCHANGED <<page, screen, hint, cookie, credential, invite, runs, suspect>>

\* #send after the answer, with the hook: a first 401 waits for the recovery,
\* one under way or a new one.  A retried request is never retried again.
Receive(r) ==
  LET again == request[r].answer = "401" /\ ~request[r].retried IN
  /\ OnBoard /\ request[r].step = "sent" /\ request[r].answer # "none"
  /\ request' = [request EXCEPT ![r] = Request(IF again THEN "recovering" ELSE "done",
                                              request[r].answer, request[r].retried)]
  /\ flow' = IF again /\ flow = NoFlow THEN Flow("recovery", "probe", FALSE) ELSE flow
  /\ UNCHANGED <<page, screen, hint, cookie, credential, invite, runs, suspect>>

-----------------------------------------------------------------------------
(* The recovery.                                                           *)

\* What ensureSession resolves to releases every request that waits for it.
Resolved(recovered) ==
  /\ flow' = NoFlow
  /\ request' = [r \in Requests |->
       IF request[r].step # "recovering" THEN request[r]
       ELSE IF recovered THEN Request("sent", "none", TRUE)
       ELSE Request("done", request[r].answer, request[r].retried)]

\* Mutant: giving up leaves the hint in place.
BailKeepsHint == Resolved(FALSE) /\ hint' = hint /\ page' = "board to activate"

Bail == Resolved(FALSE) /\ hint' = FALSE /\ page' = "board to activate"

Proceed(step) == flow' = Flow(flow.kind, step, flow.hinted) /\ UNCHANGED request

\* run(), one continuation per answer: only a dead session with a hint goes on
\* to the ceremony; from there every failure gives the session up.
Recover ==
  /\ flow.kind = "recovery" /\ flow.answer # "none"
  /\ \/ /\ flow.step = "probe"
        /\ CASE flow.answer = "ok" -> Resolved(TRUE)
             [] flow.answer = "401" /\ hint ->
                  flow' = Flow("recovery", "options", TRUE)
                  /\ UNCHANGED request
             [] OTHER -> Resolved(FALSE)
        /\ UNCHANGED <<hint, page, suspect>>
     \/ /\ flow.step # "probe" /\ flow.answer # "ok" /\ Bail
        /\ suspect' = TRUE
     \/ /\ flow.step # "probe" /\ flow.answer = "ok"
        /\ CASE flow.step = "options"  -> Proceed("ceremony")
             [] flow.step = "ceremony" -> Proceed("verify")
             [] OTHER -> Resolved(TRUE)
        /\ suspect' = (suspect /\ flow.step # "verify")
        /\ UNCHANGED <<hint, page>>
  /\ UNCHANGED <<screen, cookie, credential, invite, runs>>

-----------------------------------------------------------------------------
(* The activation page.                                                    *)

Begin(kind) == flow' = Flow(kind, "options", kind = "login" /\ hint)

\* The buttons are disabled while a flow runs, except on the no-code screen.
StartLogin ==
  /\ OnActivation /\ screen \in {"home", "activate-used"} /\ flow = NoFlow
  /\ Begin("login")
  /\ UNCHANGED <<page, screen, request, hint, cookie, credential, invite, runs, suspect>>

SubmitRegistration ==
  /\ OnActivation /\ screen = "activate" /\ flow = NoFlow
  /\ Begin("register")
  /\ UNCHANGED <<page, screen, request, hint, cookie, credential, invite, runs, suspect>>

GoHome ==
  /\ OnActivation /\ screen # "home"
  /\ flow = NoFlow \/ screen = "activate-no-code"
  /\ screen' = "home"
  /\ UNCHANGED <<page, request, flow, hint, cookie, credential, invite, runs, suspect>>

\* A success stores the hint and goes to the board; a hinted login that the
\* authenticator or the server refused drops the hint; a used invite is shown.
Activate ==
  /\ flow.kind \in {"login", "register"} /\ flow.answer # "none"
  /\ \/ /\ flow.answer = "ok" /\ flow.step # "verify"
        /\ Proceed(IF flow.step = "options" THEN "ceremony" ELSE "verify")
        /\ UNCHANGED <<screen, hint, page, suspect>>
     \/ /\ flow.answer = "ok" /\ flow.step = "verify"
        /\ flow' = NoFlow /\ hint' = TRUE /\ page' = "activate to board" /\ suspect' = FALSE
        /\ UNCHANGED <<screen, request>>
     \/ /\ flow.answer # "ok" /\ flow' = NoFlow
        /\ hint' = (hint /\ ~(flow.hinted /\ flow.answer = "401"))
        /\ suspect' = (suspect \/ (flow.hinted /\ flow.answer = "401"))
        /\ screen' = IF flow.answer = "used" THEN "activate-used" ELSE screen
        /\ UNCHANGED <<page, request>>
  /\ UNCHANGED <<cookie, credential, invite, runs>>

-----------------------------------------------------------------------------
(* The server, the authenticator, the network and the browser.             *)

\* What each step of a flow is answered.  "401" stands for every refusal that
\* blames the credential, "error" for one that does not.
Verdicts ==
  CASE flow.step = "probe" -> {IF cookie THEN "ok" ELSE "401", "lost"}
    [] flow.step = "options" /\ flow.kind = "register" ->
         {IF invite THEN "ok" ELSE "used", "error", "lost"}
    [] flow.step = "options" -> {"ok", "error", "lost"}
    [] flow.step = "ceremony" ->
         {"401"} \cup (IF flow.kind = "register" \/ credential # "none" THEN {"ok"} ELSE {})
    [] flow.kind = "register" -> {IF invite THEN "ok" ELSE "error", "lost"}
    [] OTHER -> {IF credential = "active" THEN "ok" ELSE "401", "lost"}

\* A verification that succeeds takes effect even if its answer is lost.
ServeFlow ==
  /\ flow.kind # "none" /\ flow.answer = "none"
  /\ \E a \in Verdicts, effective \in BOOLEAN :
       /\ effective <=> flow.step = "verify" /\ "ok" \in Verdicts /\ (a = "ok" \/ effective)
       /\ flow' = [kind |-> flow.kind, step |-> flow.step, answer |-> a, hinted |-> flow.hinted]
       /\ cookie' = (cookie \/ effective)
       /\ invite' = (invite /\ ~(effective /\ flow.kind = "register"))
       /\ credential' = IF effective /\ flow.kind = "register" THEN "active" ELSE credential
  /\ UNCHANGED <<page, screen, request, hint, runs, suspect>>

\* The session reaches its end, or the owner revokes this device.
SessionEnds ==
  /\ cookie /\ cookie' = FALSE
  /\ credential' \in {credential, "revoked"}
  /\ UNCHANGED <<page, screen, request, flow, hint, invite, runs, suspect>>

\* A navigation takes effect, or the user loads the site, at any time.  '/'
\* is the board for a live session, or from the service worker's cache.
Navigate ==
  /\ page' \in IF page = "board to activate" THEN {"activate"}
              ELSE {"board"} \cup (IF cookie THEN {} ELSE {"activate"})
  /\ screen' = "home" /\ flow' = NoFlow
  /\ request' = [r \in Requests |-> Fresh] /\ runs' = [r \in Requests |-> 0]
  /\ UNCHANGED <<hint, cookie, credential, invite, suspect>>

SessionNext ==
  \/ \E r \in Requests : Send(r) \/ Serve(r) \/ AnswerLost(r) \/ Receive(r)
  \/ Recover \/ StartLogin \/ SubmitRegistration \/ GoHome \/ Activate
  \/ ServeFlow \/ SessionEnds \/ Navigate

SessionSpec == SessionInit /\ [][SessionNext]_sessionVars

-----------------------------------------------------------------------------
RequestSteps   == {"idle", "sent", "recovering", "done"}
RequestAnswers == {"none", "ok", "401", "lost"}
RequestStates  == [step : RequestSteps, answer : RequestAnswers, retried : BOOLEAN]

FlowKinds   == {"none", "recovery", "login", "register"}
FlowSteps   == {"none", "probe", "options", "ceremony", "verify"}
FlowAnswers == {"none", "ok", "401", "used", "error", "lost"}
FlowStates  == [kind : FlowKinds, step : FlowSteps, answer : FlowAnswers, hinted : BOOLEAN]

SessionTypeOK ==
  /\ (OnBoard \/ OnActivation) /\ screen \in Screens
  /\ request \in [Requests -> RequestStates]
  /\ flow \in FlowStates
  /\ hint \in BOOLEAN /\ cookie \in BOOLEAN /\ invite \in BOOLEAN /\ suspect \in BOOLEAN
  /\ credential \in {"none", "active", "revoked"}
  /\ runs \in [Requests -> Nat]

\* A request that waits for a recovery is never forgotten: there is one under
\* way that will release it.
WaitersServed ==
  (\E r \in Requests : request[r].step = "recovering") => flow.kind = "recovery"

\* However many requests fail at once and however they are replayed, none
\* takes effect twice, and none waits for a recovery that is not there: a
\* replay follows only a 401, once, and never a loss.
EffectOnce == SessionTypeOK /\ WaitersServed /\ \A r \in Requests : runs[r] <= 1

\* Why: what took effect has an answer that no replay follows, and the board
\* runs no ceremony but the recovery.
EffectIsAnswered ==
  \A r \in Requests : runs[r] = 1 => /\ request[r].step \in {"sent", "done"}
                                    /\ request[r].answer \in {"ok", "lost"}

FlowOfPage ==
  /\ flow.kind = "none" => flow = NoFlow
  /\ OnBoard => flow.kind \in {"none", "recovery"}

SessionInv == EffectOnce /\ EffectIsAnswered /\ FlowOfPage

\* A hint that failed is not tried again, on either page, until a success has
\* stored it anew: a revoked device does not loop through ceremonies.
FailedHintDropped == [][flow'.hinted /\ flow'.step = "options" /\ flow.step # "options"
                          => ~suspect]_sessionVars
=============================================================================
