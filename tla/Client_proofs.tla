--------------------------- MODULE Client_proofs ---------------------------
(***************************************************************************)
(* The models of the web client, each for every value of its constants.    *)
(***************************************************************************)
EXTENDS MCClient, TLAPS

-----------------------------------------------------------------------------
(* ClientSession: whatever fails, expires or is lost, no request takes     *)
(* effect twice, and none is left waiting.                                 *)

(* The two kinds of record, so that no later step has to look inside one.  *)

LEMMA RequestFields ==
  ASSUME NEW s \in RequestSteps, NEW a \in RequestAnswers, NEW b \in BOOLEAN
  PROVE  /\ Request(s, a, b) \in RequestStates
         /\ Request(s, a, b).step = s /\ Request(s, a, b).answer = a
BY DEF Request, RequestStates

LEMMA RequestTypes ==
  ASSUME NEW q \in RequestStates
  PROVE  q.step \in RequestSteps /\ q.answer \in RequestAnswers /\ q.retried \in BOOLEAN
BY DEF RequestStates

LEMMA FlowFields ==
  ASSUME NEW k \in FlowKinds, NEW s \in FlowSteps, NEW h \in BOOLEAN
  PROVE  /\ Flow(k, s, h) \in FlowStates
         /\ Flow(k, s, h).kind = k /\ Flow(k, s, h).step = s
BY DEF Flow, FlowStates, FlowAnswers

LEMMA NothingRuns ==
  /\ NoFlow \in FlowStates /\ NoFlow.kind = "none"
  /\ Fresh \in RequestStates /\ Fresh.step = "idle"
<1>1. NoFlow \in FlowStates /\ NoFlow.kind = "none"
  BY DEF Flow, FlowStates, NoFlow, FlowKinds, FlowSteps, FlowAnswers
<1>2. Fresh \in RequestStates /\ Fresh.step = "idle"
  BY DEF Request, RequestStates, Fresh, RequestSteps, RequestAnswers
<1> QED BY <1>1, <1>2

LEMMA ProbeFields ==
  /\ Flow("recovery", "probe", FALSE) \in FlowStates
  /\ Flow("recovery", "probe", FALSE).kind = "recovery"
BY FlowFields DEF FlowKinds, FlowSteps

LEMMA FlowTypes ==
  ASSUME NEW f \in FlowStates
  PROVE  /\ f.kind \in FlowKinds /\ f.step \in FlowSteps
         /\ f.answer \in FlowAnswers /\ f.hinted \in BOOLEAN
BY DEF FlowStates

\* Nothing runs when a document is opened.
LEMMA SessionInitial == SessionInit => SessionInv
<1> SUFFICES ASSUME SessionInit PROVE SessionInv
  OBVIOUS
<1>1. /\ Fresh \in RequestStates /\ Fresh.step = "idle"
      /\ NoFlow \in FlowStates /\ NoFlow.kind = "none"
  BY NothingRuns
<1> USE DEF SessionInit, OnBoard, OnActivation, Screens
<1>2. SessionTypeOK
  BY <1>1 DEF SessionTypeOK
<1>3. WaitersServed /\ \A r \in Requests : runs[r] <= 1
  BY <1>1 DEF WaitersServed
<1>4. EffectIsAnswered /\ FlowOfPage
  BY <1>1 DEF EffectIsAnswered, FlowOfPage
<1> QED BY <1>2, <1>3, <1>4 DEF SessionInv, EffectOnce

\* A request takes effect at most when it is served, and it is served once
\* for each time it is sent.
LEMMA RequestKeepsInv ==
  ASSUME SessionInv, NEW r \in Requests, Send(r) \/ Serve(r) \/ AnswerLost(r) \/ Receive(r)
  PROVE  SessionInv'
<1> DEFINE Counted(s, a) == /\ runs' = [runs EXCEPT ![r] = runs[r] + 1]
                            /\ request[r].step = "sent" /\ request[r].answer = "none"
                            /\ s = "sent" /\ a = "ok"
           Kept(s, a) == /\ runs' = runs
                         /\ runs[r] = 1 => s \in {"sent", "done"} /\ a \in {"ok", "lost"}
<1>1. request[r] \in RequestStates /\ flow \in FlowStates
  BY DEF SessionInv, EffectOnce, SessionTypeOK
<1>2. \E s \in RequestSteps, a \in RequestAnswers, b \in BOOLEAN :
        /\ request' = [request EXCEPT ![r] = Request(s, a, b)]
        /\ s = "recovering" => flow'.kind = "recovery"
        /\ flow' = flow \/ (flow = NoFlow /\ flow' = Flow("recovery", "probe", FALSE))
        /\ Counted(s, a) \/ Kept(s, a)
  <2>1. CASE Send(r)
    BY <1>1, <2>1 DEF Send, RequestSteps, RequestAnswers, SessionInv, EffectIsAnswered
  <2>2. CASE Serve(r)
    <3>1. PICK a \in {"ok", "401", "lost"} :
            /\ request' = [request EXCEPT ![r] = Request("sent", a, request[r].retried)]
            /\ runs' = IF a = "ok" THEN [runs EXCEPT ![r] = @ + 1] ELSE runs
      BY <2>2 DEF Serve
    <3>2. flow' = flow /\ request[r].step = "sent" /\ request[r].answer = "none"
      BY <2>2 DEF Serve
    <3>3. request[r].retried \in BOOLEAN
      BY <1>1, RequestTypes
    <3>4. Counted("sent", a) \/ Kept("sent", a)
      BY <3>1, <3>2 DEF SessionInv, EffectIsAnswered
    <3> QED BY <3>1, <3>2, <3>3, <3>4 DEF RequestSteps, RequestAnswers
  <2>3. CASE AnswerLost(r)
    <3>1. request[r].retried \in BOOLEAN /\ request[r].step \in RequestSteps
      BY <1>1, RequestTypes
    <3>2. /\ request' = [request EXCEPT ![r] = Request(request[r].step, "lost", request[r].retried)]
          /\ flow' = flow /\ runs' = runs
          /\ request[r].step = "recovering" => flow.kind = "recovery"
          /\ Kept(request[r].step, "lost")
      BY <2>3 DEF AnswerLost, SessionInv, EffectOnce, EffectIsAnswered, WaitersServed
    <3> QED BY <3>1, <3>2 DEF RequestAnswers
  <2>4. CASE Receive(r)
    <3> DEFINE again == request[r].answer = "401" /\ ~request[r].retried
               step  == IF again THEN "recovering" ELSE "done"
    <3>1. request[r].retried \in BOOLEAN /\ request[r].answer \in RequestAnswers
      BY <1>1, RequestTypes
    <3>2. /\ request' = [request EXCEPT ![r] = Request(step, request[r].answer, request[r].retried)]
          /\ flow' = IF again /\ flow = NoFlow THEN Flow("recovery", "probe", FALSE) ELSE flow
          /\ runs' = runs
      BY <2>4 DEF Receive
    <3>3. flow.kind \in {"none", "recovery"} /\ (flow.kind = "none" => flow = NoFlow)
      BY <2>4 DEF Receive, SessionInv, FlowOfPage
    <3>4. again => flow'.kind = "recovery"
      BY <3>2, <3>3, ProbeFields
    <3>5. Kept(step, request[r].answer)
      BY <3>2 DEF SessionInv, EffectIsAnswered
    <3>6. step \in RequestSteps /\ (step = "recovering" => again)
      BY DEF RequestSteps
    <3> HIDE DEF step
    <3> QED BY <3>1, <3>2, <3>4, <3>5, <3>6
  <2> QED BY <2>1, <2>2, <2>3, <2>4
<1>3. PICK s \in RequestSteps, a \in RequestAnswers, b \in BOOLEAN :
        /\ request' = [request EXCEPT ![r] = Request(s, a, b)]
        /\ s = "recovering" => flow'.kind = "recovery"
        /\ flow' = flow \/ (flow = NoFlow /\ flow' = Flow("recovery", "probe", FALSE))
        /\ Counted(s, a) \/ Kept(s, a)
  BY <1>2
<1>4. /\ OnBoard
      /\ UNCHANGED <<page, screen, hint, cookie, credential, invite, suspect>>
  BY DEF Send, Serve, AnswerLost, Receive
<1>5. /\ request' \in [Requests -> RequestStates]
      /\ request'[r].step = s /\ request'[r].answer = a
      /\ \A q \in Requests : q # r => request'[q] = request[q]
  BY <1>3, RequestFields DEF SessionInv, EffectOnce, SessionTypeOK
<1>6. /\ flow' \in FlowStates
      /\ flow' = flow \/ flow'.kind = "recovery"
  BY <1>1, <1>3, ProbeFields
<1>7. /\ runs' \in [Requests -> Nat] /\ \A q \in Requests : q # r => runs'[q] = runs[q]
      /\ runs'[r] <= 1
      /\ runs'[r] = 1 => s \in {"sent", "done"} /\ a \in {"ok", "lost"}
  <2>1. runs \in [Requests -> Nat] /\ runs[r] <= 1
    BY DEF SessionInv, EffectOnce, SessionTypeOK
  <2>2. CASE Counted(s, a)
    <3>1. runs[r] # 1
      BY <2>2 DEF SessionInv, EffectIsAnswered
    <3> QED BY <2>1, <2>2, <3>1
  <2>3. CASE Kept(s, a)
    BY <2>1, <2>3
  <2> QED BY <1>3, <2>2, <2>3
<1> HIDE DEF Counted, Kept
<1>8. SessionTypeOK'
  BY <1>4, <1>5, <1>6, <1>7 DEF SessionInv, EffectOnce, SessionTypeOK, OnBoard, OnActivation
<1>9. WaitersServed'
  BY <1>3, <1>5, <1>6 DEF SessionInv, EffectOnce, WaitersServed
<1>10. (\A q \in Requests : runs[q] <= 1)' /\ EffectIsAnswered'
  BY <1>5, <1>7 DEF SessionInv, EffectOnce, EffectIsAnswered
<1>11. FlowOfPage'
  BY <1>4, <1>6 DEF SessionInv, FlowOfPage, OnBoard
<1> QED BY <1>8, <1>9, <1>10, <1>11 DEF SessionInv, EffectOnce

(* Any step that neither counts nor starts a request keeps the invariant,  *)
(* if it leaves no request waiting without a recovery.                     *)
LEMMA QuietKeepsInv ==
  ASSUME SessionInv,
         (OnBoard \/ OnActivation)', screen' \in Screens,
         hint' \in BOOLEAN, cookie' \in BOOLEAN, invite' \in BOOLEAN, suspect' \in BOOLEAN,
         credential' \in {"none", "active", "revoked"},
         flow' \in FlowStates, FlowOfPage',
         request' \in [Requests -> RequestStates],
         runs' \in [Requests -> Nat],
         \A q \in Requests :
           /\ runs'[q] <= 1
           /\ runs'[q] = 1 => runs[q] = 1 /\ request'[q] = request[q]
           /\ request'[q].step = "recovering" => flow'.kind = "recovery"
  PROVE  SessionInv'
<1>1. SessionTypeOK'
  BY DEF SessionTypeOK
<1>2. WaitersServed' /\ (\A q \in Requests : runs[q] <= 1)'
  BY DEF WaitersServed
<1>3. EffectIsAnswered'
  BY DEF SessionInv, EffectIsAnswered
<1> QED BY <1>1, <1>2, <1>3 DEF SessionInv, EffectOnce

\* What the recovery comes to releases all that wait for it.
LEMMA ResolvedReleases ==
  ASSUME SessionInv, NEW recovered \in BOOLEAN, Resolved(recovered)
  PROVE  /\ flow' = NoFlow
         /\ request' \in [Requests -> RequestStates]
         /\ \A q \in Requests : /\ request'[q].step # "recovering"
                                /\ runs[q] = 1 => request'[q] = request[q]
<1> DEFINE next(q) == IF request[q].step # "recovering" THEN request[q]
                      ELSE IF recovered THEN Request("sent", "none", TRUE)
                      ELSE Request("done", request[q].answer, request[q].retried)
<1>1. flow' = NoFlow /\ request' = [q \in Requests |-> next(q)]
  BY DEF Resolved
<1>2. ASSUME NEW q \in Requests
      PROVE  /\ next(q) \in RequestStates /\ next(q).step # "recovering"
             /\ runs[q] = 1 => next(q) = request[q]
  <2>1. request[q] \in RequestStates
    BY DEF SessionInv, EffectOnce, SessionTypeOK
  <2>2. request[q].answer \in RequestAnswers /\ request[q].retried \in BOOLEAN
    BY <2>1, RequestTypes
  <2>3. runs[q] = 1 => request[q].step # "recovering"
    BY DEF SessionInv, EffectIsAnswered
  <2>4. /\ Request("sent", "none", TRUE) \in RequestStates
        /\ Request("sent", "none", TRUE).step = "sent"
    BY RequestFields DEF RequestSteps, RequestAnswers
  <2>5. /\ Request("done", request[q].answer, request[q].retried) \in RequestStates
        /\ Request("done", request[q].answer, request[q].retried).step = "done"
    BY <2>2, RequestFields DEF RequestSteps
  <2> QED BY <2>1, <2>3, <2>4, <2>5
<1> HIDE DEF next
<1> QED BY <1>1, <1>2

LEMMA RecoverKeepsInv ==
  ASSUME SessionInv, Recover
  PROVE  SessionInv'
<1>1. flow.kind = "recovery" /\ flow.hinted \in BOOLEAN
  BY FlowTypes DEF Recover, SessionInv, EffectOnce, SessionTypeOK
<1>2. /\ page' \in {page, "board to activate"} /\ hint' \in {hint, FALSE}
      /\ suspect' \in BOOLEAN
      /\ UNCHANGED <<screen, cookie, credential, invite, runs>>
      /\ page' # page => flow' = NoFlow
  BY DEF Recover, Bail, Resolved, SessionInv, EffectOnce, SessionTypeOK
<1>3. \/ \E recovered \in BOOLEAN : Resolved(recovered)
      \/ /\ request' = request /\ page' = page
         /\ \E s \in {"options", "ceremony", "verify"}, h \in BOOLEAN :
              flow' = Flow("recovery", s, h)
  BY <1>1 DEF Recover, Bail, Proceed
<1>4. /\ flow' \in FlowStates /\ request' \in [Requests -> RequestStates]
      /\ \A q \in Requests : /\ request'[q].step = "recovering" => flow'.kind = "recovery"
                             /\ runs[q] = 1 => request'[q] = request[q]
      /\ flow' = NoFlow \/ (flow'.kind = "recovery" /\ page' = page)
  <2>1. CASE \E recovered \in BOOLEAN : Resolved(recovered)
    BY <2>1, ResolvedReleases, NothingRuns
  <2>2. CASE /\ request' = request /\ page' = page
             /\ \E s \in {"options", "ceremony", "verify"}, h \in BOOLEAN :
                  flow' = Flow("recovery", s, h)
    <3>1. flow' \in FlowStates /\ flow'.kind = "recovery"
      BY <2>2, FlowFields DEF FlowKinds, FlowSteps
    <3> QED BY <2>2, <3>1 DEF SessionInv, EffectOnce, SessionTypeOK
  <2> QED BY <1>3, <2>1, <2>2
<1>5. NoFlow.kind = "none"
  BY NothingRuns
<1>6. FlowOfPage'
  BY <1>4, <1>5 DEF FlowOfPage
<1>7. (OnBoard \/ OnActivation)' /\ screen' \in Screens
  BY <1>2 DEF SessionInv, EffectOnce, SessionTypeOK, OnBoard, OnActivation
<1>8. /\ hint' \in BOOLEAN /\ cookie' \in BOOLEAN /\ invite' \in BOOLEAN
      /\ credential' \in {"none", "active", "revoked"}
      /\ runs' \in [Requests -> Nat] /\ \A q \in Requests : runs'[q] <= 1
  BY <1>2 DEF SessionInv, EffectOnce, SessionTypeOK
<1> QED BY <1>2, <1>4, <1>6, <1>7, <1>8, QuietKeepsInv

\* The activation page has no requests that could wait for its ceremony, and
\* GoHome leaves the ceremony alone.
LEMMA ActivationKeepsInv ==
  ASSUME SessionInv, StartLogin \/ SubmitRegistration \/ GoHome \/ Activate
  PROVE  SessionInv'
<1>1. /\ flow \in FlowStates /\ flow.hinted \in BOOLEAN
      /\ flow.kind = "none" => flow = NoFlow
      /\ hint \in BOOLEAN /\ suspect \in BOOLEAN
  BY FlowTypes DEF SessionInv, EffectOnce, SessionTypeOK, FlowOfPage
<1>2. NoFlow \in FlowStates /\ NoFlow.kind = "none"
  BY NothingRuns
<1>3. /\ UNCHANGED <<request, cookie, credential, invite, runs>>
      /\ page' = page \/ page' = "activate to board"
      /\ screen' \in {screen, "home", "activate-used"}
      /\ hint' \in BOOLEAN /\ suspect' \in BOOLEAN
  BY <1>1 DEF StartLogin, SubmitRegistration, GoHome, Activate, Proceed
<1>4. \/ flow' = flow
      \/ flow' = NoFlow /\ flow.kind \in {"login", "register"}
      \/ /\ \/ flow = NoFlow /\ OnActivation
            \/ flow.kind \in {"login", "register"}
         /\ page' = page
         /\ \E k \in {"login", "register"}, s \in {"options", "ceremony", "verify"},
               h \in BOOLEAN : flow' = Flow(k, s, h)
  <2>1. CASE StartLogin \/ SubmitRegistration
    <3>1. PICK k \in {"login", "register"} : Begin(k)
      BY <2>1 DEF StartLogin, SubmitRegistration
    <3>2. (k = "login" /\ hint) \in BOOLEAN
      OBVIOUS
    <3>3. \E h \in BOOLEAN : flow' = Flow(k, "options", h)
      BY <3>1, <3>2 DEF Begin
    <3>4. flow = NoFlow /\ OnActivation /\ page' = page
      BY <2>1 DEF StartLogin, SubmitRegistration
    <3> QED BY <3>3, <3>4
  <2>2. CASE GoHome
    BY <2>2 DEF GoHome
  <2>3. CASE Activate
    BY <1>1, <2>3 DEF Activate, Proceed
  <2> QED BY <2>1, <2>2, <2>3
<1>5. flow' \in FlowStates /\ (flow' = flow \/ flow' = NoFlow
                               \/ (flow'.kind \in {"login", "register"} /\ page' = page
                                   /\ (OnActivation \/ flow.kind \in {"login", "register"})))
  BY <1>1, <1>2, <1>4, FlowFields DEF FlowKinds, FlowSteps
<1>6. flow.kind # "recovery" \/ flow' = flow
  BY <1>2, <1>4
<1>7. FlowOfPage'
  BY <1>2, <1>3, <1>5 DEF SessionInv, FlowOfPage, OnBoard, OnActivation
<1>8. /\ (OnBoard \/ OnActivation)' /\ screen' \in Screens
      /\ cookie' \in BOOLEAN /\ invite' \in BOOLEAN
      /\ credential' \in {"none", "active", "revoked"}
      /\ request' \in [Requests -> RequestStates] /\ runs' \in [Requests -> Nat]
  BY <1>3 DEF SessionInv, EffectOnce, SessionTypeOK, OnBoard, OnActivation, Screens
<1>9. \A q \in Requests : /\ runs'[q] <= 1 /\ runs'[q] = runs[q] /\ request'[q] = request[q]
                          /\ request[q].step = "recovering" => flow'.kind = "recovery"
  BY <1>3, <1>6 DEF SessionInv, EffectOnce, WaitersServed
<1> QED BY <1>3, <1>5, <1>7, <1>8, <1>9, QuietKeepsInv

\* Answers of the server, the end of a session, and a new document.
LEMMA OutsideKeepsInv ==
  ASSUME SessionInv, ServeFlow \/ SessionEnds \/ Navigate
  PROVE  SessionInv'
<1>1. CASE ServeFlow \/ SessionEnds
  <2>1. /\ UNCHANGED <<page, screen, request, hint, runs, suspect>>
        /\ cookie' \in BOOLEAN /\ invite' \in BOOLEAN
        /\ credential' \in {"none", "active", "revoked"}
    BY <1>1 DEF ServeFlow, SessionEnds, SessionInv, EffectOnce, SessionTypeOK
  <2>2. flow' \in FlowStates /\ (flow' = flow \/ (flow'.kind = flow.kind /\ flow.kind # "none"))
    <3>1. CASE ServeFlow
      <4>1. PICK a \in Verdicts :
              flow' = [kind |-> flow.kind, step |-> flow.step, answer |-> a, hinted |-> flow.hinted]
        BY <3>1 DEF ServeFlow
      <4>2. a \in FlowAnswers
        BY DEF Verdicts, FlowAnswers
      <4>3. flow \in FlowStates
        BY DEF SessionInv, EffectOnce, SessionTypeOK
      <4>4. /\ flow.kind \in FlowKinds /\ flow.step \in FlowSteps
            /\ flow.hinted \in BOOLEAN
        BY <4>3, FlowTypes
      <4>5. flow' \in FlowStates /\ flow'.kind = flow.kind
        BY <4>1, <4>2, <4>4 DEF FlowStates
      <4> QED BY <3>1, <4>5 DEF ServeFlow
    <3>2. CASE SessionEnds
      <4>1. flow' = flow
        BY <3>2 DEF SessionEnds
      <4>2. flow \in FlowStates
        BY DEF SessionInv, EffectOnce, SessionTypeOK
      <4>3. flow' \in FlowStates
        BY <4>1, <4>2
      <4> QED BY <4>1, <4>3
    <3> QED BY <1>1, <3>1, <3>2
  <2>3. FlowOfPage'
    BY <2>1, <2>2 DEF SessionInv, FlowOfPage, OnBoard
  <2>4. /\ (OnBoard \/ OnActivation)' /\ screen' \in Screens
        /\ hint' \in BOOLEAN /\ suspect' \in BOOLEAN
        /\ request' \in [Requests -> RequestStates] /\ runs' \in [Requests -> Nat]
    BY <2>1 DEF SessionInv, EffectOnce, SessionTypeOK, OnBoard, OnActivation
  <2>5. \A q \in Requests : /\ runs'[q] <= 1 /\ runs'[q] = runs[q] /\ request'[q] = request[q]
                            /\ request'[q].step = "recovering" => flow'.kind = "recovery"
    BY <2>1, <2>2 DEF SessionInv, EffectOnce, WaitersServed
  <2> QED BY <2>1, <2>2, <2>3, <2>4, <2>5, QuietKeepsInv
<1>2. CASE Navigate
  <2>1. /\ Fresh \in RequestStates /\ Fresh.step = "idle"
        /\ NoFlow \in FlowStates /\ NoFlow.kind = "none"
    BY NothingRuns
  <2>2. /\ page' \in {"board", "activate"} /\ screen' = "home" /\ flow' = NoFlow
        /\ request' = [q \in Requests |-> Fresh] /\ runs' = [q \in Requests |-> 0]
        /\ UNCHANGED <<hint, cookie, credential, invite, suspect>>
    BY <1>2 DEF Navigate
  <2>3. /\ (OnBoard \/ OnActivation)' /\ screen' \in Screens /\ FlowOfPage'
    BY <2>1, <2>2 DEF OnBoard, OnActivation, Screens, FlowOfPage
  <2>4. /\ hint' \in BOOLEAN /\ cookie' \in BOOLEAN /\ invite' \in BOOLEAN /\ suspect' \in BOOLEAN
        /\ credential' \in {"none", "active", "revoked"}
    BY <2>2 DEF SessionInv, EffectOnce, SessionTypeOK
  <2>5. /\ request' \in [Requests -> RequestStates] /\ runs' \in [Requests -> Nat]
        /\ flow' \in FlowStates
        /\ \A q \in Requests : runs'[q] = 0 /\ request'[q].step = "idle"
    BY <2>1, <2>2
  <2> QED BY <2>3, <2>4, <2>5, QuietKeepsInv
<1> QED BY <1>1, <1>2

LEMMA SessionInductive == SessionInv /\ [SessionNext]_sessionVars => SessionInv'
<1> SUFFICES ASSUME SessionInv, [SessionNext]_sessionVars PROVE SessionInv'
  OBVIOUS
<1>1. CASE \E r \in Requests : Send(r) \/ Serve(r) \/ AnswerLost(r) \/ Receive(r)
  BY <1>1, RequestKeepsInv
<1>2. CASE Recover
  BY <1>2, RecoverKeepsInv
<1>3. CASE StartLogin \/ SubmitRegistration \/ GoHome \/ Activate
  BY <1>3, ActivationKeepsInv
<1>4. CASE ServeFlow \/ SessionEnds \/ Navigate
  BY <1>4, OutsideKeepsInv
<1>5. CASE UNCHANGED sessionVars
  BY <1>5 DEF sessionVars, SessionInv, EffectOnce, SessionTypeOK, OnBoard, OnActivation,
              WaitersServed, EffectIsAnswered, FlowOfPage
<1> QED BY <1>1, <1>2, <1>3, <1>4, <1>5 DEF SessionNext

\* However many requests fail at once, and however the recovery goes, none
\* takes effect twice and none waits for a recovery that is not there.
THEOREM EffectsHappenOnce == SessionSpec => []EffectOnce
<1>1. SessionInv => EffectOnce
  BY DEF SessionInv
<1> QED BY <1>1, SessionInitial, SessionInductive, PTL DEF SessionSpec

\* Why: a page that has a hint knows nothing against it.
HintTrusted == hint => ~suspect

LEMMA HintStep ==
  ASSUME SessionInv, HintTrusted, [SessionNext]_sessionVars
  PROVE  /\ HintTrusted'
         /\ flow'.hinted /\ flow'.step = "options" /\ flow.step # "options" => ~suspect
<1> DEFINE Starts == flow'.hinted /\ flow'.step = "options" /\ flow.step # "options"
<1>1. /\ hint \in BOOLEAN /\ suspect \in BOOLEAN /\ flow \in FlowStates
      /\ flow.hinted \in BOOLEAN
  BY FlowTypes DEF SessionInv, EffectOnce, SessionTypeOK
<1>2. ASSUME NEW k, NEW t, NEW h PROVE Flow(k, t, h).step = t /\ Flow(k, t, h).hinted = h
  BY DEF Flow
<1>3. NoFlow.step = "none"
  BY DEF NoFlow, Flow
<1>4. CASE \E r \in Requests : Send(r) \/ Serve(r) \/ AnswerLost(r) \/ Receive(r)
  <2>1. flow' \in {flow, Flow("recovery", "probe", FALSE)} /\ UNCHANGED <<hint, suspect>>
    BY <1>4 DEF Send, Serve, AnswerLost, Receive
  <2>2. ~(flow'.hinted /\ flow'.step = "options" /\ flow.step # "options")
    BY <2>1 DEF Flow
  <2> QED BY <2>1, <2>2 DEF HintTrusted
<1>5. CASE Recover
  <2>1. HintTrusted'
    BY <1>1, <1>5 DEF Recover, Bail, HintTrusted
  <2>2. \/ flow' = NoFlow
        \/ flow' = Flow("recovery", "options", TRUE) /\ hint
        \/ \E t \in {"ceremony", "verify"} : flow' = Flow(flow.kind, t, flow.hinted)
    BY <1>5 DEF Recover, Bail, Resolved, Proceed
  <2>3. ~Starts \/ hint
    <3>1. CASE flow' = NoFlow
      BY <1>3, <3>1
    <3>2. ASSUME NEW t \in {"ceremony", "verify"}, flow' = Flow(flow.kind, t, flow.hinted)
          PROVE  ~Starts
      BY <3>2 DEF Flow
    <3> QED BY <2>2, <3>1, <3>2
  <2> QED BY <2>1, <2>3 DEF HintTrusted
<1>6. CASE StartLogin \/ SubmitRegistration
  <2>1. PICK k \in {"login", "register"} : Begin(k)
    BY <1>6 DEF StartLogin, SubmitRegistration
  <2>2. flow' = Flow(k, "options", k = "login" /\ hint) /\ UNCHANGED <<hint, suspect>>
    BY <1>6, <2>1 DEF StartLogin, SubmitRegistration, Begin
  <2>3. flow'.hinted => hint
    BY <1>1, <1>2, <2>2
  <2> QED BY <2>2, <2>3 DEF HintTrusted
<1>7. CASE GoHome
  BY <1>7 DEF GoHome, HintTrusted
<1>8. CASE Activate
  <2>1. HintTrusted'
    BY <1>1, <1>8 DEF Activate, HintTrusted
  <2>2. flow' = NoFlow \/ \E t \in {"ceremony", "verify"} : flow' = Flow(flow.kind, t, flow.hinted)
    BY <1>8 DEF Activate, Proceed
  <2>3. flow'.step # "options"
    BY <1>2, <1>3, <2>2
  <2> QED BY <2>1, <2>3
<1>9. CASE ServeFlow
  <2>1. flow'.step = flow.step /\ UNCHANGED <<hint, suspect>>
    BY <1>9 DEF ServeFlow
  <2> QED BY <2>1 DEF HintTrusted
<1>10. CASE SessionEnds \/ Navigate
  <2>1. flow' \in {flow, NoFlow} /\ UNCHANGED <<hint, suspect>>
    BY <1>10 DEF SessionEnds, Navigate
  <2> QED BY <1>3, <2>1 DEF HintTrusted
<1>11. CASE UNCHANGED sessionVars
  BY <1>11 DEF sessionVars, HintTrusted
<1> QED BY <1>4, <1>5, <1>6, <1>7, <1>8, <1>9, <1>10, <1>11 DEF SessionNext

\* A hint that failed starts no further ceremony, on either page, until a success
\* has stored it anew (relogin.ts:68, activation-model.ts).
THEOREM HintNotRetried == SessionSpec => FailedHintDropped
<1>1. SessionInit => SessionInv /\ HintTrusted
  BY SessionInitial DEF SessionInit, HintTrusted
<1>2. SessionInv /\ HintTrusted /\ [SessionNext]_sessionVars => (SessionInv /\ HintTrusted)'
  BY SessionInductive, HintStep
<1>3. SessionInv /\ HintTrusted /\ [SessionNext]_sessionVars
        => [flow'.hinted /\ flow'.step = "options" /\ flow.step # "options" => ~suspect]_sessionVars
  BY HintStep
<1> QED BY <1>1, <1>2, <1>3, PTL DEF SessionSpec, FailedHintDropped

-----------------------------------------------------------------------------
(* RecoveryViewer: no viewer is orphaned, and a canvas that says it is live *)
(* has a viewer behind it.                                                 *)

\* Why: the attempt under way has no viewer yet, and waits for one on a canvas
\* that is there; a flow is finished only on one.
ViewerInv ==
  /\ OneViewer
  /\ closing => mounted
  /\ issuing \subseteq 1..tries
  /\ tries \in issuing => viewers = {} /\ mounted /\ ~closing /\ view = "issuing"

LEMMA ViewerInitial == ViewerInit => ViewerInv
<1> SUFFICES ASSUME ViewerInit PROVE ViewerInv
  OBVIOUS
<1>1. ViewerTypeOK
  <2>1. mounted \in BOOLEAN /\ closing \in BOOLEAN
    BY DEF ViewerInit
  <2>2. 0 \in 0..MaxStarts /\ {} \subseteq 1..MaxStarts
    BY StartsAssumption
  <2> QED BY <2>1, <2>2 DEF ViewerInit, ViewerTypeOK
<1> QED BY <1>1 DEF ViewerInit, ViewerInv, OneViewer

\* Disposing of the held viewer leaves none.
LEMMA DisposeLeavesNone ==
  ASSUME OneViewer, Dispose
  PROVE  viewers' = {} /\ session' = 0
BY DEF OneViewer, Dispose

LEMMA StartKeepsInv ==
  ASSUME ViewerInv, Start, mounted' = TRUE, closing' = FALSE
  PROVE  ViewerInv'
<1>1. viewers' = {} /\ session' = 0
  BY DisposeLeavesNone DEF ViewerInv, Start
<1>2. /\ tries' = tries + 1 /\ tries' \in 1..MaxStarts
      /\ view' = "issuing" /\ issuing' = issuing \cup {tries'}
  BY StartsAssumption DEF ViewerInv, OneViewer, ViewerTypeOK, Start
<1>3. issuing' \subseteq 1..tries' /\ issuing' \subseteq 1..MaxStarts
  BY <1>2, StartsAssumption DEF ViewerInv, OneViewer, ViewerTypeOK
<1>4. ViewerTypeOK'
  <2>1. mounted' \in BOOLEAN /\ closing' \in BOOLEAN
    OBVIOUS
  <2>2. /\ tries' \in 0..MaxStarts /\ session' \in 0..MaxStarts
        /\ viewers' \subseteq 1..MaxStarts /\ unbuilt' \in 0..MaxStarts
    BY <1>1, <1>2, StartsAssumption DEF Start, ViewerInv, OneViewer, ViewerTypeOK
  <2> QED BY <1>2, <1>3, <2>1, <2>2 DEF ViewerTypeOK
<1> QED BY <1>1, <1>2, <1>3, <1>4 DEF ViewerInv, OneViewer

LEMMA TeardownKeepsInv ==
  ASSUME ViewerInv, Teardown, mounted' \in BOOLEAN, closing' = mounted'
  PROVE  ViewerInv'
<1>1. viewers' = {} /\ session' = 0
  BY DisposeLeavesNone DEF ViewerInv, Teardown
<1> QED BY <1>1, StartsAssumption DEF ViewerInv, OneViewer, ViewerTypeOK, Teardown

LEMMA ViewerInductive == ViewerInv /\ [ViewerNext]_viewerVars => ViewerInv'
<1> SUFFICES ASSUME ViewerInv, [ViewerNext]_viewerVars PROVE ViewerInv'
  OBVIOUS
<1>1. CASE Mount
  <2>1. Start /\ mounted' = TRUE /\ closing' = FALSE
    BY <1>1 DEF Mount, ViewerInv, OneViewer, ViewerTypeOK
  <2> QED BY <2>1, StartKeepsInv
<1>2. CASE Reconnect
  <2>1. Start /\ mounted' = TRUE /\ closing' = FALSE
    BY <1>2 DEF Reconnect, ViewerInv, OneViewer, ViewerTypeOK
  <2> QED BY <2>1, StartKeepsInv
<1>3. CASE Unmount
  BY <1>3, TeardownKeepsInv DEF Unmount
<1>4. CASE Finish
  BY <1>4, TeardownKeepsInv DEF Finish, ViewerInv, OneViewer, ViewerTypeOK
<1>5. ASSUME NEW a \in 1..MaxStarts, Issued(a) PROVE ViewerInv'
  BY <1>5, StartsAssumption DEF Issued, ViewerInv, OneViewer, ViewerTypeOK
<1>6. ASSUME NEW a \in 1..MaxStarts, Connected(a) PROVE ViewerInv'
  BY <1>6, StartsAssumption DEF Connected, ViewerInv, OneViewer, ViewerTypeOK
<1>7. ASSUME NEW a \in 1..MaxStarts, Ends(a) PROVE ViewerInv'
  <2>1. viewers' = {} /\ session' = 0
    BY <1>7, DisposeLeavesNone DEF ViewerInv, Ends
  <2> QED BY <1>7, <2>1, StartsAssumption DEF Ends, ViewerInv, OneViewer, ViewerTypeOK
<1>8. CASE UNCHANGED viewerVars
  BY <1>8 DEF viewerVars, ViewerInv, OneViewer, ViewerTypeOK
<1> QED BY <1>1, <1>2, <1>3, <1>4, <1>5, <1>6, <1>7, <1>8 DEF ViewerNext

\* However often canvases come and go, attempts overlap and connections break.
THEOREM ViewersAreHeld == ViewerSpec => []OneViewer
<1>1. ViewerInv => OneViewer
  BY DEF ViewerInv
<1> QED BY <1>1, ViewerInitial, ViewerInductive, PTL DEF ViewerSpec

-----------------------------------------------------------------------------
(* PassportCheck: results are applied in the order of their attempts, and  *)
(* the first value from the server takes none of them back.                *)

\* An attempt that is waited for was not applied; one whose deadline has not
\* passed is the latest, and the page says that it is pending.
AttemptsInv ==
  /\ latest \in 0..MaxAttempts /\ applied \in Seq(Attempts)
  /\ attempt \in [Attempts -> [asks : {"nothing", "checkV2", "check"}, late : BOOLEAN]]
  /\ \A a \in Attempts : a > latest => attempt[a] = NoRequest
  /\ \A a \in Attempts : attempt[a].asks # "nothing" =>
       /\ \A i \in DOMAIN applied : applied[i] # a
       /\ ~attempt[a].late => a = latest /\ transient = "pending"
  /\ transient = "pending" =>
       latest \in Attempts /\ attempt[latest].asks # "nothing" /\ ~attempt[latest].late
  /\ \A i \in DOMAIN applied : applied[i] <= latest
  /\ \A i, j \in DOMAIN applied : i < j => applied[i] < applied[j]

Shown == {"idle", "pending", "documentErrors"} \cup Fatal

\* What is kept apart until the server has answered is what is shown, and no
\* value is newer than the last observation.
ResultsInv ==
  /\ transient \in Shown /\ errors \subseteq Docs /\ surface \in {"none", "modal", "inline"}
  /\ known \in [Docs -> BOOLEAN] /\ live \in [Docs -> BOOLEAN]
  /\ clock \in 0..MaxClock
  /\ stored \in [Docs -> 0..clock] /\ shown \in [Docs -> 0..clock] /\ opt \in [Docs -> 0..clock]
  /\ fetch \in [Docs -> [step : {"asked", "answered", "over"}, value : 0..clock]]
  /\ puts \in [Docs -> SUBSET (0..clock)] /\ stream \in [Docs -> Seq(0..clock)]
  /\ \A d \in Docs : ~known[d] => shown[d] = opt[d]

CheckInv == AttemptsInv /\ ResultsInv

LEMMA CheckInitial == CheckInit => CheckInv
<1> SUFFICES ASSUME CheckInit PROVE CheckInv
  OBVIOUS
<1>1. AttemptsInv
  <2>1. NoRequest \in [asks : {"nothing", "checkV2", "check"}, late : BOOLEAN]
        /\ NoRequest.asks = "nothing"
    BY DEF NoRequest
  <2>2. applied = << >> /\ latest = 0 /\ transient = "idle"
        /\ attempt = [a \in Attempts |-> NoRequest]
    BY DEF CheckInit
  <2> QED BY <2>1, <2>2, PassportAssumption DEF AttemptsInv
<1>2. ResultsInv
  BY PassportAssumption DEF CheckInit, ResultsInv, Shown
<1> QED BY <1>1, <1>2 DEF CheckInv

\* What a check comes to: a result, or one failure for all of it.
LEMMA OutcomeFacts ==
  ASSUME NEW o \in Outcomes \cup LegacyOutcomes
  PROVE  o.kind \in {"result"} \cup Fatal /\ o.ok \subseteq Docs
<1>1. CASE o \in LegacyOutcomes
  BY <1>1, PassportAssumption DEF LegacyOutcomes
<1>2. CASE o \in Outcomes
  <2>1. PICK v \in [Docs -> {"success", "error"} \cup Fatal] : o = Outcome(v)
    BY <1>2 DEF Outcomes
  <2> DEFINE ends == {d \in Docs : v[d] \in Fatal}
  <2>2. CASE ends = {}
    BY <2>1, <2>2 DEF Outcome
  <2>3. CASE ends # {}
    <3>1. (CHOOSE d \in ends : TRUE) \in ends
      BY <2>3
    <3>2. o.ok = {} /\ o.kind = v[IF IdCard \in ends THEN IdCard ELSE CHOOSE d \in ends : TRUE]
      BY <2>1, <2>3 DEF Outcome
    <3> QED BY <3>1, <3>2
  <2> QED BY <2>2, <2>3
<1> QED BY <1>1, <1>2

\* What an answer does to the page: its result is applied, or the failure is
\* shown, or nothing happens because it is late.
LEMMA SettleFacts ==
  ASSUME NEW a \in Attempts, Settle(a)
  PROVE  /\ attempt[a].asks # "nothing" /\ attempt' = [attempt EXCEPT ![a] = NoRequest]
         /\ UNCHANGED <<latest, surface>>
         /\ \/ /\ attempt[a].late => a = latest
               /\ \E ok \in SUBSET Docs, failed \in SUBSET Docs : Apply(a, ok, failed)
            \/ /\ UNCHANGED <<clock, results, wire, applied>>
               /\ \/ attempt[a].late /\ UNCHANGED <<transient, errors>>
                  \/ ~attempt[a].late /\ transient' \in Fatal /\ errors' = {}
<1>1. PICK o \in Outcomes \cup LegacyOutcomes :
        IF o.kind = "result" /\ (attempt[a].late => a = latest)
        THEN Apply(a, o.ok, IF attempt[a].asks = "check" THEN {} ELSE Docs \ o.ok)
        ELSE /\ IF attempt[a].late THEN UNCHANGED <<transient, errors>>
                ELSE transient' = o.kind /\ errors' = {}
             /\ UNCHANGED <<clock, results, wire, applied>>
  BY DEF Settle
<1>2. o.kind \in {"result"} \cup Fatal /\ o.ok \subseteq Docs
  BY OutcomeFacts
<1>3. /\ attempt[a].asks # "nothing" /\ attempt' = [attempt EXCEPT ![a] = NoRequest]
      /\ UNCHANGED <<latest, surface>>
  BY DEF Settle, Over
<1>4. CASE o.kind = "result" /\ (attempt[a].late => a = latest)
  <2> DEFINE failed == IF attempt[a].asks = "check" THEN {} ELSE Docs \ o.ok
  <2>1. Apply(a, o.ok, failed) /\ failed \in SUBSET Docs
    BY <1>1, <1>4
  <2> HIDE DEF failed
  <2> QED BY <1>2, <1>3, <1>4, <2>1
<1>5. CASE ~(o.kind = "result" /\ (attempt[a].late => a = latest))
  BY <1>1, <1>2, <1>3, <1>5
<1> QED BY <1>4, <1>5

LEMMA NoRequestFields ==
  /\ NoRequest \in [asks : {"nothing", "checkV2", "check"}, late : BOOLEAN]
  /\ NoRequest.asks = "nothing" /\ ~NoRequest.late
  BY DEF NoRequest

\* A step that leaves the attempts and what was applied alone, and pending as
\* it was.
LEMMA AttemptsUntouched ==
  ASSUME AttemptsInv, UNCHANGED <<latest, attempt, transient, applied>>
  PROVE  AttemptsInv'
  BY DEF AttemptsInv

LEMMA AskKeepsOrder ==
  ASSUME AttemptsInv, Ask, UNCHANGED applied
  PROVE  AttemptsInv'
<1> USE PassportAssumption DEF Attempts
<1> DEFINE Request1 == [asks : {"nothing", "checkV2", "check"}, late : BOOLEAN]
<1>1. /\ latest' = latest + 1 /\ latest' \in Attempts /\ latest \in Nat
      /\ transient' = "pending" /\ transient # "pending"
  BY DEF Ask, AttemptsInv
<1>2. attempt[latest'] = NoRequest /\ attempt \in [Attempts -> Request1]
  BY <1>1 DEF AttemptsInv
<1>3. /\ attempt' \in [Attempts -> Request1]
      /\ attempt'[latest'].asks = "checkV2" /\ ~attempt'[latest'].late
      /\ \A a \in Attempts : a # latest' => attempt'[a] = attempt[a]
  <2> DEFINE asked == [NoRequest EXCEPT !.asks = "checkV2"]
  <2>1. asked \in Request1 /\ asked.asks = "checkV2" /\ asked.late = FALSE
    BY DEF NoRequest
  <2>2. attempt' = [attempt EXCEPT ![latest'] = asked]
    BY <1>1, <1>2 DEF Ask
  <2> HIDE DEF asked
  <2> QED BY <1>1, <1>2, <2>1, <2>2
<1>4. \A a \in Attempts : attempt'[a].asks # "nothing" =>
        /\ \A i \in DOMAIN applied : applied[i] # a
        /\ ~attempt'[a].late => a = latest'
  BY <1>1, <1>3 DEF AttemptsInv
<1>5. \A i \in DOMAIN applied : applied[i] <= latest'
  BY <1>1 DEF AttemptsInv
<1>6. \A a \in Attempts : a > latest' => attempt'[a] = NoRequest
  BY <1>1, <1>3 DEF AttemptsInv
<1> QED BY <1>1, <1>3, <1>4, <1>5, <1>6 DEF AttemptsInv

LEMMA SettleKeepsOrder ==
  ASSUME AttemptsInv, NEW a \in Attempts, Settle(a)
  PROVE  AttemptsInv'
<1> USE PassportAssumption DEF Attempts
<1> DEFINE Request1 == [asks : {"nothing", "checkV2", "check"}, late : BOOLEAN]
<1>1. /\ attempt[a].asks # "nothing" /\ latest' = latest
      /\ attempt' \in [Attempts -> Request1] /\ attempt'[a] = NoRequest
      /\ \A b \in Attempts : b # a => attempt'[b] = attempt[b]
  BY SettleFacts, NoRequestFields DEF AttemptsInv
<1>2. CASE /\ attempt[a].late => a = latest
           /\ \E ok \in SUBSET Docs, failed \in SUBSET Docs : Apply(a, ok, failed)
  <2>1. a = latest
    BY <1>1, <1>2 DEF AttemptsInv
  <2>2. applied' = Append(applied, a) /\ transient' # "pending"
    BY <1>2 DEF Apply
  <2>3. /\ applied \in Seq(Attempts) /\ applied' \in Seq(Attempts)
        /\ DOMAIN applied = 1..Len(applied) /\ DOMAIN applied' = 1..Len(applied) + 1
        /\ Len(applied) \in Nat /\ applied'[Len(applied) + 1] = a
        /\ \A i \in 1..Len(applied) : applied'[i] = applied[i]
    BY <2>2 DEF AttemptsInv
  <2>4. \A i \in DOMAIN applied : applied[i] < a /\ applied[i] \in Attempts
    BY <1>1, <2>1, <2>3 DEF AttemptsInv
  <2>5. ASSUME NEW i \in DOMAIN applied' PROVE applied'[i] <= latest'
    <3>1. i = Len(applied) + 1 \/ i \in DOMAIN applied
      BY <2>3
    <3> QED BY <1>1, <2>1, <2>3, <2>4, <3>1
  <2>6. ASSUME NEW i \in DOMAIN applied', NEW j \in DOMAIN applied', i < j
        PROVE  applied'[i] < applied'[j]
    <3>1. i \in DOMAIN applied /\ (j = Len(applied) + 1 \/ j \in DOMAIN applied)
      BY <2>3, <2>6
    <3> QED BY <2>3, <2>4, <2>6, <3>1 DEF AttemptsInv
  <2>7. \A b \in Attempts : attempt'[b].asks # "nothing" =>
          /\ \A i \in DOMAIN applied' : applied'[i] # b
          /\ attempt'[b].late
    <3> SUFFICES ASSUME NEW b \in Attempts, attempt'[b].asks # "nothing"
                 PROVE  (\A i \in DOMAIN applied' : applied'[i] # b) /\ attempt'[b].late
      OBVIOUS
    <3>1. b # a /\ attempt[b].asks # "nothing" /\ attempt'[b] = attempt[b]
      BY <1>1, NoRequestFields
    <3>2. attempt[b].late /\ \A i \in DOMAIN applied : applied[i] # b
      BY <2>1, <3>1 DEF AttemptsInv
    <3>3. ASSUME NEW i \in DOMAIN applied' PROVE applied'[i] # b
      <4>1. i = Len(applied) + 1 \/ i \in DOMAIN applied
        BY <2>3
      <4> QED BY <2>3, <3>1, <3>2, <4>1
    <3> QED BY <3>1, <3>2, <3>3
  <2> QED BY <1>1, <2>2, <2>3, <2>5, <2>6, <2>7 DEF AttemptsInv
<1>3. CASE /\ UNCHANGED <<clock, results, wire, applied>>
           /\ \/ attempt[a].late /\ UNCHANGED <<transient, errors>>
              \/ ~attempt[a].late /\ transient' \in Fatal /\ errors' = {}
  <2>1. applied' = applied
    BY <1>3
  <2>2. CASE attempt[a].late /\ UNCHANGED <<transient, errors>>
    BY <1>1, <2>1, <2>2, NoRequestFields DEF AttemptsInv
  <2>3. CASE ~attempt[a].late /\ transient' \in Fatal
    <3>1. a = latest /\ transient' # "pending"
      BY <1>1, <2>3 DEF AttemptsInv, Fatal
    <3> QED BY <1>1, <2>1, <3>1, NoRequestFields DEF AttemptsInv
  <2> QED BY <1>3, <2>2, <2>3
<1> QED BY <1>2, <1>3, SettleFacts

LEMMA AttemptsStep == AttemptsInv /\ [CheckNext]_checkVars => AttemptsInv'
<1> SUFFICES ASSUME AttemptsInv, [CheckNext]_checkVars PROVE AttemptsInv'
  OBVIOUS
<1> USE PassportAssumption DEF Attempts
<1>1. CASE Check \/ RetryCheck
  BY <1>1, AskKeepsOrder DEF Check, RetryCheck
<1>2. CASE CloseRecovery \/ \E s \in {"modal", "inline"} : OpenRecovery(s)
  BY <1>2, AttemptsUntouched DEF CloseRecovery, OpenRecovery
<1>3. ASSUME NEW a \in Attempts, Unsupported(a) PROVE AttemptsInv'
  <2>1. /\ attempt' \in [Attempts -> [asks : {"nothing", "checkV2", "check"}, late : BOOLEAN]]
        /\ attempt[a].asks # "nothing" /\ attempt'[a].late = attempt[a].late
        /\ attempt'[a].asks # "nothing"
        /\ \A b \in Attempts : b # a => attempt'[b] = attempt[b]
        /\ UNCHANGED <<latest, transient, applied>>
    BY <1>3 DEF Unsupported, AttemptsInv
  <2>2. ~(a > latest)
    BY <2>1, NoRequestFields DEF AttemptsInv
  <2> QED BY <2>1, <2>2 DEF AttemptsInv
<1>4. ASSUME NEW a \in Attempts, Deadline(a) PROVE AttemptsInv'
  <2>1. /\ attempt' \in [Attempts -> [asks : {"nothing", "checkV2", "check"}, late : BOOLEAN]]
        /\ attempt[a].asks # "nothing" /\ ~attempt[a].late
        /\ attempt'[a].late = TRUE /\ attempt'[a].asks = attempt[a].asks
        /\ \A b \in Attempts : b # a => attempt'[b] = attempt[b]
        /\ transient' = "retryable" /\ UNCHANGED <<latest, applied>>
    <3> DEFINE Request1 == [asks : {"nothing", "checkV2", "check"}, late : BOOLEAN]
               over == [attempt[a] EXCEPT !.late = TRUE]
    <3>1. attempt \in [Attempts -> Request1] /\ attempt[a] \in Request1
      BY DEF AttemptsInv
    <3>2. over \in Request1 /\ over.late = TRUE /\ over.asks = attempt[a].asks
      BY <3>1
    <3>3. attempt' = [attempt EXCEPT ![a] = over]
      BY <1>4 DEF Deadline
    <3> HIDE DEF over
    <3>4. /\ attempt' \in [Attempts -> Request1] /\ attempt'[a] = over
          /\ \A b \in Attempts : b # a => attempt'[b] = attempt[b]
      BY <3>1, <3>2, <3>3
    <3>5. /\ attempt[a].asks # "nothing" /\ ~attempt[a].late
          /\ transient' = "retryable" /\ UNCHANGED <<latest, applied>>
      BY <1>4 DEF Deadline
    <3> QED BY <3>2, <3>4, <3>5
  <2>2. a = latest
    BY <2>1 DEF AttemptsInv
  <2> QED BY <2>1, <2>2 DEF AttemptsInv
<1>5. ASSUME NEW a \in Attempts, Settle(a) PROVE AttemptsInv'
  BY <1>5, SettleKeepsOrder
<1>6. ASSUME NEW d \in Docs,
             Elsewhere(d) \/ Read(d) \/ ReadDone(d) \/ Event(d) \/ \E v \in puts[d] : Put(d, v)
      PROVE  AttemptsInv'
  BY <1>6, AttemptsUntouched DEF Elsewhere, Read, ReadDone, Event, Put, control
<1>7. CASE UNCHANGED checkVars
  BY <1>7, AttemptsUntouched DEF checkVars, control
<1> QED BY <1>1, <1>2, <1>3, <1>4, <1>5, <1>6, <1>7 DEF CheckNext

LEMMA HeadAndTail ==
  ASSUME NEW S, NEW s \in Seq(S), s # << >>
  PROVE  Head(s) \in S /\ Tail(s) \in Seq(S)
  OBVIOUS

\* Older observations are still in range when a newer one is made.
LEMMA SeqGrows ==
  ASSUME NEW m \in Nat, NEW n \in Nat, m <= n, NEW s \in Seq(0..m)
  PROVE  s \in Seq(0..n)
  OBVIOUS

LEMMA ResultsStep == ResultsInv /\ [CheckNext]_checkVars => ResultsInv'
<1> SUFFICES ASSUME ResultsInv, [CheckNext]_checkVars PROVE ResultsInv'
  OBVIOUS
<1> USE PassportAssumption
<1>1. ASSUME transient' \in Shown, errors' \subseteq Docs, surface' \in {"none", "modal", "inline"},
             UNCHANGED <<clock, results, wire>>
      PROVE  ResultsInv'
  BY <1>1 DEF ResultsInv, results, wire
<1>2. CASE Check \/ RetryCheck \/ CloseRecovery \/ \E s \in {"modal", "inline"} : OpenRecovery(s)
  <2>1. UNCHANGED <<clock, results, wire>>
    BY <1>2 DEF Check, RetryCheck, CloseRecovery, OpenRecovery
  <2>2. /\ transient' \in {transient, "pending"} /\ errors' \in {errors, {}}
        /\ surface' \in {surface, "none", "modal", "inline"}
    BY <1>2 DEF Check, RetryCheck, CloseRecovery, OpenRecovery, Ask
  <2> QED BY <1>1, <2>1, <2>2 DEF ResultsInv, Shown
<1>3. ASSUME NEW a \in Attempts, Unsupported(a) \/ Deadline(a) PROVE ResultsInv'
  BY <1>1, <1>3 DEF Unsupported, Deadline, ResultsInv, Shown, Fatal
<1>4. ASSUME clock < MaxClock, clock' = clock + 1
      PROVE  /\ clock' \in 0..MaxClock /\ 0..clock \subseteq 0..clock'
             /\ \A s : s \in Seq(0..clock) => s \in Seq(0..clock')
             /\ stored \in [Docs -> 0..clock'] /\ shown \in [Docs -> 0..clock']
             /\ opt \in [Docs -> 0..clock'] /\ puts \in [Docs -> SUBSET (0..clock')]
             /\ stream \in [Docs -> Seq(0..clock')]
             /\ fetch \in [Docs -> [step : {"asked", "answered", "over"}, value : 0..clock']]
  <2>1. clock' \in 0..MaxClock /\ 0..clock \subseteq 0..clock'
    BY <1>4 DEF ResultsInv
  <2>2. \A s : s \in Seq(0..clock) => s \in Seq(0..clock')
    BY <1>4, SeqGrows DEF ResultsInv
  <2>3. stream \in [Docs -> Seq(0..clock')]
    BY <2>2 DEF ResultsInv
  <2>4. fetch \in [Docs -> [step : {"asked", "answered", "over"}, value : 0..clock']]
    <3>1. \A d \in Docs : fetch[d] \in [step : {"asked", "answered", "over"}, value : 0..clock']
      BY <2>1 DEF ResultsInv
    <3> QED BY <3>1 DEF ResultsInv
  <2> QED BY <2>1, <2>2, <2>3, <2>4 DEF ResultsInv
<1>5. ASSUME NEW a \in Attempts, Settle(a) PROVE ResultsInv'
  <2>1. CASE \E ok \in SUBSET Docs, failed \in SUBSET Docs : Apply(a, ok, failed)
    <3>1. PICK ok \in SUBSET Docs, failed \in SUBSET Docs : Apply(a, ok, failed)
      BY <2>1
    <3>2. /\ clock < MaxClock /\ clock' = clock + 1 /\ UNCHANGED <<stored, fetch, live, stream, known>>
          /\ transient' \in Shown /\ errors' \subseteq Docs
      BY <3>1 DEF Apply, Shown
    <3>3. clock' \in 0..clock'
      BY <1>4, <3>2
    <3>4. shown' \in [Docs -> 0..clock'] /\ opt' \in [Docs -> 0..clock']
      BY <1>4, <3>1, <3>2, <3>3 DEF Apply
    <3>5. puts' \in [Docs -> SUBSET (0..clock')]
      BY <1>4, <3>1, <3>2, <3>3 DEF Apply
    <3>6. \A d \in Docs : ~known[d] => shown'[d] = opt'[d]
      BY <3>1 DEF Apply, ResultsInv
    <3>7. surface' = surface
      BY <1>5, SettleFacts
    <3> QED BY <1>4, <3>2, <3>4, <3>5, <3>6, <3>7 DEF ResultsInv
  <2>2. CASE /\ UNCHANGED <<clock, results, wire, applied>>
             /\ \/ attempt[a].late /\ UNCHANGED <<transient, errors>>
                \/ ~attempt[a].late /\ transient' \in Fatal /\ errors' = {}
    BY <1>1, <1>5, <2>2, SettleFacts DEF ResultsInv, Shown
  <2> QED BY <1>5, <2>1, <2>2, SettleFacts
<1>6. ASSUME NEW d \in Docs, NEW v \in 0..clock', Stores(d, v), clock <= clock', clock' \in Nat,
             stored \in [Docs -> 0..clock'], stream \in [Docs -> Seq(0..clock')]
      PROVE  stored' \in [Docs -> 0..clock'] /\ stream' \in [Docs -> Seq(0..clock')]
  <2>1. Append(stream[d], v) \in Seq(0..clock')
    BY <1>6
  <2> QED BY <1>6, <2>1 DEF Stores
<1>7. ASSUME NEW d \in Docs, Elsewhere(d) PROVE ResultsInv'
  <2>1. /\ clock < MaxClock /\ clock' = clock + 1 /\ Stores(d, clock')
        /\ UNCHANGED <<transient, errors, surface, shown, opt, known, fetch, live, puts>>
    BY <1>7 DEF Elsewhere, control, results
  <2>2. clock' \in 0..clock' /\ clock' \in Nat /\ clock <= clock'
    BY <1>4, <2>1 DEF ResultsInv
  <2>3. stored' \in [Docs -> 0..clock'] /\ stream' \in [Docs -> Seq(0..clock')]
    BY <1>4, <1>6, <2>1, <2>2
  <2> QED BY <1>4, <2>1, <2>3 DEF ResultsInv
<1>8. ASSUME NEW d \in Docs, NEW v \in puts[d], Put(d, v) PROVE ResultsInv'
  <2>1. /\ UNCHANGED <<clock, transient, errors, surface, shown, opt, known, fetch, live>>
        /\ v \in 0..clock /\ puts' \in [Docs -> SUBSET (0..clock)]
    BY <1>8 DEF Put, control, results, ResultsInv
  <2>2. stored' \in [Docs -> 0..clock] /\ stream' \in [Docs -> Seq(0..clock)]
    <3>1. CASE Stores(d, v)
      <4>1. /\ clock' = clock /\ clock' \in Nat /\ v \in 0..clock' /\ clock <= clock'
            /\ stored \in [Docs -> 0..clock'] /\ stream \in [Docs -> Seq(0..clock')]
        BY <2>1 DEF ResultsInv
      <4>2. stored' \in [Docs -> 0..clock'] /\ stream' \in [Docs -> Seq(0..clock')]
        BY <1>6, <3>1, <4>1
      <4> QED BY <4>1, <4>2
    <3>2. CASE UNCHANGED <<stored, stream>>
      BY <3>2 DEF ResultsInv
    <3> QED BY <1>8, <3>1, <3>2 DEF Put
  <2> QED BY <2>1, <2>2 DEF ResultsInv
<1>9. ASSUME NEW d \in Docs, Read(d) PROVE ResultsInv'
  <2> DEFINE Fetch1 == [step : {"asked", "answered", "over"}, value : 0..clock]
  <2>1. fetch \in [Docs -> Fetch1] /\ fetch[d] \in Fetch1 /\ stored[d] \in 0..clock
    BY DEF ResultsInv
  <2>2. [step |-> "answered", value |-> stored[d]] \in Fetch1
    BY <2>1
  <2>3. [fetch[d] EXCEPT !.step = "over"] \in Fetch1
    BY <2>1
  <2>4. \/ fetch' = [fetch EXCEPT ![d] = [step |-> "answered", value |-> stored[d]]]
        \/ fetch' = [fetch EXCEPT ![d] = [fetch[d] EXCEPT !.step = "over"]]
    BY <1>9 DEF Read
  <2> HIDE DEF Fetch1
  <2>5. fetch' \in [Docs -> Fetch1]
    BY <2>1, <2>2, <2>3, <2>4
  <2> QED BY <1>9, <2>5 DEF Read, control, results, ResultsInv, Fetch1
<1>10. ASSUME NEW d \in Docs, NEW v \in 0..clock, Delivered(d, v)
       PROVE  /\ known' \in [Docs -> BOOLEAN] /\ shown' \in [Docs -> 0..clock]
              /\ opt' \in [Docs -> 0..clock] /\ puts' \in [Docs -> SUBSET (0..clock)]
              /\ \A e \in Docs : ~known'[e] => shown'[e] = opt'[e]
  BY <1>10 DEF Delivered, ResultsInv
<1>11. ASSUME NEW d \in Docs, ReadDone(d) PROVE ResultsInv'
  <2>1. fetch' \in [Docs -> [step : {"asked", "answered", "over"}, value : 0..clock]]
        /\ fetch[d].value \in 0..clock
    <3>1. [step |-> "over", value |-> 0] \in [step : {"asked", "answered", "over"}, value : 0..clock]
      BY DEF ResultsInv
    <3> QED BY <1>11, <3>1 DEF ReadDone, ResultsInv
  <2>2. CASE live[d]
    BY <1>11, <2>1, <2>2 DEF ReadDone, ResultsInv, results, control
  <2>3. CASE ~live[d]
    BY <1>10, <1>11, <2>1, <2>3 DEF ReadDone, ResultsInv, control
  <2> QED BY <2>2, <2>3
<1>12. ASSUME NEW d \in Docs, Event(d) PROVE ResultsInv'
  <2>1. /\ Head(stream[d]) \in 0..clock /\ stream' \in [Docs -> Seq(0..clock)]
        /\ live' \in [Docs -> BOOLEAN]
    <3>1. stream[d] \in Seq(0..clock) /\ stream[d] # << >>
      BY <1>12 DEF Event, ResultsInv
    <3>2. Head(stream[d]) \in 0..clock /\ Tail(stream[d]) \in Seq(0..clock)
      BY <3>1, HeadAndTail
    <3> QED BY <1>12, <3>2 DEF Event, ResultsInv
  <2> QED BY <1>10, <1>12, <2>1 DEF Event, ResultsInv, control
<1>13. CASE UNCHANGED checkVars
  BY <1>1, <1>13 DEF checkVars, control, ResultsInv
<1> QED BY <1>2, <1>3, <1>5, <1>7, <1>8, <1>9, <1>11, <1>12, <1>13 DEF CheckNext

LEMMA CheckInductive == CheckInv /\ [CheckNext]_checkVars => CheckInv'
  BY AttemptsStep, ResultsStep DEF CheckInv

\* A late result is applied under its own attempt alone (check-model.ts:37): none
\* after that of a newer attempt, none twice, none while a newer one is pending.
THEOREM ResultsInOrder == CheckSpec => []AttemptsInOrder
<1>1. ASSUME CheckInv PROVE AttemptsInOrder
  <2>1. CheckTypeOK
    <3>1. clock \in 0..MaxClock + 1
      BY <1>1, PassportAssumption DEF CheckInv, ResultsInv
    <3> QED BY <1>1, <3>1 DEF CheckInv, AttemptsInv, ResultsInv, CheckTypeOK, Shown
  <2>2. ASSUME transient = "pending", NEW i \in DOMAIN applied PROVE applied[i] < latest
    <3>1. /\ applied[i] <= latest /\ applied[i] # latest
          /\ applied[i] \in Nat /\ latest \in Nat
      BY <1>1, <2>2, PassportAssumption DEF CheckInv, AttemptsInv, Attempts
    <3> QED BY <3>1
  <2> QED BY <1>1, <2>1, <2>2 DEF AttemptsInOrder, CheckInv, AttemptsInv
<1> QED BY <1>1, CheckInitial, CheckInductive, PTL DEF CheckSpec

\* The first value from the server gives way to a result that was observed while
\* the page waited for it (check-model.ts:357).
THEOREM HydrationKeepsResults == CheckSpec => HydrationKeeps
<1> DEFINE Keeps == \A d \in Docs : known'[d] /\ ~known[d] => shown'[d] >= shown[d]
<1>1. ASSUME CheckInv, [CheckNext]_checkVars PROVE [Keeps]_checkVars
  <2>1. ASSUME NEW d \in Docs, NEW v \in 0..clock, Delivered(d, v) PROVE Keeps
    <3>1. /\ \A e \in Docs : e # d => known'[e] = known[e]
          /\ ~known[d] => shown[d] = opt[d] /\ shown'[d] \in {shown[d], v}
                          /\ (shown'[d] = v => shown[d] = 0 \/ shown[d] = v)
      BY <1>1, <2>1 DEF Delivered, CheckInv, ResultsInv
    <3>2. shown[d] \in Nat /\ v \in Nat
      BY <1>1 DEF CheckInv, ResultsInv
    <3> QED BY <3>1, <3>2
  <2>2. ASSUME UNCHANGED known PROVE Keeps
    BY <2>2
  <2>3. ASSUME NEW d \in Docs, ReadDone(d) PROVE Keeps
    <3>1. fetch[d].value \in 0..clock
      BY <1>1 DEF CheckInv, ResultsInv
    <3> QED BY <2>1, <2>2, <2>3, <3>1 DEF ReadDone, results
  <2>4. ASSUME NEW d \in Docs, Event(d) PROVE Keeps
    <3>1. stream[d] \in Seq(0..clock) /\ stream[d] # << >>
      BY <1>1, <2>4 DEF Event, CheckInv, ResultsInv
    <3>2. Head(stream[d]) \in 0..clock
      BY <3>1, HeadAndTail
    <3> QED BY <2>1, <2>4, <3>2 DEF Event
  <2>5. ASSUME NEW a \in Attempts, Settle(a) PROVE UNCHANGED known
    BY <2>5, SettleFacts DEF Apply, results
  <2>6. CASE \/ Check \/ RetryCheck \/ CloseRecovery
             \/ \E s \in {"modal", "inline"} : OpenRecovery(s)
             \/ \E a \in Attempts : Unsupported(a) \/ Deadline(a)
             \/ \E d \in Docs : Elsewhere(d) \/ Read(d) \/ \E v \in puts[d] : Put(d, v)
             \/ UNCHANGED checkVars
    <3>1. UNCHANGED known
      BY <2>6 DEF Check, RetryCheck, CloseRecovery, OpenRecovery, Unsupported, Deadline, Elsewhere,
                  Read, Put, results, checkVars
    <3> QED BY <2>2, <3>1
  <2> HIDE DEF Keeps
  <2> QED BY <1>1, <2>2, <2>3, <2>4, <2>5, <2>6 DEF CheckNext
<1>2. CheckInv /\ [CheckNext]_checkVars => [Keeps]_checkVars
  BY <1>1
<1> QED BY <1>2, CheckInitial, CheckInductive, PTL DEF CheckSpec, HydrationKeeps

-----------------------------------------------------------------------------
(* JoinDevice: overlapping polls that see the approval lead to one claim.  *)
(* The names of its variables that the argument needs are these.           *)

joinMode == x01
claiming == x04
ticks    == x05
polling  == x06
joinCall == x09
joinCookie == x10

JoinModes   == {"choose", "scanning", "manual", "registering", "waiting", "done", "rejected"}
JoinSteps   == {"idle", "init", "stage", "options", "ceremony", "verify", "status", "claim"}
JoinAnswers == {"ok", "refused", "lost", "denied", "approved", "pending", None}
JoinCalls   == [step : JoinSteps, code : Codes \cup {None}, answer : JoinAnswers]

\* The browser's side, and the server's (live, device and tickets).
JoinBrowserOK ==
  /\ joinMode \in JoinModes /\ ticks \in 0..MaxTicks + 1 /\ joinCookie \in Codes \cup {None}
  /\ x03 \in Codes \cup {None}
  /\ x02 \in BOOLEAN /\ claiming \in BOOLEAN /\ polling \in BOOLEAN
  /\ x07 \in BOOLEAN /\ x08 \in BOOLEAN /\ x11 \in BOOLEAN
  /\ polling => ticks <= MaxTicks

JoinServerOK ==
  /\ x12 \subseteq Codes /\ x14 \subseteq Codes
  /\ x13 \in [Codes -> {"none", "pending", "active", "gone"}]

\* A claim is in flight only while the guard is set, and only one.
ClaimGuarded ==
  /\ \A i, j \in Join!Slots : joinCall[i].step = "claim" /\ joinCall[j].step = "claim" => i = j
  /\ \A i \in Join!Slots : joinCall[i].step = "claim" => claiming = TRUE

JoinInv ==
  /\ JoinBrowserOK /\ JoinServerOK
  /\ joinCall \in [Join!Slots -> JoinCalls]
  /\ ClaimGuarded

LEMMA PartsBounds ==
  /\ MaxTicks \in Nat /\ MaxEvents \in Nat \ {0} /\ MaxCalls \in Nat
  /\ MaxWeek \in Nat /\ MaxComments \in Nat
BY PartsAssumption

LEMMA JoinCallFacts ==
  ASSUME joinCall \in [Join!Slots -> JoinCalls], NEW i \in Join!Slots
  PROVE  /\ \A s \in JoinSteps, c \in Codes \cup {None} : Join!Send(i, s, c) =>
              /\ joinCall' \in [Join!Slots -> JoinCalls] /\ joinCall'[i].step = s
              /\ \A j \in Join!Slots : j # i => joinCall'[j] = joinCall[j]
         /\ \A a \in JoinAnswers : Join!Answer(i, a) =>
              /\ joinCall' \in [Join!Slots -> JoinCalls]
              /\ \A j \in Join!Slots : joinCall'[j].step = joinCall[j].step
         /\ Join!Ends(i) =>
              /\ joinCall' \in [Join!Slots -> JoinCalls] /\ joinCall'[i].step = "idle"
              /\ \A j \in Join!Slots : j # i => joinCall'[j] = joinCall[j]
<1> USE DEF joinCall
<1>1. ASSUME NEW s \in JoinSteps, NEW c \in Codes \cup {None}, Join!Send(i, s, c)
      PROVE  /\ joinCall' \in [Join!Slots -> JoinCalls] /\ joinCall'[i].step = s
             /\ \A j \in Join!Slots : j # i => joinCall'[j] = joinCall[j]
  <2> DEFINE new == [Join!Idle EXCEPT !.step = s, !.code = c]
  <2>1. new \in JoinCalls /\ new.step = s
    BY DEF Join!Idle, JoinCalls, JoinSteps, JoinAnswers
  <2>2. joinCall' = [joinCall EXCEPT ![i] = new]
    BY <1>1 DEF Join!Send
  <2> HIDE DEF new
  <2> QED BY <2>1, <2>2
<1>2. ASSUME NEW a \in JoinAnswers, Join!Answer(i, a)
      PROVE  /\ joinCall' \in [Join!Slots -> JoinCalls]
             /\ \A j \in Join!Slots : joinCall'[j].step = joinCall[j].step
  <2> DEFINE new == [joinCall[i] EXCEPT !.answer = a]
  <2>1. new \in JoinCalls /\ new.step = joinCall[i].step
    <3>1. joinCall[i] \in JoinCalls
      OBVIOUS
    <3> QED BY <3>1 DEF JoinCalls
  <2>2. joinCall' = [joinCall EXCEPT ![i] = new]
    BY <1>2 DEF Join!Answer
  <2> HIDE DEF new
  <2> QED BY <2>1, <2>2
<1>3. ASSUME Join!Ends(i)
      PROVE  /\ joinCall' \in [Join!Slots -> JoinCalls] /\ joinCall'[i].step = "idle"
             /\ \A j \in Join!Slots : j # i => joinCall'[j] = joinCall[j]
  <2>1. Join!Idle \in JoinCalls /\ Join!Idle.step = "idle"
    BY DEF Join!Idle, JoinCalls, JoinSteps, JoinAnswers
  <2> QED BY <1>3, <2>1 DEF Join!Ends
<1> QED BY <1>1, <1>2, <1>3

\* What Show leaves behind, whatever screen it opens.
LEMMA ShowFacts ==
  ASSUME JoinBrowserOK, NEW m \in JoinModes, Join!Show(m)
  PROVE  /\ joinMode' \in JoinModes /\ ticks' \in 0..MaxTicks + 1
         /\ polling' \in BOOLEAN /\ (polling' => ticks' <= MaxTicks)
BY PartsBounds DEF JoinBrowserOK, JoinModes, Join!Show, joinMode, polling, ticks

\* A call that is in no claim's way.
LEMMA NoNewClaim ==
  ASSUME ClaimGuarded, NEW i \in Join!Slots,
         \A j \in Join!Slots : j # i => joinCall'[j].step = joinCall[j].step,
         joinCall'[i].step # "claim", claiming' = claiming
  PROVE  ClaimGuarded'
BY DEF ClaimGuarded

LEMMA JoinInitial == Join!Init => JoinInv
<1> SUFFICES ASSUME Join!Init PROVE JoinInv
  OBVIOUS
<1> USE DEF joinCall, joinMode, claiming, ticks, polling, joinCookie
<1>1. JoinBrowserOK
  <2>1. /\ x02 = FALSE /\ x04 = FALSE /\ x06 = FALSE /\ x08 = TRUE /\ x11 = FALSE
        /\ x05 = 0 /\ x10 = None
        /\ x03 \in Codes \cup {None} /\ x01 \in {"registering", "scanning", "choose"}
    BY DEF Join!Init
  <2>2. x07 \in BOOLEAN
    BY DEF Join!Init
  <2>3. joinMode \in JoinModes
    BY <2>1 DEF JoinModes
  <2>4. ticks \in 0..MaxTicks + 1
    BY <2>1, PartsBounds
  <2>5. polling => ticks <= MaxTicks
    BY <2>1
  <2>6. joinCookie \in Codes \cup {None}
    BY <2>1
  <2>7. x02 \in BOOLEAN /\ claiming \in BOOLEAN /\ polling \in BOOLEAN /\ x08 \in BOOLEAN /\ x11 \in BOOLEAN
    BY <2>1
  <2> QED BY <2>1, <2>2, <2>3, <2>4, <2>5, <2>6, <2>7 DEF JoinBrowserOK
<1>2. JoinServerOK
  BY DEF Join!Init, JoinServerOK
<1>3. \A c \in Codes \cup {None} :
         /\ Join!Idle \in JoinCalls /\ Join!Idle.step = "idle"
         /\ [Join!Idle EXCEPT !.step = "init", !.code = c] \in JoinCalls
         /\ [Join!Idle EXCEPT !.step = "init", !.code = c].step = "init"
  BY DEF Join!Idle, JoinCalls, JoinSteps, JoinAnswers
<1>4. PICK c \in Codes \cup {None} :
        x09 = [i \in Join!Slots |-> IF c # None /\ i = 1
                                   THEN [Join!Idle EXCEPT !.step = "init", !.code = c]
                                   ELSE Join!Idle]
  BY DEF Join!Init
<1>5. joinCall \in [Join!Slots -> JoinCalls] /\ \A i \in Join!Slots : joinCall[i].step # "claim"
  BY <1>3, <1>4
<1> QED BY <1>1, <1>2, <1>5 DEF JoinInv, ClaimGuarded

\* The user, the poller and the owner: none of them claims.
LEMMA JoinUserStep ==
  ASSUME JoinInv, Join!User \/ Join!Tick \/ Join!Owner
  PROVE  JoinInv'
<1> USE DEF joinCall, joinMode, claiming, ticks, polling, joinCookie
<1> DEFINE Sends(i, s, c) == Join!Send(i, s, c) /\ x04' = x04
           Calls == joinCall' \in [Join!Slots -> JoinCalls] /\ ClaimGuarded'
<1>1. ASSUME NEW i \in Join!Slots, NEW s \in JoinSteps \ {"claim"}, NEW c \in Codes \cup {None},
             Sends(i, s, c)
      PROVE  Calls
  BY <1>1, JoinCallFacts, NoNewClaim DEF JoinInv
<1>2. ASSUME UNCHANGED <<x09, x04>> PROVE Calls
  BY <1>2 DEF JoinInv, ClaimGuarded
<1>3. \A i \in Join!Free : i \in Join!Slots
  BY DEF Join!Free
<1>4. "stage" \in JoinSteps /\ "options" \in JoinSteps /\ "status" \in JoinSteps
  BY DEF JoinSteps
<1>5. CASE Join!GoToScan \/ Join!GoToChoose \/ Join!CameraError
  <2>1. JoinBrowserOK'
    <3>1. CASE Join!CameraError
      BY <3>1 DEF Join!CameraError, JoinInv, JoinBrowserOK
    <3>2. ASSUME NEW m \in {"scanning", "choose"}, Join!Show(m), x02' = FALSE,
                 UNCHANGED <<x03, x04, x07, x08, x10, x11>>
          PROVE  JoinBrowserOK'
      BY <3>2, ShowFacts DEF JoinInv, JoinBrowserOK, JoinModes
    <3> QED BY <1>5, <3>1, <3>2 DEF Join!GoToScan, Join!GoToChoose
  <2>2. JoinServerOK' /\ Calls
    BY <1>2, <1>5 DEF Join!GoToScan, Join!GoToChoose, Join!CameraError, JoinInv, JoinServerOK,
                      Join!server
  <2> QED BY <2>1, <2>2 DEF JoinInv
<1>6. CASE Join!LeaveScreen
  <2>1. JoinBrowserOK' /\ JoinServerOK'
    BY <1>6 DEF Join!LeaveScreen, JoinInv, JoinBrowserOK, JoinServerOK, Join!server
  <2>2. Join!Idle \in JoinCalls /\ Join!Idle.step = "idle"
    BY DEF Join!Idle, JoinCalls, JoinSteps, JoinAnswers
  <2>3. Calls
    BY <1>6, <2>2 DEF Join!LeaveScreen, ClaimGuarded
  <2> QED BY <2>1, <2>3 DEF JoinInv
<1>7. CASE Join!CreatePasskey
  <2>1. JoinBrowserOK'
    BY <1>7, ShowFacts DEF Join!CreatePasskey, JoinInv, JoinBrowserOK, JoinModes
  <2>2. JoinServerOK'
    BY <1>7 DEF Join!CreatePasskey, JoinInv, JoinServerOK, Join!server
  <2>3. Calls
    <3>1. x03 \in Codes \cup {None}
      BY DEF JoinInv, JoinBrowserOK
    <3> HIDE DEF Calls
    <3> QED BY <1>1, <1>2, <1>3, <1>4, <1>7, <3>1 DEF Join!CreatePasskey
  <2> QED BY <2>1, <2>2, <2>3 DEF JoinInv
<1>8. ASSUME NEW c \in Codes, Join!Decode(c) PROVE JoinInv'
  <2>1. JoinBrowserOK' /\ JoinServerOK'
    BY <1>8 DEF Join!Decode, JoinInv, JoinBrowserOK, JoinServerOK, Join!server
  <2>2. Calls
    <3> HIDE DEF Calls
    <3> QED BY <1>1, <1>3, <1>4, <1>8 DEF Join!Decode
  <2> QED BY <2>1, <2>2 DEF JoinInv
<1>9. ASSUME NEW c \in Codes \cup {None}, Join!SubmitManual(c) PROVE JoinInv'
  <2>1. JoinBrowserOK' /\ JoinServerOK'
    BY <1>9 DEF Join!SubmitManual, JoinInv, JoinBrowserOK, JoinServerOK, Join!server
  <2>2. Calls
    <3> HIDE DEF Calls
    <3> QED BY <1>1, <1>2, <1>3, <1>4, <1>9 DEF Join!SubmitManual
  <2> QED BY <2>1, <2>2 DEF JoinInv
<1>10. CASE Join!Tick
  <2>1. JoinBrowserOK'
    <3>1. /\ x05' = x05 + 1 /\ UNCHANGED <<x01, x03, x04, x07, x08, x10, x11>>
          /\ \/ x05' > MaxTicks /\ x06' = FALSE /\ x02' = TRUE
             \/ ~(x05' > MaxTicks) /\ UNCHANGED <<x06, x02>>
      BY <1>10 DEF Join!Tick
    <3>2. x05 \in Nat /\ x05 <= MaxTicks
      BY <1>10, PartsBounds DEF Join!Tick, JoinInv, JoinBrowserOK
    <3>3. x05' \in 0..MaxTicks + 1 /\ (x06' => x05' <= MaxTicks)
      BY <3>1, <3>2, PartsBounds
    <3> QED BY <3>1, <3>3 DEF JoinInv, JoinBrowserOK
  <2>2. JoinServerOK'
    BY <1>10 DEF Join!Tick, JoinInv, JoinServerOK, Join!server
  <2>3. Calls
    <3>1. x10 \in Codes \cup {None}
      BY DEF JoinInv, JoinBrowserOK
    <3> HIDE DEF Calls
    <3> QED BY <1>1, <1>2, <1>3, <1>4, <1>10, <3>1 DEF Join!Tick
  <2> QED BY <2>1, <2>2, <2>3 DEF JoinInv
<1>11. CASE Join!Owner
  <2>1. JoinBrowserOK' /\ Calls
    BY <1>2, <1>11 DEF Join!Owner, Join!Decide, Join!Expire, JoinInv, JoinBrowserOK, Join!browser
  <2>2. JoinServerOK'
    BY <1>11 DEF Join!Owner, Join!Decide, Join!Expire, JoinInv, JoinServerOK
  <2> QED BY <2>1, <2>2 DEF JoinInv
<1> QED BY <1>5, <1>6, <1>7, <1>8, <1>9, <1>10, <1>11 DEF Join!User


\* The server and the network answer a call, and leave its kind as it is.
LEMMA JoinAnswerStep ==
  ASSUME JoinInv, NEW i \in Join!Slots, Join!Serve(i) \/ Join!Lose(i)
  PROVE  JoinInv'
<1> USE DEF joinCall, joinMode, claiming, ticks, polling, joinCookie
<1>1. JoinBrowserOK'
  <2>1. UNCHANGED <<x01, x02, x03, x04, x05, x06, x07, x08, x10, x11>>
    BY DEF Join!Serve, Join!Lose, Join!browser
  <2> QED BY <2>1 DEF JoinInv, JoinBrowserOK
<1>2. joinCall[i] \in JoinCalls
  BY DEF JoinInv
<1>3. \A c \in Codes \cup {None} : Join!StatusOf(c) \in JoinAnswers
  BY DEF Join!StatusOf, JoinAnswers
<1>4. PICK a \in JoinAnswers : Join!Answer(i, a)
  <2>1. CASE Join!Lose(i)
    BY <2>1 DEF Join!Lose, JoinAnswers
  <2>2. CASE Join!Serve(i)
    <3>1. /\ joinCall[i].step \in JoinSteps /\ joinCall[i].step # "idle"
          /\ joinCall[i].code \in Codes \cup {None}
      BY <1>2, <2>2 DEF Join!Serve, JoinCalls
    <3>2. "ok" \in JoinAnswers /\ "refused" \in JoinAnswers
      BY DEF JoinAnswers
    <3> HIDE DEF joinCall
    <3>3. CASE joinCall[i].step \in {"init", "stage", "options"}
      BY <2>2, <3>2, <3>3 DEF Join!Serve, joinCall
    <3>4. CASE joinCall[i].step = "ceremony"
      BY <2>2, <3>2, <3>4 DEF Join!Serve, joinCall
    <3>5. CASE joinCall[i].step = "verify"
      BY <2>2, <3>2, <3>5 DEF Join!Serve, joinCall
    <3>6. CASE joinCall[i].step \in {"status", "claim"}
      BY <1>3, <2>2, <3>1, <3>6 DEF Join!Serve, joinCall
    <3> QED BY <3>1, <3>3, <3>4, <3>5, <3>6 DEF JoinSteps
  <2> QED BY <2>1, <2>2
<1>5. /\ joinCall' \in [Join!Slots -> JoinCalls]
      /\ \A j \in Join!Slots : joinCall'[j].step = joinCall[j].step
  <2> HIDE DEF joinCall
  <2> QED BY <1>4, JoinCallFacts DEF JoinInv
<1>6. ClaimGuarded'
  <2>1. x04' = x04
    BY DEF Join!Serve, Join!Lose, Join!browser
  <2> QED BY <1>5, <2>1 DEF JoinInv, ClaimGuarded
<1>7. JoinServerOK'
  <2>1. CASE UNCHANGED <<x12, x13, x14>>
    BY <2>1 DEF JoinInv, JoinServerOK
  <2>2. ASSUME NEW c \in Codes, x12' = x12 \ {c}, x14' = x14 \cup {c},
               x13' = [x13 EXCEPT ![c] = "pending"]
        PROVE  JoinServerOK'
    BY <2>2 DEF JoinInv, JoinServerOK
  <2>3. ASSUME UNCHANGED <<x12, x13>>, x14' \subseteq x14 PROVE JoinServerOK'
    BY <2>3 DEF JoinInv, JoinServerOK
  <2>4. CASE Join!Lose(i)
    BY <2>1, <2>4 DEF Join!Lose, Join!server
  <2>5. CASE Join!Serve(i) /\ joinCall[i].step = "verify" /\ joinCall[i].code \in x12
    BY <2>2, <2>5 DEF Join!Serve, JoinInv, JoinServerOK
  <2>6. CASE Join!Serve(i) /\ joinCall[i].step = "claim"
    BY <2>3, <2>6 DEF Join!Serve
  <2>7. CASE Join!Serve(i) /\ ~(joinCall[i].step = "verify" /\ joinCall[i].code \in x12)
                          /\ joinCall[i].step # "claim"
    <3>1. joinCall[i].step \in JoinSteps
      BY <1>2 DEF JoinCalls
    <3> QED BY <2>1, <2>7, <3>1 DEF Join!Serve, Join!server, JoinSteps
  <2> QED BY <2>4, <2>5, <2>6, <2>7
<1> QED BY <1>1, <1>5, <1>6, <1>7 DEF JoinInv

\* The continuations: a poll claims only while nothing is claimed.
LEMMA JoinDeliverStep ==
  ASSUME JoinInv, NEW i \in Join!Slots, Join!Deliver(i)
  PROVE  JoinInv'
<1> DEFINE Calls == joinCall' \in [Join!Slots -> JoinCalls] /\ ClaimGuarded'
<1>1. ASSUME Join!Ends(i), claiming' = claiming PROVE Calls
  BY <1>1, JoinCallFacts, NoNewClaim DEF JoinInv
<1>2. ASSUME NEW c \in Codes \cup {None}, Join!Send(i, "verify", c), claiming' = claiming PROVE Calls
  BY <1>2, JoinCallFacts, NoNewClaim DEF JoinInv, JoinSteps
<1>3. ASSUME NEW c \in Codes \cup {None}, Join!Send(i, "claim", c), ~claiming, claiming' = TRUE
      PROVE  Calls
  <2>1. /\ joinCall' \in [Join!Slots -> JoinCalls]
        /\ \A j \in Join!Slots : j # i => joinCall'[j] = joinCall[j]
    BY <1>3, JoinCallFacts DEF JoinInv, JoinSteps
  <2>2. \A j \in Join!Slots : joinCall[j].step # "claim"
    BY <1>3 DEF JoinInv, ClaimGuarded
  <2> QED BY <1>3, <2>1, <2>2 DEF ClaimGuarded
<1>4. ASSUME Join!Ends(i), joinCall[i].step = "claim" PROVE Calls
  <2>1. /\ joinCall' \in [Join!Slots -> JoinCalls] /\ joinCall'[i].step = "idle"
        /\ \A j \in Join!Slots : j # i => joinCall'[j] = joinCall[j]
    BY <1>4, JoinCallFacts DEF JoinInv
  <2>2. \A j \in Join!Slots : joinCall'[j].step # "claim"
    BY <1>4, <2>1 DEF JoinInv, ClaimGuarded
  <2> QED BY <2>1, <2>2 DEF ClaimGuarded
<1>5. joinCall[i] \in JoinCalls /\ joinCall[i].code \in Codes \cup {None}
  BY DEF JoinInv, JoinCalls
<1>6. x10 \in Codes \cup {None} /\ x01 \in JoinModes
  BY DEF JoinInv, JoinBrowserOK, joinMode, joinCookie
<1> HIDE DEF Calls
<1>7. ASSUME NEW m \in JoinModes, Join!Show(m), x02' \in BOOLEAN, x04' \in BOOLEAN,
             x08' \in BOOLEAN, x11' \in BOOLEAN, x10' \in Codes \cup {None},
             UNCHANGED <<x03, x07>>
      PROVE  JoinBrowserOK'
  BY <1>7, ShowFacts DEF JoinInv, JoinBrowserOK, joinMode, claiming, ticks, polling, joinCookie
<1>8. ASSUME UNCHANGED <<x01, x05, x06>>, x02' \in BOOLEAN, UNCHANGED <<x03, x04, x07, x08, x10, x11>>
      PROVE  JoinBrowserOK'
  BY <1>8 DEF JoinInv, JoinBrowserOK, joinMode, claiming, ticks, polling, joinCookie
<1>9. ASSUME NEW m \in JoinModes, Join!Fails(i, m), UNCHANGED <<x03, x07>>
      PROVE  JoinBrowserOK' /\ Calls
  <2>1. /\ Join!Ends(i) /\ x04' = x04
        /\ Join!Show(m) /\ x02' = TRUE /\ UNCHANGED <<x08, x10, x11>>
    BY <1>9 DEF Join!Fails
  <2>2. x04 \in BOOLEAN /\ x08 \in BOOLEAN /\ x11 \in BOOLEAN
    BY DEF JoinInv, JoinBrowserOK, claiming
  <2> QED BY <1>1, <1>6, <1>7, <1>9, <2>1, <2>2 DEF claiming
<1>10. /\ "manual" \in JoinModes /\ "registering" \in JoinModes /\ "waiting" \in JoinModes
       /\ "rejected" \in JoinModes /\ "done" \in JoinModes
  BY DEF JoinModes
<1>11. /\ x02 \in BOOLEAN /\ x04 \in BOOLEAN /\ x08 \in BOOLEAN /\ x11 \in BOOLEAN
  BY DEF JoinInv, JoinBrowserOK, claiming
<1>12. JoinServerOK'
  <2>1. UNCHANGED <<x12, x13, x14>>
    BY DEF Join!Deliver, Join!StageDone, Join!OptionsDone, Join!CeremonyDone, Join!VerifyDone,
           Join!StatusDone, Join!ClaimDone, Join!server
  <2> QED BY <2>1 DEF JoinInv, JoinServerOK
<1>13. ASSUME NEW m \in JoinModes, Join!Fails(i, m), UNCHANGED <<x03, x07>> PROVE JoinInv'
  BY <1>9, <1>12, <1>13 DEF JoinInv, Calls
<1>14. CASE Join!StageDone(i)
  <2>1. \/ Join!Fails(i, "manual")
        \/ Join!Ends(i) /\ Join!Show("registering") /\ UNCHANGED <<x02, x04, x10, x11, x08>>
    BY <1>14 DEF Join!StageDone
  <2>2. UNCHANGED <<x03, x07>>
    BY <1>14 DEF Join!StageDone
  <2>3. CASE Join!Ends(i) /\ Join!Show("registering") /\ UNCHANGED <<x02, x04, x10, x11, x08>>
    <3>1. JoinBrowserOK'
      BY <1>6, <1>7, <1>10, <1>11, <2>2, <2>3
    <3>2. Calls
      BY <1>1, <2>3 DEF claiming
    <3> QED BY <1>12, <3>1, <3>2 DEF JoinInv, Calls
  <2> QED BY <1>10, <1>13, <2>1, <2>2, <2>3
<1>15. CASE Join!OptionsDone(i)
  <2> DEFINE new == [Join!Idle EXCEPT !.step = "ceremony", !.code = x09[i].code]
             old(j) == [x09[j] EXCEPT !.answer = "refused"]
  <2>1. UNCHANGED <<x03, x07>>
    BY <1>15 DEF Join!OptionsDone
  <2>2. CASE x09[i].answer # "ok"
    <3>1. Join!Fails(i, "manual")
      BY <1>15, <2>2 DEF Join!OptionsDone
    <3> QED BY <1>10, <1>13, <2>1, <3>1
  <2>3. CASE x09[i].answer = "ok"
    <3>1. /\ Join!Show("registering") /\ UNCHANGED <<x02, x04, x10, x11, x08>>
          /\ x09' = [j \in Join!Slots |->
                        IF j = i THEN new
                        ELSE IF x09[j].step = "ceremony" /\ x09[j].answer = None THEN old(j)
                        ELSE x09[j]]
      BY <1>15, <2>3 DEF Join!OptionsDone
    <3>2. JoinBrowserOK'
      BY <1>6, <1>7, <1>10, <1>11, <2>1, <3>1
    <3>3. new \in JoinCalls /\ new.step = "ceremony"
      BY <1>5 DEF Join!Idle, JoinCalls, JoinSteps, JoinAnswers, joinCall
    <3>4. \A j \in Join!Slots : old(j) \in JoinCalls /\ old(j).step = x09[j].step
      <4>1. SUFFICES ASSUME NEW j \in Join!Slots
                     PROVE  old(j) \in JoinCalls /\ old(j).step = x09[j].step
        OBVIOUS
      <4>2. x09[j] \in JoinCalls
        BY DEF JoinInv, joinCall
      <4> QED BY <4>2 DEF JoinCalls, JoinAnswers
    <3> HIDE DEF new, old
    <3>5. x09 \in [Join!Slots -> JoinCalls] /\ x04' = x04
      BY <3>1 DEF JoinInv, joinCall
    <3>6. joinCall' \in [Join!Slots -> JoinCalls]
      BY <3>1, <3>3, <3>4, <3>5 DEF joinCall
    <3>7. \A j \in Join!Slots : joinCall'[j].step = "claim" =>
             j # i /\ joinCall[j].step = "claim"
      BY <3>1, <3>3, <3>4 DEF joinCall
    <3>8. ClaimGuarded'
      BY <3>5, <3>7 DEF JoinInv, ClaimGuarded, claiming
    <3> QED BY <1>12, <3>2, <3>6, <3>8 DEF JoinInv
  <2> QED BY <2>2, <2>3
<1>16. CASE Join!CeremonyDone(i)
  <2>1. UNCHANGED <<x03, x07>>
    BY <1>16 DEF Join!CeremonyDone
  <2>2. \/ Join!Fails(i, x01)
        \/ /\ Join!Send(i, "verify", x09[i].code)
           /\ UNCHANGED <<x01, x05, x06, x02, x04, x10, x11, x08>>
    BY <1>16 DEF Join!CeremonyDone
  <2>3. CASE /\ Join!Send(i, "verify", x09[i].code)
             /\ UNCHANGED <<x01, x05, x06, x02, x04, x10, x11, x08>>
    <3>1. JoinBrowserOK'
      BY <1>8, <1>11, <2>1, <2>3
    <3>2. Calls
      BY <1>2, <1>5, <2>3 DEF claiming, joinCall
    <3> QED BY <1>12, <3>1, <3>2 DEF JoinInv, Calls
  <2> QED BY <1>6, <1>13, <2>1, <2>2, <2>3
<1>17. CASE Join!VerifyDone(i)
  <2>1. UNCHANGED <<x03, x07>>
    BY <1>17 DEF Join!VerifyDone
  <2>2. \/ Join!Fails(i, x01)
        \/ /\ Join!Ends(i) /\ Join!Show("waiting") /\ x10' = x09[i].code
           /\ UNCHANGED <<x02, x04, x11, x08>>
    BY <1>17 DEF Join!VerifyDone
  <2>3. CASE /\ Join!Ends(i) /\ Join!Show("waiting") /\ x10' = x09[i].code
             /\ UNCHANGED <<x02, x04, x11, x08>>
    <3>1. JoinBrowserOK'
      BY <1>5, <1>7, <1>10, <1>11, <2>1, <2>3 DEF joinCall
    <3>2. Calls
      BY <1>1, <2>3 DEF claiming
    <3> QED BY <1>12, <3>1, <3>2 DEF JoinInv, Calls
  <2> QED BY <1>6, <1>13, <2>1, <2>2, <2>3
<1>18. CASE Join!StatusDone(i)
  <2>1. UNCHANGED <<x03, x07>>
    BY <1>18 DEF Join!StatusDone
  <2>2. CASE Join!Fails(i, x01)
    BY <1>6, <1>13, <2>1, <2>2
  <2>3. CASE ~Join!Fails(i, x01)
    <3>1. /\ x02' = FALSE /\ UNCHANGED <<x10, x11, x08>>
          /\ \/ ~x04 /\ Join!Send(i, "claim", x10) /\ x04' = TRUE
             \/ Join!Ends(i) /\ x04' = x04
      BY <1>18, <2>3 DEF Join!StatusDone
    <3>2. PICK m \in JoinModes : Join!Show(m)
      BY <1>6, <1>10, <1>18, <2>3 DEF Join!StatusDone
    <3>3. JoinBrowserOK'
      BY <1>6, <1>7, <1>11, <2>1, <3>1, <3>2
    <3>4. Calls
      BY <1>1, <1>3, <1>6, <3>1 DEF claiming
    <3> QED BY <1>12, <3>3, <3>4 DEF JoinInv, Calls
  <2> QED BY <2>2, <2>3
<1>19. CASE Join!ClaimDone(i)
  <2>1. UNCHANGED <<x03, x07>> /\ Join!Ends(i) /\ x09[i].step = "claim"
    BY <1>19 DEF Join!ClaimDone, Join!Answered
  <2>2. /\ x04' \in BOOLEAN /\ x02' \in BOOLEAN /\ x11' \in BOOLEAN /\ x08' \in BOOLEAN
        /\ x10' \in Codes \cup {None}
    BY <1>6, <1>11, <1>19 DEF Join!ClaimDone
  <2>3. PICK m \in JoinModes : Join!Show(m)
    BY <1>6, <1>10, <1>19 DEF Join!ClaimDone
  <2>4. JoinBrowserOK'
    BY <1>7, <2>1, <2>2, <2>3
  <2>5. Calls
    BY <1>4, <2>1 DEF joinCall
  <2> QED BY <1>12, <2>4, <2>5 DEF JoinInv, Calls
<1> QED BY <1>14, <1>15, <1>16, <1>17, <1>18, <1>19 DEF Join!Deliver

LEMMA JoinInductive == JoinInv /\ [Join!Next]_shared => JoinInv'
<1>1. ASSUME JoinInv, UNCHANGED shared PROVE JoinInv'
  <2>1. UNCHANGED <<x01, x02, x03, x04, x05, x06, x07, x08, x09, x10, x11, x12, x13, x14>>
    BY <1>1 DEF shared, rest
  <2> QED BY <1>1, <2>1 DEF JoinInv, JoinBrowserOK, JoinServerOK, ClaimGuarded,
                            joinMode, claiming, ticks, polling, joinCall, joinCookie
<1>2. Join!Next <=> /\ x08
                    /\ Join!User \/ Join!Tick \/ Join!Owner
                       \/ \E i \in Join!Slots : Join!Serve(i) \/ Join!Lose(i) \/ Join!Deliver(i)
  BY DEF Join!Next
<1> QED BY <1>1, <1>2, JoinUserStep, JoinAnswerStep, JoinDeliverStep

LEMMA JoinInvImplies == JoinInv => Join!OneClaim
<1> SUFFICES ASSUME JoinInv PROVE Join!OneClaim
  OBVIOUS
<1>1. \A i \in Join!InStep({"claim"}) : i \in Join!Slots /\ joinCall[i].step = "claim"
  BY DEF Join!InStep, joinCall
<1>2. Join!TypeOK
  <2>1. \A i \in Join!Slots : x09[i].code \in Codes \cup {None}
    BY DEF JoinInv, JoinCalls, joinCall
  <2> QED BY <2>1 DEF JoinInv, JoinBrowserOK, JoinServerOK, JoinModes, Join!TypeOK,
                      joinMode, claiming, ticks, polling, joinCookie
<1>3. \A i, j \in Join!InStep({"claim"}) : i = j
  BY <1>1 DEF JoinInv, ClaimGuarded
<1>4. Join!InStep({"claim"}) # {} => x04
  BY <1>1 DEF JoinInv, ClaimGuarded, claiming
<1> QED BY <1>2, <1>3, <1>4 DEF Join!OneClaim

\* Polls that overlap and all see the approval lead to one claim: the guard of
\* pollPendingStatus (add-device-model.ts) is set before the claim is sent, and
\* released when it has failed.
THEOREM ClaimsAreSingle == Spec => []OneClaim
<1> DEFINE I == part = "join" => JoinInv
<1>1. Init => I
  BY JoinInitial DEF Init
<1>2. I /\ [Next]_vars => I'
  <2>1. ASSUME I, Next, part = "join" PROVE JoinInv'
    BY <2>1, JoinInductive DEF Next
  <2>2. ASSUME I, UNCHANGED vars PROVE I'
    BY <2>2, JoinInductive DEF vars
  <2>3. Next => part' = part
    BY DEF Next
  <2> QED BY <2>1, <2>2, <2>3
<1>3. I => OneClaim
  BY JoinInvImplies DEF OneClaim
<1> QED BY <1>1, <1>2, <1>3, PTL DEF Spec

-----------------------------------------------------------------------------
(* CommentThread: rows on the screen are rows of the viewed week.          *)

onScreen   == x03
firstRead  == x04
heard      == x05     \* live: an event has overtaken the first read
threadNews    == x06
thread     == x07
threadErr  == x08
loadedFor  == x09

Written == [of : Thread!Weeks, n : 1..MaxComments]

ThreadTyped ==
  /\ x01 \in Thread!Weeks /\ x02 \in Thread!Weeks \cup {None}
  /\ onScreen \in BOOLEAN /\ heard \in BOOLEAN /\ threadErr \in BOOLEAN
  /\ firstRead.step \in {"asked", "answered", "failed", "over"}
  /\ firstRead.step = "answered" => firstRead.answer \in 0..MaxComments
  /\ threadNews \in Seq(0..MaxComments)
  /\ loadedFor \in Thread!Weeks \cup {None} /\ x10 \in Thread!Weeks \cup {None}
  /\ x11 \in [Thread!Weeks -> 0..MaxComments]

\* Rows are rows of the week that was loaded last.
LoadedIsKept ==
  thread = None \/ thread = Thread!Fallback \/ (thread \in Written /\ thread.of = loadedFor)

\* What an event or a first read left behind is of the week it was read for, or
\* is hidden behind the error that it left instead.
ShowsViewed == thread = None \/ thread = Thread!Fallback \/ thread.of = Thread!viewWeekStart

ReadsInTime ==
  heard = TRUE \/ (onScreen = TRUE /\ firstRead.step = "over")
    => ShowsViewed \/ (threadErr = TRUE /\ loadedFor # Thread!viewWeekStart)

ThreadInv == ThreadTyped /\ LoadedIsKept /\ ReadsInTime

LEMMA ViewedIsAWeek ==
  ThreadTyped => Thread!viewWeekStart \in Thread!Weeks /\ None \notin Thread!Weeks
<1>1. None \notin Thread!Weeks
  <2>1. None \notin Nat
    BY PartsAssumption
  <2> QED BY <2>1, PartsBounds DEF Thread!Weeks
<1> QED BY <1>1 DEF ThreadTyped, Thread!viewWeekStart

LEMMA ThreadInitial == Thread!Init => ThreadInv
<1> SUFFICES ASSUME Thread!Init PROVE ThreadInv
  OBVIOUS
<1> USE DEF Thread!Init, onScreen, firstRead, heard, threadNews, thread, threadErr, loadedFor
<1>1. x04.step = "over"
  BY DEF Thread!NoFetch
<1>2. 0 \in Thread!Weeks /\ 0 \in 0..MaxComments
  BY PartsBounds DEF Thread!Weeks
<1>3. << >> \in Seq(0..MaxComments)
  OBVIOUS
<1>4. ThreadTyped
  BY <1>1, <1>2, <1>3 DEF ThreadTyped
<1>5. LoadedIsKept /\ ReadsInTime
  BY DEF LoadedIsKept, ReadsInTime, ShowsViewed
<1> QED BY <1>4, <1>5 DEF ThreadInv

\* The reader turns the board, the week ends, the column comes and goes: the
\* subscription is replaced whenever the key it follows is another one.
LEMMA ThreadTurns ==
  ASSUME ThreadInv,
         x01' \in Thread!Weeks, x02' \in Thread!Weeks \cup {None}, x03' \in BOOLEAN,
         Thread!FollowKey, UNCHANGED <<x07, x08, x09, x10, x11>>
  PROVE  ThreadInv'
<1> USE DEF onScreen, firstRead, heard, threadNews, thread, threadErr, loadedFor
<1>1. << >> \in Seq(0..MaxComments)
  OBVIOUS
<1>2. \/ x04' = Thread!Asked /\ x05' = FALSE /\ x06' = << >>
      \/ x03' = FALSE /\ x04' = Thread!NoFetch /\ x05' = FALSE /\ x06' = << >>
      \/ x03' = TRUE /\ x03 = TRUE /\ Thread!viewWeekStart' = Thread!viewWeekStart
         /\ UNCHANGED <<x04, x05, x06>>
  BY DEF Thread!FollowKey, Thread!feed, ThreadInv, ThreadTyped
<1>3. Thread!Asked.step = "asked" /\ Thread!NoFetch.step = "over"
  BY DEF Thread!Asked, Thread!NoFetch
<1>4. ThreadTyped'
  BY <1>1, <1>2, <1>3 DEF ThreadInv, ThreadTyped
<1>5. LoadedIsKept'
  BY DEF ThreadInv, LoadedIsKept, Thread!Fallback
<1>6. ReadsInTime'
  <2>1. CASE x05' = FALSE /\ (x04'.step = "asked" \/ x03' = FALSE)
    BY <2>1 DEF ReadsInTime
  <2>2. CASE x03' = TRUE /\ x03 = TRUE /\ Thread!viewWeekStart' = Thread!viewWeekStart
              /\ UNCHANGED <<x04, x05, x06>>
    BY <2>2 DEF ThreadInv, ReadsInTime, ShowsViewed, Thread!Fallback
  <2> QED BY <1>2, <1>3, <2>1, <2>2
<1> QED BY <1>4, <1>5, <1>6 DEF ThreadInv

\* A comment grows the thread of its week, and may be seen here.
LEMMA ThreadGrows ==
  ASSUME ThreadInv, NEW w \in Thread!Weeks, Thread!Grows(w)
  PROVE  x11' \in [Thread!Weeks -> 0..MaxComments] /\ x06' \in Seq(0..MaxComments)
<1>1. /\ x11 \in [Thread!Weeks -> 0..MaxComments] /\ x06 \in Seq(0..MaxComments)
      /\ x11[w] < MaxComments /\ x11' = [x11 EXCEPT ![w] = x11[w] + 1]
      /\ x06' = x06 \/ x06' = Append(x06, x11'[w])
  BY DEF ThreadInv, ThreadTyped, Thread!Grows, threadNews
<1>2. x11[w] + 1 \in 0..MaxComments
  BY <1>1, PartsBounds
<1>3. x11' \in [Thread!Weeks -> 0..MaxComments] /\ x11'[w] \in 0..MaxComments
  BY <1>1, <1>2
<1>4. Append(x06, x11'[w]) \in Seq(0..MaxComments)
  BY <1>1, <1>3
<1> QED BY <1>1, <1>3, <1>4

\* The listener, on a value that was read for the viewed week.
LEMMA ListenFacts ==
  ASSUME ThreadInv, NEW n \in 0..MaxComments, Thread!Listen(n),
         UNCHANGED <<x01, x02>>
  PROVE  x08' = FALSE /\ x09' \in Thread!Weeks \cup {None} /\ LoadedIsKept' /\ ShowsViewed'
<1> USE DEF thread, loadedFor
<1> DEFINE v == Thread!viewWeekStart
<1>1. v \in Thread!Weeks /\ None \notin Thread!Weeks /\ v' = v
  BY ViewedIsAWeek DEF ThreadInv, Thread!viewWeekStart
<1>2. /\ x08' = FALSE /\ x07' = Thread!Thread(v, n)
      /\ x09' = IF x07' = Thread!Fallback /\ x07 = Thread!Fallback THEN x09 ELSE v
  BY DEF Thread!Listen
<1> HIDE DEF v
<1>3. x09 \in Thread!Weeks \cup {None}
  BY DEF ThreadInv, ThreadTyped
<1>4. CASE n = 0
  <2>1. x07' = Thread!Fallback
    BY <1>2, <1>4 DEF Thread!Thread
  <2> QED BY <1>1, <1>2, <1>3, <2>1 DEF LoadedIsKept, ShowsViewed, Thread!Fallback
<1>5. CASE n # 0
  <2>1. x07' = [of |-> v, n |-> n]
    BY <1>2, <1>5 DEF Thread!Thread
  <2>2. n \in 1..MaxComments
    BY <1>5, PartsBounds
  <2>3. x07' \in Written /\ x07'.of = v /\ x07' # Thread!Fallback
    BY <1>1, <2>1, <2>2 DEF Written, Thread!Fallback
  <2>4. x09' = v
    BY <1>2, <2>3
  <2>5. LoadedIsKept'
    BY <2>3, <2>4 DEF LoadedIsKept
  <2>6. ShowsViewed'
    BY <1>1, <2>3 DEF ShowsViewed, v
  <2> QED BY <1>1, <1>2, <2>4, <2>5, <2>6
<1> QED BY <1>4, <1>5

LEMMA ThreadStep ==
  ASSUME ThreadInv, Thread!Next
  PROVE  ThreadInv'
<1> USE DEF onScreen, firstRead, heard, threadNews, thread, threadErr, loadedFor
<1>1. Thread!viewWeekStart \in Thread!Weeks /\ None \notin Thread!Weeks
  BY ViewedIsAWeek DEF ThreadInv
<1>2. ASSUME NEW week, Thread!GoTo(week) PROVE ThreadInv'
  BY <1>2, ThreadTurns DEF Thread!GoTo, Thread!mirror, ThreadInv, ThreadTyped
<1>3. CASE Thread!Monday
  <2>1. x01' \in Thread!Weeks
    BY <1>3, PartsBounds DEF Thread!Monday, ThreadInv, ThreadTyped, Thread!Weeks
  <2> QED BY <1>3, <2>1, ThreadTurns DEF Thread!Monday, Thread!mirror, ThreadInv, ThreadTyped
<1>4. CASE Thread!Mount
  BY <1>4, ThreadTurns DEF Thread!Mount, Thread!mirror, ThreadInv, ThreadTyped
<1>5. ASSUME UNCHANGED <<x01, x02, x03, x05, x07, x08, x09>>,
             ThreadTyped', x04' = x04 \/ x04'.step # "over"
      PROVE  ThreadInv'
  <2>1. LoadedIsKept'
    BY <1>5 DEF ThreadInv, LoadedIsKept, Thread!Fallback
  <2>2. ReadsInTime'
    BY <1>5 DEF ThreadInv, ReadsInTime, ShowsViewed, Thread!Fallback, Thread!viewWeekStart
  <2> QED BY <1>5, <2>1, <2>2 DEF ThreadInv
<1>6. CASE Thread!Send
  <2>1. x10' \in Thread!Weeks /\ UNCHANGED <<x01, x02, x03, x04, x05, x06, x07, x08, x09, x11>>
    BY <1>1, <1>6 DEF Thread!Send, Thread!turn, Thread!feed, Thread!mirror
  <2> QED BY <1>5, <2>1 DEF ThreadInv, ThreadTyped
<1>7. CASE Thread!Comment
  <2>1. UNCHANGED <<x01, x02, x03, x04, x05, x07, x08, x09>> /\ x10' = None
    BY <1>7 DEF Thread!Comment, Thread!turn, Thread!mirror
  <2>2. x11' \in [Thread!Weeks -> 0..MaxComments] /\ x06' \in Seq(0..MaxComments)
    BY <1>7, ThreadGrows DEF Thread!Comment, ThreadInv, ThreadTyped
  <2> QED BY <1>5, <2>1, <2>2 DEF ThreadInv, ThreadTyped
<1>8. ASSUME NEW w \in Thread!Weeks, Thread!Elsewhere(w) PROVE ThreadInv'
  <2>1. UNCHANGED <<x01, x02, x03, x04, x05, x07, x08, x09, x10>>
    BY <1>8 DEF Thread!Elsewhere, Thread!turn, Thread!mirror
  <2>2. x11' \in [Thread!Weeks -> 0..MaxComments] /\ x06' \in Seq(0..MaxComments)
    BY <1>8, ThreadGrows DEF Thread!Elsewhere
  <2> QED BY <1>5, <2>1, <2>2 DEF ThreadInv, ThreadTyped
<1>9. CASE Thread!Read
  <2>1. UNCHANGED <<x01, x02, x03, x05, x06, x07, x08, x09, x10, x11>>
    BY <1>9 DEF Thread!Read, Thread!turn, Thread!mirror
  <2>2. x11[Thread!viewWeekStart] \in 0..MaxComments
    BY <1>1 DEF ThreadInv, ThreadTyped
  <2>3. \/ x04'.step = "answered" /\ x04'.answer \in 0..MaxComments
        \/ x04'.step = "failed"
    BY <1>9, <2>2 DEF Thread!Read
  <2> QED BY <1>5, <2>1, <2>3 DEF ThreadInv, ThreadTyped
<1>10. CASE Thread!ReadDone
  <2>1. /\ UNCHANGED <<x01, x02, x03, x05, x06, x10, x11>>
        /\ x04' = Thread!NoFetch /\ x04'.step = "over"
    BY <1>10 DEF Thread!ReadDone, Thread!turn, Thread!NoFetch
  <2>2. CASE x05 = TRUE
    <3>1. UNCHANGED <<x07, x08, x09>>
      BY <1>10, <2>2 DEF Thread!ReadDone, Thread!mirror
    <3>2. ThreadTyped' /\ LoadedIsKept'
      BY <2>1, <3>1 DEF ThreadInv, ThreadTyped, LoadedIsKept, Thread!Fallback
    <3>3. ReadsInTime'
      BY <2>1, <2>2, <3>1 DEF ThreadInv, ReadsInTime, ShowsViewed, Thread!Fallback,
                              Thread!viewWeekStart
    <3> QED BY <3>2, <3>3 DEF ThreadInv
  <2>3. CASE x05 = FALSE /\ x04.step = "failed"
    <3>1. x08' = TRUE /\ UNCHANGED <<x07, x09>>
      BY <1>10, <2>3 DEF Thread!ReadDone
    <3>2. ThreadTyped' /\ LoadedIsKept'
      BY <2>1, <3>1 DEF ThreadInv, ThreadTyped, LoadedIsKept, Thread!Fallback
    <3>3. ReadsInTime'
      BY <2>1, <2>3, <3>1, <3>2 DEF LoadedIsKept, ReadsInTime, ShowsViewed
    <3> QED BY <3>2, <3>3 DEF ThreadInv
  <2>4. CASE x05 = FALSE /\ x04.step = "answered"
    <3>1. Thread!Listen(x04.answer) /\ x04.answer \in 0..MaxComments
      BY <1>10, <2>4 DEF Thread!ReadDone, ThreadInv, ThreadTyped
    <3>2. /\ x08' = FALSE /\ x09' \in Thread!Weeks \cup {None}
          /\ LoadedIsKept' /\ ShowsViewed'
      BY <2>1, <3>1, ListenFacts
    <3>3. ThreadTyped'
      BY <2>1, <3>2 DEF ThreadInv, ThreadTyped
    <3> QED BY <3>2, <3>3 DEF ThreadInv, ReadsInTime
  <2> QED BY <1>10, <2>2, <2>3, <2>4 DEF Thread!ReadDone, ThreadInv, ThreadTyped
<1>11. CASE Thread!Event
  <2>1. x06 # << >> /\ x06 \in Seq(0..MaxComments)
    BY <1>11 DEF Thread!Event, ThreadInv, ThreadTyped
  <2>2. Head(x06) \in 0..MaxComments /\ Tail(x06) \in Seq(0..MaxComments)
    BY <2>1, HeadAndTail
  <2>3. /\ UNCHANGED <<x01, x02, x03, x04, x10, x11>> /\ x05' = TRUE
        /\ x06' = Tail(x06)
        /\ Thread!Listen(Head(x06)) \/ (x08' = TRUE /\ UNCHANGED <<x07, x09>>)
    BY <1>11 DEF Thread!Event, Thread!turn
  <2>4. CASE Thread!Listen(Head(x06))
    <3>1. /\ x08' = FALSE /\ x09' \in Thread!Weeks \cup {None}
          /\ LoadedIsKept' /\ ShowsViewed'
      BY <2>2, <2>3, <2>4, ListenFacts
    <3>2. ThreadTyped'
      BY <2>2, <2>3, <3>1 DEF ThreadInv, ThreadTyped
    <3> QED BY <3>1, <3>2 DEF ThreadInv, ReadsInTime
  <2>5. CASE x08' = TRUE /\ UNCHANGED <<x07, x09>>
    <3>1. ThreadTyped' /\ LoadedIsKept'
      BY <2>2, <2>3, <2>5 DEF ThreadInv, ThreadTyped, LoadedIsKept, Thread!Fallback
    <3>2. ReadsInTime'
      BY <2>3, <2>5, <3>1 DEF LoadedIsKept, ReadsInTime, ShowsViewed
    <3> QED BY <3>1, <3>2 DEF ThreadInv
  <2> QED BY <2>3, <2>4, <2>5
<1> QED BY <1>2, <1>3, <1>4, <1>6, <1>7, <1>8, <1>9, <1>10, <1>11
        DEF Thread!Next, Thread!goToNextWeek, Thread!goToPrevWeek, Thread!goToCurrentWeek

LEMMA ThreadInvImplies == ThreadInv => Thread!ThreadIsOfTheWeek
<1> SUFFICES ASSUME ThreadInv PROVE Thread!ThreadIsOfTheWeek
  OBVIOUS
<1> USE DEF onScreen, firstRead, heard, threadNews, thread, threadErr, loadedFor
<1>1. Thread!viewWeekStart \in Thread!Weeks /\ None \notin Thread!Weeks
  BY ViewedIsAWeek DEF ThreadInv
<1>2. Thread!TypeOK
  BY DEF Thread!TypeOK, ThreadInv, ThreadTyped, LoadedIsKept, Written
<1>3. x03 /\ x04.step = "over"
        => Thread!Rows = Thread!Fallback \/ Thread!Rows.of = Thread!viewWeekStart
  BY DEF ThreadInv, ReadsInTime, ShowsViewed, Thread!Rows, Thread!commentsBlocked
<1>4. Thread!commentsBlocked /\ x07 # None => x07.of # Thread!viewWeekStart
  BY <1>1 DEF ThreadInv, LoadedIsKept, Thread!commentsBlocked, Thread!Fallback
<1> QED BY <1>2, <1>3, <1>4 DEF Thread!ThreadIsOfTheWeek

\* A column that shows the thread shows rows of the viewed week as soon as that
\* week's first read is over, and a failed read hides no rows that are
\* (ofelia-comments.ts).
THEOREM ThreadsAreOfTheWeek == Spec => []ThreadIsOfTheWeek
<1> DEFINE I == part = "comments" => ThreadInv
<1>1. Init => I
  BY ThreadInitial DEF Init
<1>2. I /\ [Next]_vars => I'
  <2>1. ASSUME I, Next, part = "comments" PROVE ThreadInv'
    BY <2>1, ThreadStep DEF Next
  <2>2. ASSUME ThreadInv, UNCHANGED vars PROVE ThreadInv'
    <3>1. UNCHANGED <<x01, x02, x03, x04, x05, x06, x07, x08, x09, x10, x11>>
      BY <2>2 DEF vars, shared, rest
    <3> QED BY <2>2, <3>1 DEF ThreadInv, ThreadTyped, LoadedIsKept, ReadsInTime, ShowsViewed,
              Thread!viewWeekStart, Thread!Fallback,
              onScreen, firstRead, heard, threadNews, thread, threadErr, loadedFor
  <2>3. [Next]_vars => part' = part
    BY DEF Next, vars
  <2> QED BY <2>1, <2>2, <2>3
<1>3. I => ThreadIsOfTheWeek
  BY ThreadInvImplies DEF ThreadIsOfTheWeek
<1> QED BY <1>1, <1>2, <1>3, PTL DEF Spec

-----------------------------------------------------------------------------
(* OwnerDevices: the owner's list and modal.  x01 is the list, x08 tells   *)
(* that the modal is open, x11 to x14 are status, events, approved, gap.   *)

ownerCall == x10

OwnerKinds == {"none", "refresh", "approve", "deny", "revoke", "start", "approve in modal",
               "deny in modal", "logout"}
OwnerSteps == {"none", "account", "devices", "act", "options", "ceremony", "mint", "logout"}
OwnerCalls == [kind : OwnerKinds, step : OwnerSteps, device : Devices \cup {None},
               answer : {"none", "ok", "refused"},
               seen : [Devices -> Owner!States] \cup {<< >>}, generation : BOOLEAN]

\* The server has decided what the call asked it to.
Decisive(c) == c.step \in {"account", "devices"} \/ (c.step = "act" /\ c.answer = "ok")

\* What a call knows, given that the modal is open and which devices are approved.
Fits(c, open, okd) ==
  /\ c \in OwnerCalls
  /\ c.kind = "start" => c.step \in {"options", "ceremony", "mint"}
  /\ c.kind = "logout" => c.step = "logout"
  /\ c.step = "act" => c.device \in Devices
  /\ c.step = "devices" /\ c.answer = "ok" => c.seen \in [Devices -> Owner!States]
  /\ c.generation = TRUE => open = TRUE
  /\ c.kind = "approve in modal" /\ Decisive(c) => c.device \in okd

OwnerTyped ==
  /\ x01 \in [Devices -> Owner!States] /\ x11 \in [Devices -> Owner!States]
  /\ x02 \in BOOLEAN /\ x04 \in BOOLEAN /\ x06 \in BOOLEAN /\ x07 \in BOOLEAN
  /\ x08 \in BOOLEAN /\ x09 \in BOOLEAN /\ x14 \in BOOLEAN
  /\ x03 \in {"idle", "verifying", "showing", "expired", "approving"}
  /\ x05 \in Devices \cup {None}
  /\ x12 \in 0..MaxEvents /\ x13 \subseteq Devices

ModalInv ==
  /\ x08 = FALSE => x03 = "idle" /\ x04 = FALSE /\ x05 = None /\ x06 = FALSE
  /\ x05 # None => x05 \in x13

CallsFit == /\ ownerCall = [i \in Owner!Slots |-> ownerCall[i]]
            /\ \A i \in Owner!Slots : Fits(ownerCall[i], x08, x13)

\* While nothing was lost and no event is on its way, a refresh that has read the
\* devices has read what they are, and without a refresh the list tells it.
IsRefresh(c) == c.step \in {"account", "devices"}
HasRead(c)   == c.step = "devices" /\ c.answer = "ok"

ListInv ==
  x14 = FALSE /\ x12 = 0 =>
    /\ \A i \in Owner!Slots : HasRead(ownerCall[i]) => ownerCall[i].seen = x11
    /\ (\A i \in Owner!Slots : ~IsRefresh(ownerCall[i])) => x01 = x11

OwnerInv == OwnerTyped /\ ModalInv /\ CallsFit /\ ListInv

\* A call that is not there.
LEMMA OwnerIdle ==
  /\ Owner!Idle \in OwnerCalls /\ Owner!Idle.step = "none" /\ Owner!Idle.kind = "none"
  /\ Owner!Idle.answer = "none" /\ Owner!Idle.generation = FALSE
  /\ \A open, okd : Fits(Owner!Idle, open, okd)
<1>1. /\ Owner!Idle \in OwnerCalls /\ Owner!Idle.step = "none" /\ Owner!Idle.kind = "none"
      /\ Owner!Idle.answer = "none" /\ Owner!Idle.generation = FALSE
  BY DEF Owner!Idle, OwnerCalls, OwnerKinds, OwnerSteps
<1> QED BY <1>1 DEF Fits, Decisive

\* One call changes, and with it nothing that the others know.
LEMMA OneCallChanges ==
  ASSUME CallsFit, NEW i \in Owner!Slots, NEW c, x10' = [x10 EXCEPT ![i] = c],
         Fits(c, x08', x13'), x08 = TRUE => x08' = TRUE, x13 \subseteq x13'
  PROVE  /\ CallsFit' /\ x10'[i] = c
         /\ \A j \in Owner!Slots : j # i => x10'[j] = x10[j]
<1> USE DEF ownerCall
<1>1. /\ x10'[i] = c /\ \A j \in Owner!Slots : j # i => x10'[j] = x10[j]
      /\ x10' = [j \in Owner!Slots |-> x10'[j]]
  BY DEF CallsFit
<1>2. \A j \in Owner!Slots : Fits(x10[j], x08', x13')
  <2>1. SUFFICES ASSUME NEW j \in Owner!Slots PROVE Fits(x10[j], x08', x13')
    OBVIOUS
  <2>2. Fits(x10[j], x08, x13)
    BY DEF CallsFit
  <2> QED BY <2>2 DEF Fits
<1>3. \A j \in Owner!Slots : Fits(x10'[j], x08', x13')
  BY <1>1, <1>2
<1> QED BY <1>1, <1>3 DEF CallsFit

LEMMA OwnerInitial == Owner!Init => OwnerInv
<1> SUFFICES ASSUME Owner!Init PROVE OwnerInv
  OBVIOUS
<1> USE DEF ownerCall
<1>1. OwnerTyped /\ ModalInv
  <2>1. [d \in Devices |-> "absent"] \in [Devices -> Owner!States]
    BY DEF Owner!States
  <2>2. 0 \in 0..MaxEvents
    BY PartsBounds
  <2> QED BY <2>1, <2>2 DEF Owner!Init, OwnerTyped, ModalInv
<1> DEFINE first == [Owner!Idle EXCEPT !.kind = "refresh", !.step = "account"]
<1>2. first \in OwnerCalls /\ first.kind = "refresh" /\ first.step = "account"
      /\ first.generation = FALSE
  BY DEF Owner!Idle, OwnerCalls, OwnerKinds, OwnerSteps
<1>3. x10 = [i \in Owner!Slots |-> IF i = 1 THEN first ELSE Owner!Idle]
  BY DEF Owner!Init
<1> HIDE DEF first
<1>4. CallsFit
  BY <1>2, <1>3, OwnerIdle DEF CallsFit, Fits
<1>5. \A i \in Owner!Slots : ~HasRead(x10[i])
  BY <1>2, <1>3, OwnerIdle DEF HasRead
<1>6. x01 = x11
  BY DEF Owner!Init
<1> QED BY <1>1, <1>4, <1>5, <1>6 DEF OwnerInv, ListInv

\* A step that leaves the calls alone.
LEMMA CallsStay ==
  ASSUME CallsFit, x10' = x10, x08 = TRUE => x08' = TRUE, x13 \subseteq x13'
  PROVE  CallsFit'
<1> USE DEF ownerCall
<1>1. SUFFICES ASSUME NEW j \in Owner!Slots PROVE Fits(x10[j], x08', x13')
  BY DEF CallsFit
<1>2. Fits(x10[j], x08, x13)
  BY DEF CallsFit
<1> QED BY <1>2 DEF Fits

\* The list and what is on its way to it.
LEMMA ListStays ==
  ASSUME OwnerInv, NEW i \in Owner!Slots, NEW c, x10'[i] = c,
         \A j \in Owner!Slots : j # i => x10'[j] = x10[j],
         HasRead(c) => c.seen = x11 \/ (HasRead(x10[i]) /\ c.seen = x10[i].seen),
         IsRefresh(x10[i]) => IsRefresh(c), UNCHANGED <<x01, x11, x12, x14>>
  PROVE  ListInv'
<1> USE DEF ownerCall
<1>1. SUFFICES ASSUME x14 = FALSE /\ x12 = 0
               PROVE  /\ \A j \in Owner!Slots : HasRead(x10'[j]) => x10'[j].seen = x11
                      /\ (\A j \in Owner!Slots : ~IsRefresh(x10'[j])) => x01 = x11
  BY DEF ListInv, HasRead, IsRefresh
<1>2. /\ \A j \in Owner!Slots : HasRead(x10[j]) => x10[j].seen = x11
      /\ (\A j \in Owner!Slots : ~IsRefresh(x10[j])) => x01 = x11
  BY <1>1 DEF OwnerInv, ListInv
<1> QED BY <1>2

LEMMA RefreshStarts ==
  ASSUME OwnerInv, NEW i \in Owner!Slots, NEW c, x10'[i] = c,
         \A j \in Owner!Slots : j # i => x10'[j] = x10[j],
         IsRefresh(c), ~HasRead(c), Owner!StartsRefresh
  PROVE  ListInv'
<1> USE DEF ownerCall
<1>1. SUFFICES ASSUME x14' = FALSE PROVE \A j \in Owner!Slots : ~HasRead(x10'[j])
  BY DEF ListInv, HasRead, IsRefresh
<1>2. Owner!Refreshing = {}
  BY <1>1 DEF Owner!StartsRefresh
<1>3. \A j \in Owner!Slots : ~HasRead(x10[j])
  BY <1>2 DEF Owner!Refreshing, HasRead
<1> QED BY <1>3

\* The clicks that start nothing, the server's own steps, and the stream.
LEMMA OwnerQuietStep ==
  ASSUME OwnerInv,
         \/ Owner!OpenDialog \/ Owner!CloseDialog \/ Owner!OpenModal \/ Owner!Expire
         \/ \E d \in Devices : Owner!Elsewhere(d)
         \/ Owner!EventLost
  PROVE  OwnerInv'
<1> USE DEF ownerCall, Owner!account, Owner!modal, Owner!dialogs, Owner!remote
<1>1. CASE Owner!OpenDialog \/ Owner!CloseDialog \/ Owner!OpenModal \/ Owner!Expire
  <2>1. UNCHANGED <<x01, x02, x04, x05, x06, x09, x10, x11, x12, x13, x14>>
    BY <1>1 DEF Owner!OpenDialog, Owner!CloseDialog, Owner!OpenModal, Owner!Expire
  <2>2. /\ x07' = x07 \/ x07' \in BOOLEAN
        /\ x08' = TRUE \/ x08' = x08
        /\ x03' = x03 \/ (x03 = "showing" /\ x03' = "expired")
    BY <1>1 DEF Owner!OpenDialog, Owner!CloseDialog, Owner!OpenModal, Owner!Expire
  <2>3. OwnerTyped' /\ ModalInv'
    BY <2>1, <2>2 DEF OwnerInv, OwnerTyped, ModalInv
  <2>4. ListInv'
    BY <2>1 DEF OwnerInv, ListInv, HasRead, IsRefresh
  <2>5. CallsFit'
    BY <2>1, <2>2, CallsStay DEF OwnerInv
  <2> QED BY <2>3, <2>4, <2>5 DEF OwnerInv
<1>2. ASSUME NEW d \in Devices, Owner!Elsewhere(d) PROVE OwnerInv'
  <2>1. UNCHANGED <<x01, x02, x03, x04, x05, x06, x07, x08, x09, x10, x14>>
    BY <1>2 DEF Owner!Elsewhere, Owner!dialogs
  <2>2. PICK to \in Owner!States : Owner!Change(d, to)
    BY <1>2 DEF Owner!Elsewhere, Owner!States
  <2>3. /\ x11' \in [Devices -> Owner!States] /\ x12' \in 0..MaxEvents /\ x12' # 0
        /\ x13 \subseteq x13' /\ x13' \subseteq Devices
    BY <2>2, PartsBounds DEF Owner!Change, OwnerInv, OwnerTyped
  <2>4. OwnerTyped' /\ ModalInv'
    BY <2>1, <2>3 DEF OwnerInv, OwnerTyped, ModalInv
  <2>5. CallsFit' /\ ListInv'
    BY <2>1, <2>3, CallsStay DEF OwnerInv, ListInv
  <2> QED BY <2>4, <2>5 DEF OwnerInv
<1>3. CASE Owner!EventLost
  <2>1. /\ UNCHANGED <<x01, x02, x03, x04, x05, x06, x07, x08, x09, x10, x11, x13>>
        /\ x14' = TRUE /\ x12' = x12 - 1 /\ x12 > 0
    BY <1>3 DEF Owner!EventLost, Owner!dialogs
  <2>2. x12' \in 0..MaxEvents
    BY <2>1, PartsBounds DEF OwnerInv, OwnerTyped
  <2>3. OwnerTyped' /\ ModalInv'
    BY <2>1, <2>2 DEF OwnerInv, OwnerTyped, ModalInv
  <2>4. CallsFit' /\ ListInv'
    BY <2>1, CallsStay DEF OwnerInv, ListInv
  <2> QED BY <2>3, <2>4 DEF OwnerInv
<1> QED BY <1>1, <1>2, <1>3

\* The clicks that start a call, and an event that starts a refresh.
LEMMA OwnerStartStep ==
  ASSUME OwnerInv,
         \/ Owner!CloseModal \/ Owner!Start \/ Owner!Logout \/ Owner!EventArrives
         \/ \E kind \in Owner!InModal : Owner!Decide(kind)
         \/ \E kind \in {"approve", "deny", "revoke"}, d \in Devices : Owner!Act(kind, d)
  PROVE  OwnerInv'
<1> USE DEF ownerCall
<1>1. CASE Owner!CloseModal
  <2> DEFINE calm(c) == [c EXCEPT !.generation = FALSE]
  <2>1. /\ UNCHANGED <<x01, x02, x07, x09, x11, x12, x13, x14>>
        /\ x08' = FALSE /\ x03' = "idle" /\ x04' = FALSE /\ x05' = None /\ x06' = FALSE
        /\ x10' = [i \in Owner!Slots |-> calm(x10[i])]
    BY <1>1 DEF Owner!CloseModal, Owner!account, Owner!remote
  <2>2. OwnerTyped' /\ ModalInv'
    BY <2>1 DEF OwnerInv, OwnerTyped, ModalInv
  <2>3. \A c \in OwnerCalls :
           /\ calm(c) \in OwnerCalls /\ calm(c).generation = FALSE
           /\ calm(c).kind = c.kind /\ calm(c).step = c.step /\ calm(c).device = c.device
           /\ calm(c).answer = c.answer /\ calm(c).seen = c.seen
    BY DEF OwnerCalls
  <2>4. \A i \in Owner!Slots : x10[i] \in OwnerCalls /\ Fits(x10[i], x08, x13)
    BY DEF OwnerInv, CallsFit, Fits
  <2> HIDE DEF calm
  <2>5. \A i \in Owner!Slots : Fits(calm(x10[i]), x08', x13')
    BY <2>1, <2>3, <2>4 DEF Fits, Decisive
  <2>6. CallsFit'
    BY <2>1, <2>5 DEF CallsFit
  <2>7. ListInv'
    BY <2>1, <2>3, <2>4 DEF OwnerInv, ListInv, HasRead, IsRefresh
  <2> QED BY <2>2, <2>6, <2>7 DEF OwnerInv
\* A call begins in a free slot.
<1>2. ASSUME NEW kind \in OwnerKinds, NEW step \in OwnerSteps, NEW d \in Devices \cup {None},
             NEW gen \in BOOLEAN, Owner!Begin(kind, step, d, gen),
             step = "act" => d \in Devices,
             kind = "start" => step = "options", kind = "logout" => step = "logout",
             kind = "approve in modal" => step = "act",
             gen = TRUE => x08 = TRUE, UNCHANGED <<x08, x13>>
      PROVE  \E i \in Owner!Slots :
               /\ CallsFit' /\ x10'[i].step = step /\ x10'[i].answer = "none"
               /\ \A j \in Owner!Slots : j # i => x10'[j] = x10[j]
               /\ ~IsRefresh(x10[i])
  <2> DEFINE c == [Owner!Idle EXCEPT !.kind = kind, !.step = step, !.device = d,
                                     !.generation = gen]
  <2>1. PICK i \in Owner!Free : x10' = [x10 EXCEPT ![i] = c]
    BY <1>2 DEF Owner!Begin
  <2>2. i \in Owner!Slots /\ x10[i] = Owner!Idle
    BY DEF Owner!Free
  <2>3. /\ c \in OwnerCalls /\ c.kind = kind /\ c.step = step /\ c.device = d
        /\ c.generation = gen /\ c.answer = "none"
    BY DEF Owner!Idle, OwnerCalls
  <2> HIDE DEF c
  <2>4. Fits(c, x08', x13')
    BY <1>2, <2>3 DEF Fits, Decisive
  <2>5. /\ CallsFit' /\ x10'[i] = c
        /\ \A j \in Owner!Slots : j # i => x10'[j] = x10[j]
    BY <1>2, <2>1, <2>2, <2>4, OneCallChanges DEF OwnerInv
  <2>6. ~IsRefresh(x10[i])
    BY <2>2, OwnerIdle DEF IsRefresh
  <2> QED BY <2>2, <2>3, <2>5, <2>6
<1>3. ASSUME NEW i \in Owner!Slots, x10'[i].step \notin {"account", "devices"},
             \A j \in Owner!Slots : j # i => x10'[j] = x10[j], ~IsRefresh(x10[i]),
             UNCHANGED <<x01, x11, x12, x14>>
      PROVE  ListInv'
  <2>1. ~HasRead(x10'[i])
    BY <1>3 DEF HasRead
  <2> QED BY <1>3, <2>1, ListStays
<1>4. CASE Owner!Start
  <2>1. /\ UNCHANGED <<x01, x02, x04, x05, x07, x08, x09, x11, x12, x13, x14>>
        /\ x08 = TRUE /\ x06' = FALSE /\ x03' = "verifying"
        /\ Owner!Begin("start", "options", None, TRUE)
    BY <1>4 DEF Owner!Start, Owner!CodeOffered, Owner!account, Owner!dialogs, Owner!remote,
                OwnerInv, OwnerTyped
  <2>2. OwnerTyped' /\ ModalInv'
    BY <2>1 DEF OwnerInv, OwnerTyped, ModalInv
  <2>3. "start" \in OwnerKinds /\ "options" \in OwnerSteps
    BY DEF OwnerKinds, OwnerSteps
  <2>4. PICK i \in Owner!Slots :
               /\ CallsFit' /\ x10'[i].step = "options" /\ x10'[i].answer = "none"
               /\ \A j \in Owner!Slots : j # i => x10'[j] = x10[j]
               /\ ~IsRefresh(x10[i])
    <3>1. UNCHANGED <<x08, x13>>
      BY <2>1
    <3> QED BY <1>2, <2>1, <2>3, <3>1
  <2>5. ListInv'
    BY <1>3, <2>1, <2>4
  <2> QED BY <2>2, <2>4, <2>5 DEF OwnerInv
<1>5. CASE Owner!Logout
  <2>1. /\ UNCHANGED <<x01, x03, x04, x05, x06, x07, x08, x09, x11, x12, x13, x14>>
        /\ x02' = FALSE /\ Owner!Begin("logout", "logout", None, FALSE)
    BY <1>5 DEF Owner!Logout, Owner!modal, Owner!dialogs, Owner!remote
  <2>2. OwnerTyped' /\ ModalInv'
    BY <2>1 DEF OwnerInv, OwnerTyped, ModalInv
  <2>3. "logout" \in OwnerKinds /\ "logout" \in OwnerSteps
    BY DEF OwnerKinds, OwnerSteps
  <2>4. PICK i \in Owner!Slots :
               /\ CallsFit' /\ x10'[i].step = "logout" /\ x10'[i].answer = "none"
               /\ \A j \in Owner!Slots : j # i => x10'[j] = x10[j]
               /\ ~IsRefresh(x10[i])
    <3>1. UNCHANGED <<x08, x13>>
      BY <2>1
    <3> QED BY <1>2, <2>1, <2>3, <3>1
  <2>5. ListInv'
    BY <1>3, <2>1, <2>4
  <2> QED BY <2>2, <2>4, <2>5 DEF OwnerInv
<1>6. CASE Owner!EventArrives
  <2>1. /\ UNCHANGED <<x01, x03, x04, x05, x06, x07, x08, x09, x11, x13>>
        /\ x02' = FALSE /\ Owner!Begin("refresh", "account", None, FALSE)
        /\ x12 > 0 /\ x12' = x12 - 1 /\ Owner!StartsRefresh
    BY <1>6 DEF Owner!EventArrives, Owner!modal, Owner!dialogs
  <2>2. x12' \in 0..MaxEvents /\ x14' \in BOOLEAN
    BY <2>1, PartsBounds DEF OwnerInv, OwnerTyped, Owner!StartsRefresh
  <2>3. OwnerTyped' /\ ModalInv'
    BY <2>1, <2>2 DEF OwnerInv, OwnerTyped, ModalInv
  <2>4. "refresh" \in OwnerKinds /\ "account" \in OwnerSteps
    BY DEF OwnerKinds, OwnerSteps
  <2>5. PICK i \in Owner!Slots :
               /\ CallsFit' /\ x10'[i].step = "account" /\ x10'[i].answer = "none"
               /\ \A j \in Owner!Slots : j # i => x10'[j] = x10[j]
               /\ ~IsRefresh(x10[i])
    <3>1. UNCHANGED <<x08, x13>>
      BY <2>1
    <3> QED BY <1>2, <2>1, <2>4, <3>1
  <2>6. ListInv'
    BY <2>1, <2>5, RefreshStarts DEF IsRefresh, HasRead
  <2> QED BY <2>3, <2>5, <2>6 DEF OwnerInv
<1>7. ASSUME NEW kind \in Owner!InModal, Owner!Decide(kind) PROVE OwnerInv'
  <2>1. /\ UNCHANGED <<x01, x04, x07, x08, x09, x11, x12, x13, x14>>
        /\ x08 = TRUE /\ x05' = None /\ x06' = FALSE /\ x02' = FALSE /\ x03' = "approving"
        /\ Owner!Begin(kind, "act", Owner!PendingDevice(x01), TRUE)
        /\ Owner!PendingDevice(x01) # None
    BY <1>7 DEF Owner!Decide, Owner!DecisionOffered, Owner!dialogs, Owner!remote,
                OwnerInv, OwnerTyped
  <2>2. OwnerTyped' /\ ModalInv'
    BY <2>1 DEF OwnerInv, OwnerTyped, ModalInv
  <2>3. Owner!PendingDevice(x01) \in Devices
    BY <2>1 DEF Owner!PendingDevice
  <2>4. kind \in OwnerKinds /\ "act" \in OwnerSteps /\ kind # "start" /\ kind # "logout"
    BY DEF OwnerKinds, OwnerSteps, Owner!InModal
  <2>5. PICK i \in Owner!Slots :
               /\ CallsFit' /\ x10'[i].step = "act" /\ x10'[i].answer = "none"
               /\ \A j \in Owner!Slots : j # i => x10'[j] = x10[j]
               /\ ~IsRefresh(x10[i])
    <3>1. UNCHANGED <<x08, x13>>
      BY <2>1
    <3> QED BY <1>2, <2>1, <2>3, <2>4, <3>1
  <2>6. ListInv'
    BY <1>3, <2>1, <2>5
  <2> QED BY <2>2, <2>5, <2>6 DEF OwnerInv
<1>8. ASSUME NEW kind \in {"approve", "deny", "revoke"}, NEW d \in Devices, Owner!Act(kind, d)
      PROVE  OwnerInv'
  <2>1. /\ UNCHANGED <<x01, x03, x04, x05, x06, x07, x08, x09, x11, x12, x13, x14>>
        /\ x02' = FALSE /\ Owner!Begin(kind, "act", d, FALSE)
    BY <1>8 DEF Owner!Act, Owner!modal, Owner!dialogs, Owner!remote
  <2>2. OwnerTyped' /\ ModalInv'
    BY <2>1 DEF OwnerInv, OwnerTyped, ModalInv
  <2>3. kind \in OwnerKinds /\ "act" \in OwnerSteps /\ kind # "start" /\ kind # "logout"
        /\ kind # "approve in modal"
    BY DEF OwnerKinds, OwnerSteps
  <2>4. PICK i \in Owner!Slots :
               /\ CallsFit' /\ x10'[i].step = "act" /\ x10'[i].answer = "none"
               /\ \A j \in Owner!Slots : j # i => x10'[j] = x10[j]
               /\ ~IsRefresh(x10[i])
    <3>1. UNCHANGED <<x08, x13>>
      BY <2>1
    <3> QED BY <1>2, <2>1, <2>3, <3>1
  <2>5. ListInv'
    BY <1>3, <2>1, <2>4
  <2> QED BY <2>2, <2>4, <2>5 DEF OwnerInv
<1> QED BY <1>1, <1>4, <1>5, <1>6, <1>7, <1>8

\* A call is answered: what it asked for is decided, or was not, or is read.
LEMMA OwnerServeStep ==
  ASSUME OwnerInv, NEW i \in Owner!Slots, Owner!Serve(i)
  PROVE  OwnerInv'
<1> USE DEF ownerCall
<1> DEFINE c == x10[i]
<1>1. /\ UNCHANGED <<x01, x02, x03, x04, x05, x06, x07, x08, x09, x14>>
      /\ c.kind # "none" /\ c.answer = "none"
  BY DEF Owner!Serve, Owner!account, Owner!modal, Owner!dialogs
<1>2. c \in OwnerCalls /\ Fits(c, x08, x13)
  BY DEF OwnerInv, CallsFit, Fits
<1>3. ASSUME NEW a \in {"ok", "refused"} PROVE
        LET new == [c EXCEPT !.answer = a] IN
        /\ new \in OwnerCalls /\ new.kind = c.kind /\ new.step = c.step /\ new.device = c.device
        /\ new.answer = a /\ new.generation = c.generation /\ new.seen = c.seen
  BY <1>2 DEF OwnerCalls
<1>4. CASE /\ c.step # "act" /\ UNCHANGED <<x11, x12, x13>>
           /\ \E a \in {"ok", "refused"} :
                x10' = [x10 EXCEPT ![i] = [c EXCEPT !.answer = a,
                          !.seen = IF c.step = "devices" /\ a = "ok" THEN x11 ELSE c.seen]]
  <2>1. PICK a \in {"ok", "refused"} :
                x10' = [x10 EXCEPT ![i] = [c EXCEPT !.answer = a,
                          !.seen = IF c.step = "devices" /\ a = "ok" THEN x11 ELSE c.seen]]
    BY <1>4
  <2> DEFINE new == [c EXCEPT !.answer = a,
                              !.seen = IF c.step = "devices" /\ a = "ok" THEN x11 ELSE c.seen]
  <2>2. x11 \in [Devices -> Owner!States]
    BY DEF OwnerInv, OwnerTyped
  <2>3. /\ new \in OwnerCalls /\ new.kind = c.kind /\ new.step = c.step /\ new.device = c.device
        /\ new.answer = a /\ new.generation = c.generation
        /\ new.seen = IF c.step = "devices" /\ a = "ok" THEN x11 ELSE c.seen
    BY <1>2, <2>2 DEF OwnerCalls
  <2> HIDE DEF new
  <2>4. Fits(new, x08', x13')
    BY <1>1, <1>2, <1>4, <2>2, <2>3 DEF Fits, Decisive
  <2>5. x10' = [x10 EXCEPT ![i] = new]
    BY <2>1 DEF new
  <2>6. /\ CallsFit' /\ x10'[i] = new
        /\ \A j \in Owner!Slots : j # i => x10'[j] = x10[j]
    BY <1>1, <1>4, <2>4, <2>5, OneCallChanges DEF OwnerInv
  <2>7. ListInv'
    <3>1. /\ HasRead(new) => new.seen = x11
          /\ IsRefresh(c) => IsRefresh(new)
      BY <2>3 DEF HasRead, IsRefresh
    <3>2. UNCHANGED <<x01, x11, x12, x14>>
      BY <1>1, <1>4
    <3> HIDE DEF c
    <3> QED BY <2>6, <3>1, <3>2, ListStays DEF c
  <2>8. OwnerTyped' /\ ModalInv'
    BY <1>1, <1>4 DEF OwnerInv, OwnerTyped, ModalInv
  <2> QED BY <2>6, <2>7, <2>8 DEF OwnerInv
<1>5. CASE /\ c.step = "act" /\ x10' = [x10 EXCEPT ![i] = [c EXCEPT !.answer = "refused"]]
           /\ UNCHANGED <<x11, x12, x13>>
  <2> DEFINE new == [c EXCEPT !.answer = "refused"]
  <2>1. /\ new \in OwnerCalls /\ new.kind = c.kind /\ new.step = c.step /\ new.device = c.device
        /\ new.answer = "refused" /\ new.generation = c.generation /\ new.seen = c.seen
    BY <1>3
  <2> HIDE DEF new
  <2>2. Fits(new, x08', x13')
    BY <1>1, <1>2, <1>5, <2>1 DEF Fits, Decisive
  <2>3. x10' = [x10 EXCEPT ![i] = new]
    BY <1>5 DEF new
  <2>4. /\ CallsFit' /\ x10'[i] = new
        /\ \A j \in Owner!Slots : j # i => x10'[j] = x10[j]
    BY <1>1, <1>5, <2>2, <2>3, OneCallChanges DEF OwnerInv
  <2>5. ListInv'
    BY <1>1, <1>5, <2>1, <2>4, ListStays DEF HasRead, IsRefresh
  <2>6. OwnerTyped' /\ ModalInv'
    BY <1>1, <1>5 DEF OwnerInv, OwnerTyped, ModalInv
  <2> QED BY <2>4, <2>5, <2>6 DEF OwnerInv
<1>6. CASE /\ c.step = "act" /\ Owner!Change(c.device, Owner!Decided(c.kind))
           /\ \E a \in {"ok", "refused"} : x10' = [x10 EXCEPT ![i] = [c EXCEPT !.answer = a]]
  <2>1. PICK a \in {"ok", "refused"} : x10' = [x10 EXCEPT ![i] = [c EXCEPT !.answer = a]]
    BY <1>6
  <2> DEFINE new == [c EXCEPT !.answer = a]
  <2>2. /\ new \in OwnerCalls /\ new.kind = c.kind /\ new.step = c.step /\ new.device = c.device
        /\ new.answer = a /\ new.generation = c.generation /\ new.seen = c.seen
    BY <1>3
  <2> HIDE DEF new
  <2>3. c.device \in Devices
    BY <1>2, <1>6 DEF Fits
  <2>4. Owner!Decided(c.kind) \in Owner!States
        /\ (c.kind = "approve in modal" => Owner!Decided(c.kind) = "active")
    BY DEF Owner!Decided, Owner!States
  <2>5. /\ x11' \in [Devices -> Owner!States] /\ x12' \in 0..MaxEvents /\ x12' # 0
        /\ x13 \subseteq x13' /\ x13' \subseteq Devices
        /\ c.kind = "approve in modal" => c.device \in x13'
    <3> DEFINE to == Owner!Decided(c.kind)
    <3>1. /\ x11' = [x11 EXCEPT ![c.device] = to]
          /\ x12' = IF x12 < MaxEvents THEN x12 + 1 ELSE x12
          /\ x13' = IF to = "active" THEN x13 \cup {c.device} ELSE x13
      BY <1>6 DEF Owner!Change
    <3>2. /\ x11 \in [Devices -> Owner!States] /\ x12 \in 0..MaxEvents /\ x13 \subseteq Devices
      BY DEF OwnerInv, OwnerTyped
    <3>3. x12' \in 0..MaxEvents /\ x12' # 0
      BY <3>1, <3>2, PartsBounds
    <3> HIDE DEF to
    <3>4. to \in Owner!States
      BY <2>4 DEF to
    <3>5. x11' \in [Devices -> Owner!States]
      BY <2>3, <3>1, <3>2, <3>4
    <3>6. x13 \subseteq x13' /\ x13' \subseteq Devices /\ (to = "active" => c.device \in x13')
      BY <2>3, <3>1, <3>2
    <3> QED BY <2>4, <3>3, <3>5, <3>6 DEF to
  <2>6. Fits(new, x08', x13')
    BY <1>1, <1>2, <1>6, <2>2, <2>3, <2>5 DEF Fits, Decisive
  <2>7. x10' = [x10 EXCEPT ![i] = new]
    BY <2>1 DEF new
  <2>8. CallsFit'
    BY <1>1, <2>5, <2>6, <2>7, OneCallChanges DEF OwnerInv
  <2>9. ListInv'
    BY <2>5 DEF ListInv
  <2>10. OwnerTyped' /\ ModalInv'
    BY <1>1, <2>5 DEF OwnerInv, OwnerTyped, ModalInv
  <2> QED BY <2>8, <2>9, <2>10 DEF OwnerInv
<1>7. \/ /\ x10[i].step # "act" /\ UNCHANGED Owner!remote
         /\ \E a \in {"ok", "refused"} :
              x10' = [x10 EXCEPT ![i] = [x10[i] EXCEPT !.answer = a,
                        !.seen = IF x10[i].step = "devices" /\ a = "ok" THEN x11
                                 ELSE x10[i].seen]]
      \/ /\ x10[i].step = "act" /\ Owner!Change(x10[i].device, Owner!Decided(x10[i].kind))
         /\ \E a \in {"ok", "refused"} : x10' = [x10 EXCEPT ![i].answer = a]
      \/ /\ x10[i].step = "act" /\ UNCHANGED Owner!remote
         /\ x10' = [x10 EXCEPT ![i].answer = "refused"]
  BY DEF Owner!Serve
<1>8. \A a \in {"ok", "refused"} :
        [x10 EXCEPT ![i].answer = a] = [x10 EXCEPT ![i] = [x10[i] EXCEPT !.answer = a]]
  OBVIOUS
<1>9. CASE /\ x10[i].step # "act" /\ UNCHANGED Owner!remote
           /\ \E a \in {"ok", "refused"} :
                x10' = [x10 EXCEPT ![i] = [x10[i] EXCEPT !.answer = a,
                          !.seen = IF x10[i].step = "devices" /\ a = "ok" THEN x11
                                   ELSE x10[i].seen]]
  BY <1>4, <1>9 DEF Owner!remote
<1>10. CASE /\ x10[i].step = "act" /\ UNCHANGED Owner!remote
            /\ x10' = [x10 EXCEPT ![i].answer = "refused"]
  BY <1>5, <1>8, <1>10 DEF Owner!remote
<1>11. CASE /\ x10[i].step = "act" /\ Owner!Change(x10[i].device, Owner!Decided(x10[i].kind))
            /\ \E a \in {"ok", "refused"} : x10' = [x10 EXCEPT ![i].answer = a]
  BY <1>6, <1>8, <1>11
<1> QED BY <1>7, <1>9, <1>10, <1>11

\* The end of an action of the account model that was not refused, or was.
LEMMA OwnerFinishes ==
  ASSUME OwnerInv, NEW i \in Owner!Slots, IsRefresh(x10[i]) \/ x10[i].step = "act",
         NEW l \in [Devices -> Owner!States], NEW failed \in BOOLEAN,
         Owner!Finish(i, l, failed), failed = TRUE \/ IsRefresh(x10[i]),
         UNCHANGED <<x07, x08, x09, x11, x12, x13>>, x14' \in BOOLEAN
  PROVE  /\ OwnerTyped' /\ ModalInv' /\ CallsFit'
         /\ x10'[i] = Owner!Idle /\ x01' = l
         /\ \A j \in Owner!Slots : j # i => x10'[j] = x10[j]
<1> USE DEF ownerCall
<1> DEFINE c == x10[i]
<1>1. c \in OwnerCalls /\ Fits(c, x08, x13)
  BY DEF OwnerInv, CallsFit, Fits
<1>2. x10' = [x10 EXCEPT ![i] = Owner!Idle] /\ x01' = l /\ x02' = failed /\ x04' = x04
  BY DEF Owner!Finish
<1>3. /\ CallsFit' /\ x10'[i] = Owner!Idle
      /\ \A j \in Owner!Slots : j # i => x10'[j] = x10[j]
  BY <1>2, OwnerIdle, OneCallChanges DEF OwnerInv
<1>4. CASE c.generation = TRUE
  <2>1. /\ x03' = "idle" /\ x06' \in BOOLEAN
        /\ x05' = IF c.kind = "approve in modal" /\ ~failed THEN c.device ELSE x05
    BY <1>4 DEF Owner!Finish, OwnerInv, OwnerTyped
  <2>2. x08 = TRUE /\ c.device \in Devices \cup {None}
    BY <1>1, <1>4 DEF Fits, OwnerCalls
  <2>3. c.kind = "approve in modal" /\ ~failed => c.device \in x13
    BY <1>1 DEF Fits, Decisive, IsRefresh
  <2>4. OwnerTyped' /\ ModalInv'
    BY <1>2, <2>1, <2>2, <2>3 DEF OwnerInv, OwnerTyped, ModalInv
  <2> QED BY <1>2, <1>3, <2>4
<1>5. CASE c.generation = FALSE
  <2>1. UNCHANGED <<x03, x05>> /\ (x06' = x06 \/ x06' = FALSE)
    BY <1>5 DEF Owner!Finish, OwnerInv, OwnerTyped
  <2>2. OwnerTyped' /\ ModalInv'
    BY <1>2, <2>1 DEF OwnerInv, OwnerTyped, ModalInv
  <2> QED BY <1>2, <1>3, <2>2
<1> QED BY <1>1, <1>4, <1>5 DEF OwnerCalls

\* The continuations.
LEMMA OwnerActDone ==
  ASSUME OwnerInv, NEW i \in Owner!Slots, Owner!ActDone(i)
  PROVE  OwnerInv'
<1> USE DEF ownerCall
<1> DEFINE c == x10[i]
<1>1. /\ UNCHANGED <<x07, x08, x09, x11, x12, x13>>
      /\ c.step = "act" /\ c.answer # "none"
  BY DEF Owner!ActDone, Owner!dialogs, Owner!remote
<1>2. c \in OwnerCalls /\ Fits(c, x08, x13)
  BY DEF OwnerInv, CallsFit, Fits
<1>3. CASE c.answer = "ok"
  <2> DEFINE new == IF c.kind \in Owner!InModal THEN [c EXCEPT !.step = "account", !.answer = "none"]
                    ELSE [Owner!Idle EXCEPT !.kind = "refresh", !.step = "account"]
  <2>1. /\ x10' = [x10 EXCEPT ![i] = new]
        /\ x02' = FALSE /\ Owner!StartsRefresh
        /\ UNCHANGED <<x01, x03, x04, x05, x06>>
    BY <1>3 DEF Owner!ActDone, Owner!modal
  <2>2. /\ new \in OwnerCalls /\ new.step = "account" /\ new.answer = "none"
        /\ \/ new.kind = "refresh" /\ new.generation = FALSE
           \/ new.kind \in Owner!InModal /\ new.kind = c.kind
              /\ new.generation = c.generation /\ new.device = c.device
    <3>1. LET n == [c EXCEPT !.step = "account", !.answer = "none"] IN
          /\ n \in OwnerCalls /\ n.step = "account" /\ n.answer = "none"
          /\ n.kind = c.kind /\ n.generation = c.generation /\ n.device = c.device
      BY <1>2 DEF OwnerCalls, OwnerSteps
    <3>2. LET n == [Owner!Idle EXCEPT !.kind = "refresh", !.step = "account"] IN
          /\ n \in OwnerCalls /\ n.step = "account" /\ n.answer = "none"
          /\ n.kind = "refresh" /\ n.generation = FALSE
      BY DEF OwnerCalls, OwnerSteps, OwnerKinds, Owner!Idle
    <3> QED BY <3>1, <3>2
  <2> HIDE DEF new
  <2>3. Fits(new, x08', x13')
    <3>1. new.kind # "start" /\ new.kind # "logout"
      BY <2>2 DEF Owner!InModal
    <3> QED BY <1>1, <1>2, <1>3, <2>2, <3>1 DEF Fits, Decisive
  <2>4. /\ CallsFit' /\ x10'[i] = new
        /\ \A j \in Owner!Slots : j # i => x10'[j] = x10[j]
    BY <1>1, <2>1, <2>3, OneCallChanges DEF OwnerInv
  <2>5. ListInv'
    BY <2>1, <2>2, <2>4, RefreshStarts DEF IsRefresh, HasRead
  <2>6. x14' \in BOOLEAN
    BY <2>1 DEF Owner!StartsRefresh
  <2>7. OwnerTyped' /\ ModalInv'
    BY <1>1, <2>1, <2>6 DEF OwnerInv, OwnerTyped, ModalInv
  <2> QED BY <2>4, <2>5, <2>7 DEF OwnerInv
<1>4. CASE c.answer # "ok"
  <2>1. Owner!Finish(i, x01, TRUE) /\ x14' = x14
    BY <1>4 DEF Owner!ActDone
  <2>2. x01 \in [Devices -> Owner!States] /\ x14 \in BOOLEAN
    BY DEF OwnerInv, OwnerTyped
  <2>3. /\ OwnerTyped' /\ ModalInv' /\ CallsFit'
        /\ x10'[i] = Owner!Idle /\ x01' = x01
        /\ \A j \in Owner!Slots : j # i => x10'[j] = x10[j]
    BY <1>1, <2>1, <2>2, OwnerFinishes
  <2>4. ~IsRefresh(x10[i]) /\ ~HasRead(Owner!Idle)
    BY <1>1, OwnerIdle DEF IsRefresh, HasRead
  <2>5. ListInv'
    BY <1>1, <2>1, <2>3, <2>4, ListStays
  <2> QED BY <2>3, <2>5 DEF OwnerInv
<1> QED BY <1>3, <1>4

LEMMA OwnerRefreshStep ==
  ASSUME OwnerInv, NEW i \in Owner!Slots, Owner!RefreshStep(i)
  PROVE  OwnerInv'
<1> USE DEF ownerCall
<1> DEFINE c == x10[i]
<1>1. UNCHANGED <<x07, x08, x09, x11, x12, x13>> /\ IsRefresh(c)
  BY DEF Owner!RefreshStep, Owner!Refreshing, Owner!dialogs, Owner!remote, IsRefresh
<1>2. c \in OwnerCalls /\ Fits(c, x08, x13)
  BY DEF OwnerInv, CallsFit, Fits
<1>3. x01 \in [Devices -> Owner!States] /\ x14 \in BOOLEAN /\ x02 \in BOOLEAN
  BY DEF OwnerInv, OwnerTyped
<1>4. CASE Owner!Finish(i, x01, TRUE) /\ x14' = TRUE
  <2>1. OwnerTyped' /\ ModalInv' /\ CallsFit'
    BY <1>1, <1>3, <1>4, OwnerFinishes
  <2> QED BY <1>4, <2>1 DEF OwnerInv, ListInv
<1>5. CASE /\ x10' = [x10 EXCEPT ![i] = [c EXCEPT !.step = "devices", !.answer = "none"]]
           /\ UNCHANGED <<x01, x02, x03, x04, x05, x06, x14>>
  <2> DEFINE new == [c EXCEPT !.step = "devices", !.answer = "none"]
  <2>1. /\ new \in OwnerCalls /\ new.step = "devices" /\ new.answer = "none"
        /\ new.kind = c.kind /\ new.generation = c.generation /\ new.device = c.device
    BY <1>2 DEF OwnerCalls, OwnerSteps
  <2>2. x10' = [x10 EXCEPT ![i] = new]
    BY <1>5
  <2> HIDE DEF new
  <2>3. Fits(new, x08', x13')
    BY <1>1, <1>2, <2>1 DEF Fits, Decisive, IsRefresh
  <2>4. /\ CallsFit' /\ x10'[i] = new
        /\ \A j \in Owner!Slots : j # i => x10'[j] = x10[j]
    BY <1>1, <2>2, <2>3, OneCallChanges DEF OwnerInv
  <2>5. IsRefresh(new) /\ ~HasRead(new)
    BY <2>1 DEF IsRefresh, HasRead
  <2>6. UNCHANGED <<x01, x11, x12, x14>>
    BY <1>1, <1>5
  <2>7. ListInv'
    BY <2>4, <2>5, <2>6, ListStays
  <2>8. OwnerTyped' /\ ModalInv'
    BY <1>1, <1>5 DEF OwnerInv, OwnerTyped, ModalInv
  <2> QED BY <2>4, <2>7, <2>8 DEF OwnerInv
<1>6. CASE HasRead(c) /\ Owner!Finish(i, c.seen, x02) /\ x14' = x14
  <2>1. c.seen \in [Devices -> Owner!States]
    BY <1>2, <1>6 DEF Fits, HasRead
  <2>2. /\ OwnerTyped' /\ ModalInv' /\ CallsFit'
        /\ x10'[i] = Owner!Idle /\ x01' = c.seen
        /\ \A j \in Owner!Slots : j # i => x10'[j] = x10[j]
    BY <1>1, <1>3, <1>6, <2>1, OwnerFinishes
  <2>3. ~HasRead(Owner!Idle)
    BY OwnerIdle DEF HasRead
  <2>4. ListInv'
    <3>1. SUFFICES ASSUME x14 = FALSE /\ x12 = 0
                   PROVE  /\ \A j \in Owner!Slots : HasRead(x10'[j]) => x10'[j].seen = x11
                          /\ x01' = x11
      BY <1>1, <1>6 DEF ListInv, HasRead, IsRefresh
    <3>2. \A j \in Owner!Slots : HasRead(x10[j]) => x10[j].seen = x11
      BY <3>1 DEF OwnerInv, ListInv
    <3> QED BY <1>6, <2>2, <2>3, <3>2
  <2> QED BY <2>2, <2>4 DEF OwnerInv
<1>7. \/ Owner!Finish(i, x01, TRUE) /\ x14' = TRUE
      \/ /\ x10' = [x10 EXCEPT ![i] = [x10[i] EXCEPT !.step = "devices", !.answer = "none"]]
         /\ UNCHANGED <<x01, x02, x03, x04, x05, x06, x14>>
      \/ HasRead(x10[i]) /\ Owner!Finish(i, x10[i].seen, x02) /\ x14' = x14
  BY DEF Owner!RefreshStep, Owner!account, Owner!modal, HasRead
<1> QED BY <1>4, <1>5, <1>6, <1>7

LEMMA OwnerOtherDone ==
  ASSUME OwnerInv, NEW i \in Owner!Slots, Owner!StartStep(i) \/ Owner!LogoutDone(i)
  PROVE  OwnerInv'
<1> USE DEF ownerCall
<1> DEFINE c == x10[i]
<1>1. UNCHANGED <<x01, x07, x08, x11, x12, x13, x14>>
  BY DEF Owner!StartStep, Owner!LogoutDone, Owner!account, Owner!dialogs, Owner!remote
<1>2. c \in OwnerCalls /\ Fits(c, x08, x13)
  BY DEF OwnerInv, CallsFit, Fits
<1>3. ~IsRefresh(c)
  BY <1>2 DEF Owner!StartStep, Owner!LogoutDone, Fits, IsRefresh
<1>4. ASSUME NEW new, x10' = [x10 EXCEPT ![i] = new], Fits(new, x08', x13'), ~HasRead(new)
      PROVE  CallsFit' /\ ListInv'
  <2>1. /\ CallsFit' /\ x10'[i] = new
        /\ \A j \in Owner!Slots : j # i => x10'[j] = x10[j]
    BY <1>1, <1>4, OneCallChanges DEF OwnerInv
  <2> QED BY <1>1, <1>3, <1>4, <2>1, ListStays
<1>5. Fits(Owner!Idle, x08', x13') /\ ~HasRead(Owner!Idle)
  BY OwnerIdle DEF HasRead
<1>6. CASE Owner!LogoutDone(i)
  <2>1. /\ x10' = [x10 EXCEPT ![i] = Owner!Idle] /\ UNCHANGED <<x03, x04, x05, x06>>
        /\ x09' \in BOOLEAN /\ x02' \in BOOLEAN
    BY <1>6 DEF Owner!LogoutDone, Owner!modal
  <2>2. OwnerTyped' /\ ModalInv'
    BY <1>1, <2>1 DEF OwnerInv, OwnerTyped, ModalInv
  <2>3. CallsFit' /\ ListInv'
    BY <1>4, <1>5, <2>1
  <2> QED BY <2>2, <2>3 DEF OwnerInv
<1>7. CASE Owner!StartStep(i) /\ x10' = [x10 EXCEPT ![i] = Owner!Idle]
  <2>1. /\ UNCHANGED <<x02, x05, x09>>
        /\ \/ UNCHANGED <<x03, x04, x06>>
           \/ c.generation = TRUE /\ x03' = "showing" /\ x04' = TRUE /\ x06' = x06
           \/ c.generation = TRUE /\ x03' = "idle" /\ x06' = TRUE /\ x04' = x04
    BY <1>2, <1>7 DEF Owner!StartStep, Owner!account, Owner!modal, Owner!dialogs, OwnerCalls
  <2>2. c.generation = TRUE => x08 = TRUE
    BY <1>2 DEF Fits
  <2>3. OwnerTyped' /\ ModalInv'
    BY <1>1, <2>1, <2>2 DEF OwnerInv, OwnerTyped, ModalInv
  <2>4. CallsFit' /\ ListInv'
    BY <1>4, <1>5, <1>7
  <2> QED BY <2>3, <2>4 DEF OwnerInv
<1>8. ASSUME NEW next \in {"ceremony", "mint"}, c.kind = "start",
             x10' = [x10 EXCEPT ![i] = [c EXCEPT !.step = next, !.answer = "none"]],
             UNCHANGED <<x02, x03, x04, x05, x06, x09>>
      PROVE  OwnerInv'
  <2> DEFINE new == [c EXCEPT !.step = next, !.answer = "none"]
  <2>1. /\ new \in OwnerCalls /\ new.step = next /\ new.answer = "none"
        /\ new.kind = c.kind /\ new.generation = c.generation /\ new.device = c.device
    BY <1>2 DEF OwnerCalls, OwnerSteps
  <2>2. x10' = [x10 EXCEPT ![i] = new]
    BY <1>8
  <2> HIDE DEF new
  <2>3. Fits(new, x08', x13') /\ ~HasRead(new)
    BY <1>1, <1>2, <1>8, <2>1 DEF Fits, Decisive, HasRead
  <2>4. CallsFit' /\ ListInv'
    BY <1>4, <2>2, <2>3
  <2>5. OwnerTyped' /\ ModalInv'
    BY <1>1, <1>8 DEF OwnerInv, OwnerTyped, ModalInv
  <2> QED BY <2>4, <2>5 DEF OwnerInv
<1>9. CASE Owner!StartStep(i)
  <2>1. \/ x10' = [x10 EXCEPT ![i] = Owner!Idle]
        \/ \E next \in {"ceremony", "mint"} :
             /\ x10' = [x10 EXCEPT ![i] = [x10[i] EXCEPT !.step = next, !.answer = "none"]]
             /\ UNCHANGED <<x02, x03, x04, x05, x06, x09>> /\ x10[i].kind = "start"
    BY <1>9 DEF Owner!StartStep, Owner!account, Owner!modal, Owner!dialogs
  <2> QED BY <1>7, <1>8, <1>9, <2>1
<1> QED BY <1>6, <1>9

LEMMA OwnerInductive == OwnerInv /\ [Owner!Next]_shared => OwnerInv'
<1>1. ASSUME OwnerInv, UNCHANGED shared PROVE OwnerInv'
  <2>1. UNCHANGED <<x01, x02, x03, x04, x05, x06, x07, x08, x09, x10, x11, x12, x13, x14>>
    BY <1>1 DEF shared, rest
  <2>2. CallsFit'
    BY <1>1, <2>1, CallsStay DEF OwnerInv
  <2> QED BY <1>1, <2>1, <2>2 DEF OwnerInv, OwnerTyped, ModalInv, ListInv, HasRead, IsRefresh, ownerCall
<1> QED BY <1>1, OwnerQuietStep, OwnerStartStep, OwnerServeStep, OwnerActDone, OwnerRefreshStep,
           OwnerOtherDone DEF Owner!Next

LEMMA OwnerHolds == Spec => [](part = "owner" => OwnerInv)
<1>1. Init => (part = "owner" => OwnerInv)
  BY OwnerInitial DEF Init
<1>2. (part = "owner" => OwnerInv) /\ [Next]_vars => (part = "owner" => OwnerInv)'
  <2>1. ASSUME OwnerInv, Next, part = "owner" PROVE OwnerInv'
    BY <2>1, OwnerInductive DEF Next
  <2>2. ASSUME OwnerInv, UNCHANGED vars PROVE OwnerInv'
    BY <2>2, OwnerInductive DEF vars
  <2>3. [Next]_vars => part' = part
    BY DEF Next, vars
  <2> QED BY <2>1, <2>2, <2>3
<1> QED BY <1>1, <1>2, PTL DEF Spec

\* Once the refreshes are over and the events are in, the dialog lists what the
\* server does, unless an event or a refresh was lost or two refreshes
\* overlapped since the last one that ran alone.
THEOREM ListsCatchUp == Spec => []ListCurrent
<1>1. ASSUME OwnerInv PROVE Owner!ListCurrent
  <2>1. Owner!TypeOK
    <3>1. \A i \in Owner!Slots : /\ x10[i].device \in Devices \cup {None}
                                /\ x10[i].generation \in BOOLEAN
      BY <1>1 DEF OwnerInv, CallsFit, Fits, OwnerCalls, ownerCall
    <3> QED BY <1>1, <3>1 DEF OwnerInv, OwnerTyped, Owner!TypeOK
  <2>2. ASSUME Owner!Refreshing = {}, x12 = 0, ~x14 PROVE x01 = x11
    <3>1. x14 = FALSE
      BY <1>1, <2>2 DEF OwnerInv, OwnerTyped
    <3>2. \A i \in Owner!Slots : ~IsRefresh(ownerCall[i])
      BY <2>2 DEF Owner!Refreshing, IsRefresh, ownerCall
    <3> QED BY <1>1, <2>2, <3>1, <3>2 DEF OwnerInv, ListInv
  <2> QED BY <2>1, <2>2 DEF Owner!ListCurrent
<1>2. (part = "owner" => OwnerInv) => ListCurrent
  BY <1>1 DEF ListCurrent
<1> QED BY <1>2, OwnerHolds, PTL

\* Nothing a closed modal had under way shows in it again, and it reports as
\* added only a device the server has approved (the generation of the account's
\* modal model).
THEOREM ModalsAreHonest == Spec => []ModalIsHonest
<1>1. ASSUME OwnerInv PROVE Owner!ModalIsHonest
  BY <1>1 DEF OwnerInv, OwnerTyped, ModalInv, Owner!ModalIsHonest
<1>2. (part = "owner" => OwnerInv) => ModalIsHonest
  BY <1>1 DEF ModalIsHonest
<1> QED BY <1>2, OwnerHolds, PTL

-----------------------------------------------------------------------------
(* BoardLayouts: a load keeps the passport's floor and the user's resizes. *)
(* x01 is stored, x02 boards, x03 marks, x04 loading, x05 out, x08 the     *)
(* deliberate resizes, x09 tells that a first read of the marks failed.    *)

LEMMA LayoutBounds ==
  /\ Boards # {} /\ MaxHeight \in Nat /\ Floor \in Layouts!Heights
  /\ \A w \in Widgets : Default[w] \in Layouts!Heights
BY PartsAssumption DEF Layouts!Heights

PlacedItems   == [h : Layouts!Heights, min : {0, Floor}]
LayoutStates == UNION {[S -> PlacedItems] : S \in SUBSET Widgets}
BoardStates   == [layout : LayoutStates, mobile : LayoutStates \cup {None}]
SharedStates  == UNION {[S -> BoardStates] : S \in SUBSET Boards}
MarkStates   == [Boards -> SUBSET {Layouts!Generic, Layouts!Passports}]

LayoutsType ==
  /\ x01 \in [boards : SharedStates, marks : MarkStates]
  /\ x02 \in SharedStates \cup {None} /\ x03 \in MarkStates
  /\ x05 \in [boards : SharedStates \cup {None}, marks : MarkStates \cup {None}]
  /\ x04 \subseteq {"boards", "marks"} /\ x09 \in BOOLEAN
  /\ x08 \subseteq Boards \X Widgets

\* While a key is being read no marks are written, and a board made before the
\* boards were read is one that has no marks.
LoadingIsClean ==
  /\ x04 # {} => x05.marks = None
  /\ "marks" \in x04 => x03 = Layouts!NoMarks
  /\ "boards" \in x04 /\ x02 # None => \A b \in DOMAIN x02 : x01.marks[b] = {}

\* Unless a read of them failed, marks only grow on their way from the store into
\* the page and back, and a deliberate resize has the generic pass's mark behind it.
MarksAreKept ==
  ~x09 =>
    /\ \A p \in x08 : Layouts!Generic \in x01.marks[p[1]]
    /\ "marks" \notin x04 => \A b \in Boards : x01.marks[b] \subseteq x03[b]
    /\ x05.marks # None => \A b \in Boards : /\ x01.marks[b] \subseteq x05.marks[b]
                                             /\ x05.marks[b] \subseteq x03[b]

LayoutsInv == LayoutsType /\ LoadingIsClean /\ MarksAreKept /\ Layouts!FloorHolds

(* Layouts and boards are functions on what is placed: how they are taken  *)
(* apart and put together.                                                 *)

LEMMA LayoutElim ==
  ASSUME NEW l \in LayoutStates
  PROVE  /\ DOMAIN l \subseteq Widgets /\ l = [w \in DOMAIN l |-> l[w]]
         /\ \A w \in DOMAIN l : l[w] \in PlacedItems
BY DEF LayoutStates

LEMMA LayoutIntro ==
  ASSUME NEW S \in SUBSET Widgets, NEW f \in [S -> PlacedItems]
  PROVE  f \in LayoutStates
BY DEF LayoutStates

LEMMA SharedElim ==
  ASSUME NEW bs \in SharedStates
  PROVE  /\ DOMAIN bs \subseteq Boards /\ bs = [b \in DOMAIN bs |-> bs[b]]
         /\ \A b \in DOMAIN bs : bs[b] \in BoardStates
BY DEF SharedStates

LEMMA SharedIntro ==
  ASSUME NEW S \in SUBSET Boards, NEW f \in [S -> BoardStates]
  PROVE  f \in SharedStates
BY DEF SharedStates

\* A height is kept or raised.
LEMMA LeastIs ==
  ASSUME NEW h \in Nat, NEW k \in Nat
  PROVE  Layouts!Least(h, k) \in {h, k} /\ Layouts!Least(h, k) >= h /\ Layouts!Least(h, k) >= k
BY DEF Layouts!Least

LEMMA HeightIs == Floor \in Nat /\ \A h \in Layouts!Heights : h \in Nat /\ h > 0
BY LayoutBounds DEF Layouts!Heights

\* The passport checker is raised to its floor, everything else is left.
LEMMA FlooredIs ==
  ASSUME NEW l \in LayoutStates
  PROVE  /\ Layouts!Floored(l) \in LayoutStates /\ DOMAIN Layouts!Floored(l) = DOMAIN l
         /\ \A w \in DOMAIN l : w # Passport => Layouts!Floored(l)[w] = l[w]
         /\ Passport \in DOMAIN l => Layouts!Floored(l)[Passport].h >= Floor
<1>1. \A w \in DOMAIN l : Layouts!Floored(l)[w] \in PlacedItems
  <2> SUFFICES ASSUME NEW w \in DOMAIN l PROVE Layouts!Floored(l)[w] \in PlacedItems
    OBVIOUS
  <2>1. l[w] \in PlacedItems
    BY LayoutElim
  <2>2. CASE w # Passport
    BY <2>1, <2>2 DEF Layouts!Floored
  <2>3. CASE w = Passport
    <3>1. Layouts!Least(l[w].min, Floor) \in {0, Floor} /\ Layouts!Least(l[w].min, Floor) >= Floor
      BY <2>1, LeastIs, HeightIs DEF PlacedItems
    <3>2. Layouts!Least(l[w].min, Floor) = Floor
      BY <3>1, HeightIs
    <3>3. Layouts!Least(l[w].h, Floor) \in Layouts!Heights
      BY <2>1, LeastIs, HeightIs, LayoutBounds DEF PlacedItems
    <3> QED BY <2>3, <3>2, <3>3 DEF Layouts!Floored, PlacedItems
  <2> QED BY <2>2, <2>3
<1>2. DOMAIN Layouts!Floored(l) = DOMAIN l /\ Layouts!Floored(l) \in [DOMAIN l -> PlacedItems]
  BY <1>1 DEF Layouts!Floored
<1>3. \A w \in DOMAIN l : w # Passport => Layouts!Floored(l)[w] = l[w]
  BY DEF Layouts!Floored
<1>4. ASSUME Passport \in DOMAIN l PROVE Layouts!Floored(l)[Passport].h >= Floor
  <2>1. l[Passport] \in PlacedItems
    BY <1>4, LayoutElim
  <2>2. Layouts!Least(l[Passport].min, Floor) \in Nat /\ Layouts!Least(l[Passport].min, Floor) >= Floor
    BY <2>1, LeastIs, HeightIs DEF PlacedItems
  <2>3. /\ Layouts!Least(l[Passport].h, Layouts!Least(l[Passport].min, Floor)) \in Nat
        /\ Layouts!Least(l[Passport].h, Layouts!Least(l[Passport].min, Floor)) >= Layouts!Least(l[Passport].min, Floor)
    BY <2>1, <2>2, LeastIs, HeightIs DEF PlacedItems
  <2>4. Layouts!Least(l[Passport].h, Layouts!Least(l[Passport].min, Floor)) >= Floor
    BY <2>2, <2>3, HeightIs
  <2> QED BY <1>4, <2>4 DEF Layouts!Floored
<1> QED BY <1>2, <1>3, <1>4, LayoutElim, LayoutIntro

LEMMA BumpedIs ==
  ASSUME NEW l \in LayoutStates
  PROVE  Layouts!Bumped(l) \in LayoutStates /\ DOMAIN Layouts!Bumped(l) = DOMAIN l
<1>1. \A w \in DOMAIN l : Layouts!Bumped(l)[w] \in PlacedItems
  <2> SUFFICES ASSUME NEW w \in DOMAIN l PROVE Layouts!Bumped(l)[w] \in PlacedItems
    OBVIOUS
  <2>1. l[w] \in PlacedItems /\ w \in Widgets
    BY LayoutElim
  <2>2. Layouts!Least(l[w].h, Default[w]) \in Layouts!Heights
    BY <2>1, LeastIs, HeightIs, LayoutBounds DEF PlacedItems
  <2> QED BY <2>1, <2>2 DEF Layouts!Bumped, PlacedItems
<1> QED BY <1>1, LayoutElim, LayoutIntro DEF Layouts!Bumped

\* The migration of one layout.
Passed(l, m) == Layouts!Floored(IF Layouts!Generic \in m THEN l ELSE Layouts!Bumped(l))

\* Once the generic pass is marked, a migration is the passport's floor alone.
LEMMA PassedIs ==
  ASSUME NEW l \in LayoutStates, NEW m
  PROVE  /\ Passed(l, m) \in LayoutStates /\ DOMAIN Passed(l, m) = DOMAIN l
         /\ Passport \in DOMAIN Passed(l, m) => Passed(l, m)[Passport].h >= Floor
         /\ Layouts!Generic \in m => \A w \in DOMAIN l : w # Passport => Passed(l, m)[w] = l[w]
BY FlooredIs, BumpedIs DEF Passed

LEMMA MigratedIs ==
  ASSUME NEW b \in BoardStates, NEW m
  PROVE  /\ Layouts!Migrated(b, m) \in BoardStates
         /\ DOMAIN Layouts!Migrated(b, m).layout = DOMAIN b.layout
         /\ \A w \in DOMAIN b.layout : Layouts!Generic \in m /\ w # Passport =>
              Layouts!Migrated(b, m).layout[w] = b.layout[w]
         /\ \A l \in {Layouts!Migrated(b, m).layout, Layouts!Migrated(b, m).mobile} \ {None} :
              Passport \in DOMAIN l => l[Passport].h >= Floor
<1>1. Layouts!Migrated(b, m) =
        [layout |-> Passed(b.layout, m),
         mobile |-> IF b.mobile = None THEN None ELSE Passed(b.mobile, m)]
  BY DEF Layouts!Migrated, Passed
<1>2. b.layout \in LayoutStates /\ b.mobile \in LayoutStates \cup {None}
  BY DEF BoardStates
<1>3. /\ Passed(b.layout, m) \in LayoutStates
      /\ DOMAIN Passed(b.layout, m) = DOMAIN b.layout
      /\ Passport \in DOMAIN b.layout => Passed(b.layout, m)[Passport].h >= Floor
      /\ Layouts!Generic \in m =>
           \A w \in DOMAIN b.layout : w # Passport => Passed(b.layout, m)[w] = b.layout[w]
  BY <1>2, PassedIs
<1>4. b.mobile # None =>
        /\ Passed(b.mobile, m) \in LayoutStates
        /\ Passport \in DOMAIN Passed(b.mobile, m) => Passed(b.mobile, m)[Passport].h >= Floor
  BY <1>2, PassedIs
<1> QED BY <1>1, <1>2, <1>3, <1>4 DEF BoardStates

(* What the user makes of boards and layouts are boards and layouts.       *)

LEMMA PutBoard ==
  ASSUME NEW bs \in SharedStates, NEW b \in Boards, NEW v \in BoardStates
  PROVE  Layouts!Put(bs, b, v) \in SharedStates
<1>1. Layouts!Put(bs, b, v) \in [DOMAIN bs \cup {b} -> BoardStates]
  BY SharedElim DEF Layouts!Put
<1> QED BY <1>1, SharedElim, SharedIntro

LEMMA PutItem ==
  ASSUME NEW l \in LayoutStates, NEW w \in Widgets, NEW i \in PlacedItems
  PROVE  Layouts!Put(l, w, i) \in LayoutStates
<1>1. Layouts!Put(l, w, i) \in [DOMAIN l \cup {w} -> PlacedItems]
  BY LayoutElim DEF Layouts!Put
<1> QED BY <1>1, LayoutElim, LayoutIntro

LEMMA NothingPlaced == << >> \in LayoutStates /\ << >> \in SharedStates /\ Layouts!Empty \in BoardStates
<1>1. << >> \in [{} -> PlacedItems] /\ << >> \in [{} -> BoardStates]
  OBVIOUS
<1> QED BY <1>1, LayoutIntro, SharedIntro DEF Layouts!Empty, BoardStates

\* The atoms after a step: as they were given, or migrated when both keys were read.
LEMMA SettleIs ==
  ASSUME LayoutsType, NEW b0, NEW m0 \in MarkStates,
         NEW bs \in SharedStates \cup {None}, NEW ms \in MarkStates, Layouts!Settle(b0, m0, bs, ms)
  PROVE  /\ x02' \in SharedStates \cup {None} /\ x03' \in MarkStates
         /\ x05' \in [boards : SharedStates \cup {None}, marks : MarkStates \cup {None}]
         /\ \A b \in Boards : ms[b] \subseteq x03'[b]
         /\ x04' # {} => x02' = bs /\ x03' = ms
         /\ x05'.marks = (IF x03' # m0 THEN x03' ELSE x05.marks)
<1> DEFINE ready == x04' = {} /\ bs # None
<1>1. /\ x02' = IF ready THEN [b \in DOMAIN bs |-> Layouts!Migrated(bs[b], ms[b])] ELSE bs
      /\ x03'  = IF ready THEN [b \in Boards |-> IF b \in DOMAIN bs
                                    THEN ms[b] \cup {Layouts!Generic, Layouts!Passports} ELSE ms[b]]
                            ELSE ms
      /\ x05' = [boards |-> IF x02' # b0 THEN x02' ELSE x05.boards,
                 marks |-> IF x03' # m0 THEN x03' ELSE x05.marks]
  BY DEF Layouts!Settle
<1>2. x02' \in SharedStates \cup {None}
  <2>1. CASE ready
    <3>1. [b \in DOMAIN bs |-> Layouts!Migrated(bs[b], ms[b])] \in [DOMAIN bs -> BoardStates]
      BY <2>1, SharedElim, MigratedIs
    <3> QED BY <1>1, <2>1, <3>1, SharedElim, SharedIntro
  <2> QED BY <1>1, <2>1
<1>3. x03' \in MarkStates /\ \A b \in Boards : ms[b] \subseteq x03'[b]
  BY <1>1 DEF MarkStates
<1>4. x05' \in [boards : SharedStates \cup {None}, marks : MarkStates \cup {None}]
  BY <1>1, <1>2, <1>3 DEF LayoutsType
<1>5. x04' # {} => x02' = bs /\ x03' = ms
  BY <1>1
<1>6. x05'.marks = (IF x03' # m0 THEN x03' ELSE x05.marks)
  BY <1>1
<1> QED BY <1>2, <1>3, <1>4, <1>5, <1>6

LEMMA SettleMigrates ==
  ASSUME NEW b0, NEW m0, NEW bs \in SharedStates \cup {None}, NEW ms,
         Layouts!Settle(b0, m0, bs, ms), x04' = {}, x02' # None
  PROVE  /\ bs \in SharedStates /\ bs # None /\ DOMAIN x02' = DOMAIN bs
         /\ \A b \in DOMAIN bs : x02'[b] = Layouts!Migrated(bs[b], ms[b])
<1>1. x02' = IF bs # None THEN [b \in DOMAIN bs |-> Layouts!Migrated(bs[b], ms[b])] ELSE bs
  BY DEF Layouts!Settle
<1>2. bs # None
  BY <1>1
<1> QED BY <1>1, <1>2

\* Every change of the boards after both keys were read is followed by a migration.
LEMMA SettledAboveFloor ==
  ASSUME LayoutsType, NEW b0, NEW m0 \in MarkStates,
         NEW bs \in SharedStates \cup {None}, NEW ms \in MarkStates, Layouts!Settle(b0, m0, bs, ms)
  PROVE  Layouts!FloorHolds'
<1> SUFFICES ASSUME x04' = {}, x02' # None, NEW b \in DOMAIN x02',
                    NEW l \in {x02'[b].layout, x02'[b].mobile} \ {None},
                    Passport \in DOMAIN l
             PROVE  l[Passport].h >= Floor
  BY DEF Layouts!FloorHolds
<1>1. /\ bs \in SharedStates /\ bs # None /\ DOMAIN x02' = DOMAIN bs
      /\ \A x \in DOMAIN bs : x02'[x] = Layouts!Migrated(bs[x], ms[x])
  BY SettleMigrates
<1>2. x02'[b] = Layouts!Migrated(bs[b], ms[b]) /\ bs[b] \in BoardStates
  BY <1>1, SharedElim
<1> QED BY <1>2, MigratedIs

\* An edit leaves what is stored, and the marks only grow.
LEMMA EditKeepsInv ==
  ASSUME LayoutsInv, NEW bs \in SharedStates \cup {None}, Layouts!Edit(bs),
         "boards" \in x04 /\ bs # None => \A b \in DOMAIN bs : x01.marks[b] = {},
         x08' \subseteq Boards \X Widgets,
         \A p \in x08' \ x08 : Layouts!Generic \in x01.marks[p[1]]
  PROVE  LayoutsInv'
<1>1. Layouts!Settle(x02, x03, bs, x03) /\ UNCHANGED <<x01, x04, x09>>
  BY DEF Layouts!Edit
<1>2. LayoutsType'
  BY <1>1, SettleIs DEF LayoutsInv, LayoutsType
<1>3. LoadingIsClean'
  BY <1>1, SettleIs DEF LayoutsInv, LayoutsType, LoadingIsClean
<1>4. MarksAreKept'
  BY <1>1, SettleIs DEF LayoutsInv, LayoutsType, MarksAreKept
<1>5. Layouts!FloorHolds'
  BY <1>1, SettledAboveFloor DEF LayoutsInv, LayoutsType
<1> QED BY <1>2, <1>3, <1>4, <1>5 DEF LayoutsInv

\* Nothing is read yet, and nothing the user did is on record.
LEMMA LayoutsInitial == Layouts!Init => LayoutsInv
<1> SUFFICES ASSUME Layouts!Init PROVE LayoutsInv
  OBVIOUS
<1>1. PICK hs \in [Widgets -> Layouts!Heights], m \in {{}, {Layouts!Generic}} :
        LET b == CHOOSE x \in Boards : TRUE
            layout == [w \in Widgets |-> [h |-> hs[w], min |-> 0]]
        IN  x01 = [boards |-> [x \in {b} |-> [layout |-> layout, mobile |-> None]],
                      marks  |-> [Layouts!NoMarks EXCEPT ![b] = m]]
  BY DEF Layouts!Init
<1> DEFINE b == CHOOSE x \in Boards : TRUE
           layout == [w \in Widgets |-> [h |-> hs[w], min |-> 0]]
           board == [layout |-> layout, mobile |-> None]
<1>2. b \in Boards
  BY LayoutBounds
<1>3. layout \in LayoutStates
  <2>1. layout \in [Widgets -> PlacedItems]
    BY DEF PlacedItems
  <2> QED BY <2>1, LayoutIntro
<1>4. board \in BoardStates
  BY <1>3 DEF BoardStates
<1>5. [x \in {b} |-> board] \in SharedStates
  <2>1. [x \in {b} |-> board] \in [{b} -> BoardStates]
    BY <1>4
  <2> QED BY <1>2, <2>1, SharedIntro
<1>6. [Layouts!NoMarks EXCEPT ![b] = m] \in MarkStates /\ Layouts!NoMarks \in MarkStates
  BY DEF Layouts!NoMarks, MarkStates
<1>7. LayoutsType
  BY <1>1, <1>5, <1>6 DEF Layouts!Init, LayoutsType
<1>8. LoadingIsClean /\ MarksAreKept /\ Layouts!FloorHolds
  BY DEF Layouts!Init, LoadingIsClean, MarksAreKept, Layouts!FloorHolds
<1> QED BY <1>7, <1>8 DEF LayoutsInv

\* Marks that were read are the stored ones; a read that fails is on record.
LEMMA ReadKeepsInv ==
  ASSUME LayoutsInv, NEW ok \in BOOLEAN, Layouts!Read(ok)
  PROVE  LayoutsInv'
<1>1. UNCHANGED <<x01, x06, x08>>
  BY DEF Layouts!Read
<1>2. CASE Layouts!ReadBoards(ok) /\ UNCHANGED x09
  <2>1. PICK bs \in SharedStates \cup {None} : Layouts!Settle(bs, x03, bs, x03)
    BY <1>2 DEF Layouts!ReadBoards, LayoutsInv, LayoutsType
  <2>2. "boards" \in x04 /\ x04' = x04 \ {"boards"} /\ x09' = x09
    BY <1>2 DEF Layouts!ReadBoards
  <2>3. LayoutsType'
    BY <1>1, <2>1, <2>2, SettleIs DEF LayoutsInv, LayoutsType
  <2>4. LoadingIsClean'
    BY <1>1, <2>1, <2>2, SettleIs DEF LayoutsInv, LayoutsType, LoadingIsClean
  <2>5. MarksAreKept'
    <3>1. x05.marks = None /\ (x05'.marks = None \/ x05'.marks = x03')
      BY <2>1, <2>2, SettleIs DEF LayoutsInv, LayoutsType, LoadingIsClean
    <3>2. \A b \in Boards : x03[b] \subseteq x03'[b]
      BY <2>1, SettleIs DEF LayoutsInv, LayoutsType
    <3>3. "marks" \in x04 => x05'.marks = None
      BY <2>1, <2>2, <3>1, SettleIs DEF LayoutsInv, LayoutsType
    <3> QED BY <1>1, <2>2, <3>1, <3>2, <3>3 DEF LayoutsInv, MarksAreKept
  <2>6. Layouts!FloorHolds'
    BY <2>1, SettledAboveFloor DEF LayoutsInv, LayoutsType
  <2> QED BY <2>3, <2>4, <2>5, <2>6 DEF LayoutsInv
<1>3. CASE Layouts!ReadMarks(ok) /\ x09' = (x09 \/ ~ok)
  <2>1. "marks" \in x04 /\ x04' = x04 \ {"marks"} /\ x09' = (x09 \/ ~ok)
    BY <1>3 DEF Layouts!ReadMarks
  <2>2. PICK ms \in MarkStates : Layouts!Settle(x02, ms, x02, ms) /\ (ok => ms = x01.marks)
    BY <1>3 DEF Layouts!ReadMarks, LayoutsInv, LayoutsType
  <2>3. LayoutsType'
    BY <1>1, <2>1, <2>2, SettleIs DEF LayoutsInv, LayoutsType
  <2>4. LoadingIsClean'
    BY <1>1, <2>1, <2>2, SettleIs DEF LayoutsInv, LayoutsType, LoadingIsClean
  <2>5. MarksAreKept'
    <3>1. x05.marks = None /\ (x05'.marks = None \/ x05'.marks = x03')
      BY <2>1, <2>2, SettleIs DEF LayoutsInv, LayoutsType, LoadingIsClean
    <3>2. ok => \A b \in Boards : x01.marks[b] \subseteq x03'[b]
      <4>1. \A b \in Boards : ms[b] \subseteq x03'[b]
        BY <2>2, SettleIs DEF LayoutsInv, LayoutsType
      <4> QED BY <2>2, <4>1
    <3> QED BY <1>1, <2>1, <3>1, <3>2 DEF LayoutsInv, MarksAreKept
  <2>6. Layouts!FloorHolds'
    BY <2>2, SettledAboveFloor DEF LayoutsInv, LayoutsType
  <2> QED BY <2>3, <2>4, <2>5, <2>6 DEF LayoutsInv
<1> QED BY <1>2, <1>3 DEF Layouts!Read

\* What replaces the stored marks has all of them.
LEMMA WrittenKeepsInv ==
  ASSUME LayoutsInv, NEW key \in {"boards", "marks"}, NEW ok \in BOOLEAN, Layouts!Written(key, ok)
  PROVE  LayoutsInv'
<1>1. LayoutsType'
  BY DEF LayoutsInv, LayoutsType, Layouts!Written
<1>2. LoadingIsClean'
  BY DEF LayoutsInv, LayoutsType, LoadingIsClean, Layouts!Written
<1>3. MarksAreKept'
  BY DEF LayoutsInv, LayoutsType, LoadingIsClean, MarksAreKept, Layouts!Written
<1>4. Layouts!FloorHolds'
  BY DEF LayoutsInv, Layouts!FloorHolds, Layouts!Written
<1> QED BY <1>1, <1>2, <1>3, <1>4 DEF LayoutsInv

\* A reload forgets the page, and what it was writing arrives or not.
LEMMA ReloadKeepsInv ==
  ASSUME LayoutsInv, Layouts!Reload
  PROVE  LayoutsInv'
<1>1. PICK arrived \in SUBSET {"boards", "marks"} :
        x01' = [k \in {"boards", "marks"} |->
                     IF k \in arrived /\ x05[k] # None THEN x05[k] ELSE x01[k]]
  BY DEF Layouts!Reload
<1>2. Layouts!NoMarks \in MarkStates
  BY DEF Layouts!NoMarks, MarkStates
<1>3. LayoutsType'
  BY <1>1, <1>2 DEF LayoutsInv, LayoutsType, Layouts!Reload
<1>4. LoadingIsClean'
  BY DEF LoadingIsClean, Layouts!Reload
<1>5. MarksAreKept'
  BY <1>1 DEF LayoutsInv, LayoutsType, MarksAreKept, Layouts!Reload
<1>6. Layouts!FloorHolds'
  BY DEF Layouts!FloorHolds, Layouts!Reload
<1> QED BY <1>3, <1>4, <1>5, <1>6 DEF LayoutsInv

\* A board that is added has no marks yet.
LEMMA AddBoardKeepsInv ==
  ASSUME LayoutsInv, NEW b \in Boards, Layouts!AddBoard(b)
  PROVE  LayoutsInv'
<1> DEFINE bs == Layouts!Put(IF x02 = None THEN << >> ELSE x02, b, Layouts!Empty)
<1>1. bs \in SharedStates
  BY PutBoard, NothingPlaced DEF LayoutsInv, LayoutsType
<1>2. /\ DOMAIN bs = {b} \cup (IF x02 = None THEN {} ELSE DOMAIN x02)
      /\ x01.marks[b] = {}
  BY DEF Layouts!Put, Layouts!AddBoard
<1>3. Layouts!Edit(bs) /\ x08' = x08
  BY DEF Layouts!AddBoard
<1> HIDE DEF bs
<1>4. "boards" \in x04 => \A x \in DOMAIN bs : x01.marks[x] = {}
  BY <1>2 DEF LayoutsInv, LoadingIsClean
<1> QED BY <1>1, <1>3, <1>4, EditKeepsInv DEF LayoutsInv, LayoutsType

LEMMA RemoveBoardKeepsInv ==
  ASSUME LayoutsInv, NEW b \in Boards, Layouts!RemoveBoard(b)
  PROVE  LayoutsInv'
<1> DEFINE bs == [x \in DOMAIN x02 \ {b} |-> x02[x]]
<1>1. x02 \in SharedStates /\ x02 # None
  BY DEF LayoutsInv, LayoutsType, Layouts!RemoveBoard, Layouts!Shows
<1>2. bs \in SharedStates
  <2>1. bs \in [DOMAIN x02 \ {b} -> BoardStates]
    BY <1>1, SharedElim
  <2> QED BY <1>1, <2>1, SharedElim, SharedIntro
<1>3. "boards" \in x04 => \A x \in DOMAIN bs : x01.marks[x] = {}
  BY <1>1 DEF LayoutsInv, LoadingIsClean
<1>4. Layouts!Edit(bs) /\ x08' = x08
  BY DEF Layouts!RemoveBoard
<1> QED BY <1>2, <1>3, <1>4, EditKeepsInv DEF LayoutsInv, LayoutsType

\* A change of one board the page shows.
LEMMA BoardEditKeepsInv ==
  ASSUME LayoutsInv, NEW b \in Boards, Layouts!Shows(b), NEW board \in BoardStates, Layouts!Edit(Layouts!With(b, board)),
         x08' \subseteq Boards \X Widgets,
         \A p \in x08' \ x08 : Layouts!Generic \in x01.marks[p[1]]
  PROVE  LayoutsInv'
<1>1. x02 \in SharedStates /\ x02 # None
  BY DEF LayoutsInv, LayoutsType, Layouts!Shows
<1>2. Layouts!With(b, board) \in SharedStates /\ DOMAIN Layouts!With(b, board) = DOMAIN x02
  <2>1. Layouts!With(b, board) \in [DOMAIN x02 -> BoardStates]
    BY <1>1, SharedElim DEF Layouts!With
  <2> QED BY <1>1, <2>1, SharedElim, SharedIntro
<1>3. "boards" \in x04 => \A x \in DOMAIN Layouts!With(b, board) : x01.marks[x] = {}
  BY <1>1, <1>2 DEF LayoutsInv, LoadingIsClean
<1> QED BY <1>2, <1>3, EditKeepsInv

LEMMA ShownBoard ==
  ASSUME LayoutsInv, NEW b \in Boards, Layouts!Shows(b)
  PROVE  /\ x02[b] \in BoardStates
         /\ x02[b].layout \in LayoutStates /\ x02[b].mobile \in LayoutStates \cup {None}
<1>1. x02[b] \in BoardStates
  BY SharedElim DEF LayoutsInv, LayoutsType, Layouts!Shows
<1> QED BY <1>1 DEF BoardStates

LEMMA NewLayout ==
  ASSUME NEW board \in BoardStates, NEW l \in LayoutStates
  PROVE  /\ [board EXCEPT !.layout = l] \in BoardStates
         /\ [board EXCEPT !.mobile = l] \in BoardStates
         /\ [board EXCEPT !.mobile = None] \in BoardStates
BY DEF BoardStates

LEMMA AddInstanceKeepsInv ==
  ASSUME LayoutsInv, NEW b \in Boards, NEW w \in Widgets, Layouts!AddInstance(b, w)
  PROVE  LayoutsInv'
<1> DEFINE l == Layouts!Put(x02[b].layout, w, Layouts!NewItem(w))
<1>1. Layouts!Shows(b) /\ x08' = x08
  BY DEF Layouts!AddInstance
<1>2. Layouts!NewItem(w) \in PlacedItems
  BY LayoutBounds DEF Layouts!NewItem, PlacedItems
<1>3. l \in LayoutStates
  BY <1>1, <1>2, ShownBoard, PutItem
<1>4. Layouts!Edit(Layouts!With(b, [x02[b] EXCEPT !.layout = l]))
  BY DEF Layouts!AddInstance
<1> HIDE DEF l
<1> QED BY <1>1, <1>3, <1>4, ShownBoard, NewLayout, BoardEditKeepsInv DEF LayoutsInv, LayoutsType

LEMMA RemoveInstanceKeepsInv ==
  ASSUME LayoutsInv, NEW b \in Boards, NEW w \in Widgets, Layouts!RemoveInstance(b, w)
  PROVE  LayoutsInv'
<1> DEFINE Without(l) == [x \in DOMAIN l \ {w} |-> l[x]]
           board == [layout |-> Without(x02[b].layout),
                     mobile |-> IF x02[b].mobile = None THEN None
                                ELSE Without(x02[b].mobile)]
<1>1. Layouts!Shows(b) /\ Layouts!Edit(Layouts!With(b, board)) /\ x08' = x08 \ {<<b, w>>}
  BY DEF Layouts!RemoveInstance
<1>2. ASSUME NEW l \in LayoutStates PROVE Without(l) \in LayoutStates
  <2>1. Without(l) \in [DOMAIN l \ {w} -> PlacedItems]
    BY LayoutElim
  <2> QED BY <2>1, LayoutElim, LayoutIntro
<1>3. board \in BoardStates
  <2> HIDE DEF Without
  <2> QED BY <1>1, <1>2, ShownBoard DEF BoardStates
<1> HIDE DEF board
<1> QED BY <1>1, <1>3, BoardEditKeepsInv DEF LayoutsInv, LayoutsType

LEMMA ResizedIs ==
  ASSUME NEW l \in LayoutStates, NEW w, NEW h \in Layouts!Heights
  PROVE  Layouts!Resized(l, w, h) \in LayoutStates
<1>1. CASE w \in DOMAIN l
  <2>1. l[w] \in PlacedItems
    BY <1>1, LayoutElim
  <2>2. Layouts!Least(h, l[w].min) \in Layouts!Heights
    BY <2>1, LeastIs, HeightIs, LayoutBounds DEF PlacedItems
  <2>3. [l[w] EXCEPT !.h = Layouts!Least(h, l[w].min)] \in PlacedItems
    BY <2>1, <2>2 DEF PlacedItems
  <2>4. Layouts!Resized(l, w, h) = [l EXCEPT ![w] = [l[w] EXCEPT !.h = Layouts!Least(h, l[w].min)]]
    BY DEF Layouts!Resized
  <2>5. Layouts!Resized(l, w, h) \in [DOMAIN l -> PlacedItems]
    BY <2>3, <2>4, LayoutElim
  <2> QED BY <2>5, LayoutElim, LayoutIntro
<1>2. CASE w \notin DOMAIN l
  <2>1. Layouts!Resized(l, w, h) \in [DOMAIN l -> PlacedItems]
    BY <1>2, LayoutElim DEF Layouts!Resized
  <2> QED BY <2>1, LayoutElim, LayoutIntro
<1> QED BY <1>1, <1>2

LEMMA ResolvedIs ==
  ASSUME NEW board \in BoardStates
  PROVE  Layouts!Resolved(board) \in LayoutStates
<1>1. board.layout \in LayoutStates /\ board.mobile \in LayoutStates \cup {None}
  BY DEF BoardStates
<1>2. Layouts!Resolved(board) \in [DOMAIN board.layout -> PlacedItems]
  BY <1>1, LayoutElim DEF Layouts!Resolved
<1> QED BY <1>1, <1>2, LayoutElim, LayoutIntro

\* A resize counts as deliberate when the pass was recorded by then.
LEMMA ResizeKeepsInv ==
  ASSUME LayoutsInv, NEW b \in Boards, NEW w \in Widgets, NEW h \in Layouts!Heights,
         Layouts!Resize(b, w, h) \/ Layouts!ResizeMobile(b, w, h)
  PROVE  LayoutsInv'
<1>1. Layouts!Shows(b) /\ Layouts!Deliberate(b, w)
  BY DEF Layouts!Resize, Layouts!ResizeMobile
<1>2. x02[b] \in BoardStates /\ x02[b].layout \in LayoutStates
  BY <1>1, ShownBoard
<1>3. PICK l \in LayoutStates :
        \/ Layouts!Edit(Layouts!With(b, [x02[b] EXCEPT !.layout = l]))
        \/ Layouts!Edit(Layouts!With(b, [x02[b] EXCEPT !.mobile = l]))
  BY <1>2, ResizedIs, ResolvedIs DEF Layouts!Resize, Layouts!ResizeMobile
<1>4. /\ x08' \subseteq Boards \X Widgets
      /\ \A p \in x08' \ x08 : Layouts!Generic \in x01.marks[p[1]]
  BY <1>1 DEF Layouts!Deliberate, LayoutsInv, LayoutsType
<1> QED BY <1>1, <1>2, <1>3, <1>4, NewLayout, BoardEditKeepsInv

LEMMA ResetKeepsInv ==
  ASSUME LayoutsInv, NEW b \in Boards, Layouts!ResetMobileLayout(b)
  PROVE  LayoutsInv'
<1>1. Layouts!Shows(b) /\ x08' = x08 /\ Layouts!Edit(Layouts!With(b, [x02[b] EXCEPT !.mobile = None]))
  BY DEF Layouts!ResetMobileLayout
<1>2. [x02[b] EXCEPT !.mobile = None] \in BoardStates
  BY <1>1, ShownBoard, NewLayout
<1> QED BY <1>1, <1>2, BoardEditKeepsInv DEF LayoutsInv, LayoutsType

\* What the invariant says of the stored and the shown boards.
LEMMA LayoutsTyped == LayoutsInv => Layouts!TypeOK
<1> SUFFICES ASSUME LayoutsInv PROVE Layouts!TypeOK
  OBVIOUS
<1>1. ASSUME NEW l \in LayoutStates PROVE Layouts!IsLayout(l)
  BY LayoutElim DEF Layouts!IsLayout, PlacedItems
<1>2. ASSUME NEW bs \in SharedStates PROVE Layouts!AreBoards(bs)
  <2>1. \A b \in DOMAIN bs : bs[b].layout \in LayoutStates /\ bs[b].mobile \in LayoutStates \cup {None}
    BY SharedElim DEF BoardStates
  <2> QED BY <1>1, <2>1, SharedElim DEF Layouts!AreBoards
<1> QED BY <1>2 DEF LayoutsInv, LayoutsType, Layouts!TypeOK, MarkStates

\* The load meets a board the user resized after the pass: its mark was read with it.
LEMMA LoadLeavesResizes ==
  ASSUME LayoutsInv, Layouts!Next, x04 # {}, x04' = {}, ~x09'
  PROVE  Layouts!LeavesResizes
<1>1. PICK ok \in BOOLEAN : Layouts!Read(ok)
  BY DEF Layouts!Next, Layouts!Written, Layouts!Reload, Layouts!AddBoard, Layouts!RemoveBoard, Layouts!AddInstance, Layouts!RemoveInstance,
     Layouts!Resize, Layouts!ResizeMobile, Layouts!ResetMobileLayout, Layouts!Edit
<1> SUFFICES ASSUME NEW p \in x08, p[2] # Passport, Layouts!Undoes(p[1], p[2])
             PROVE  FALSE
  BY DEF Layouts!LeavesResizes
<1> DEFINE met == IF "boards" \in x04 THEN x01.boards ELSE x02
           b == p[1]
           w == p[2]
<1>2. b \in Boards /\ w \in Widgets
  BY DEF LayoutsInv, LayoutsType
<1>3. /\ x02' # None /\ b \in DOMAIN x02' /\ b \in DOMAIN met /\ w \in DOMAIN met[b].layout
      /\ x02'[b].layout[w].h # met[b].layout[w].h
  BY DEF Layouts!Undoes, Layouts!Shows
<1>4. PICK ms \in MarkStates : /\ met \in SharedStates \cup {None} /\ Layouts!Settle(met, ms, met, ms)
                          /\ Layouts!Generic \in ms[b]
  <2>1. CASE Layouts!ReadBoards(ok) /\ UNCHANGED x09
    <3>1. "marks" \notin x04 /\ "boards" \in x04 /\ ~x09
      BY <2>1 DEF Layouts!ReadBoards, LayoutsInv, LayoutsType
    <3>2. Layouts!Generic \in x01.marks[b] /\ x01.marks[b] \subseteq x03[b]
      BY <1>2, <3>1 DEF LayoutsInv, MarksAreKept
    <3>3. CASE ok
      BY <2>1, <3>1, <3>2, <3>3 DEF Layouts!ReadBoards, LayoutsInv, LayoutsType
    <3>4. CASE ~ok
      <4>1. Layouts!Settle(x02, x03, x02, x03)
        BY <2>1, <3>4 DEF Layouts!ReadBoards
      <4>2. x02 # None /\ b \in DOMAIN x02
        BY <1>3, <4>1, SettleMigrates DEF LayoutsInv, LayoutsType
      <4> QED BY <1>2, <3>1, <3>2, <4>2 DEF LayoutsInv, LoadingIsClean
    <3> QED BY <3>3, <3>4
  <2>2. CASE Layouts!ReadMarks(ok) /\ x09' = (x09 \/ ~ok)
    <3>1. ok /\ ~x09
      BY <2>2, Zenon
    <3>2. "boards" \notin x04
      BY <2>2 DEF Layouts!ReadMarks
    <3>3. Layouts!Generic \in x01.marks[b]
      BY <3>1 DEF LayoutsInv, MarksAreKept
    <3>4. Layouts!Settle(x02, x01.marks, x02, x01.marks)
      BY <2>2, <3>1 DEF Layouts!ReadMarks
    <3>5. met = x02 /\ x02 \in SharedStates \cup {None} /\ x01.marks \in MarkStates
      BY <3>2 DEF LayoutsInv, LayoutsType
    <3> HIDE DEF met
    <3> QED BY <3>3, <3>4, <3>5
  <2> QED BY <1>1, <2>1, <2>2 DEF Layouts!Read
<1> HIDE DEF met
<1>5. /\ met \in SharedStates
      /\ \A x \in DOMAIN met : x02'[x] = Layouts!Migrated(met[x], ms[x])
  BY <1>3, <1>4, SettleMigrates DEF LayoutsInv
<1>6. x02'[b] = Layouts!Migrated(met[b], ms[b]) /\ met[b] \in BoardStates
  BY <1>3, <1>5, SharedElim
<1> QED BY <1>3, <1>4, <1>6, MigratedIs

LEMMA LayoutsStep ==
  ASSUME LayoutsInv, Layouts!Next
  PROVE  LayoutsInv'
BY ReadKeepsInv, WrittenKeepsInv, ReloadKeepsInv, AddBoardKeepsInv, RemoveBoardKeepsInv,
   AddInstanceKeepsInv, RemoveInstanceKeepsInv, ResizeKeepsInv, ResetKeepsInv DEF Layouts!Next

\* Whatever is stored, lost or not read, and however often the page is loaded: the
\* passport checker is never shown below its floor once both keys are read, and a
\* height chosen after the generic pass was recorded is not raised by a load, as
\* long as no first read of the marks has failed (migrateSharedBoardHeights).
THEOREM LoadsAreSound == Spec => MigrationSound
<1> DEFINE I == part = "layouts" => LayoutsInv
<1>1. Init => I
  BY LayoutsInitial DEF Init
<1>2. I /\ [Next]_vars => I'
  <2>1. ASSUME I, Next, part = "layouts" PROVE LayoutsInv'
    BY <2>1, LayoutsStep DEF Next
  <2>2. ASSUME LayoutsInv, UNCHANGED vars PROVE LayoutsInv'
    <3>1. UNCHANGED <<x01, x02, x03, x04, x05, x08, x09>>
      BY <2>2 DEF vars, shared
    <3> QED BY <2>2, <3>1 DEF LayoutsInv, LayoutsType, LoadingIsClean, MarksAreKept,
              Layouts!FloorHolds
  <2>3. [Next]_vars => part' = part
    BY DEF Next, vars
  <2> QED BY <2>1, <2>2, <2>3
<1>3. I /\ I' /\ [Next]_vars => [part = "layouts" => Layouts!MigratesSoundly]_shared
  <2> SUFFICES ASSUME I, I', Next, part = "layouts" PROVE Layouts!MigratesSoundly
    BY DEF vars
  <2>1. LayoutsInv /\ LayoutsInv' /\ Layouts!Next
    BY DEF Next
  <2>2. Layouts!TypeOK' /\ Layouts!FloorHolds'
    BY <2>1, LayoutsTyped, PTL DEF LayoutsInv
  <2> QED BY <2>1, <2>2, LoadLeavesResizes DEF Layouts!MigratesSoundly
<1> QED BY <1>1, <1>2, <1>3, PTL DEF Spec, MigrationSound

-----------------------------------------------------------------------------
(* Duty: a decision is about whom the board shows, and it stands.  x01 is  *)
(* the ledger, x02 today, x03 the handlers, x04 the nightly run, x06 tells *)
(* that its day was written since it looked.                               *)

\* The second look holds until the append, unless somebody wrote in between.
DutyInv ==
  /\ x03 = [h \in Handlers |-> x03[h]] /\ x06 \in BOOLEAN
  /\ x04 = [phase |-> x04.phase, day |-> x04.day, drafts |-> x04.drafts, at |-> x04.at]
  /\ x04.phase = "write" /\ Chores!Closed(x01, x04.at) => x06

LEMMA DutyInitial == Chores!Init => DutyInv
<1> SUFFICES ASSUME Chores!Init PROVE DutyInv
  OBVIOUS
<1>1. x03 = [h \in Handlers |-> x03[h]]
  BY DEF Chores!Init
<1>2. /\ x04 = [phase |-> x04.phase, day |-> x04.day, drafts |-> x04.drafts, at |-> x04.at]
      /\ x04.phase = "idle"
  BY DEF Chores!Init, Chores!NoRun
<1> QED BY <1>1, <1>2 DEF Chores!Init, DutyInv

LEMMA DutyStep ==
  ASSUME DutyInv, Chores!Next
  PROVE  DutyInv'
<1>1. ASSUME NEW h \in Handlers, NEW kind, NEW d, Chores!Handle(h, kind, d) PROVE DutyInv'
  BY <1>1 DEF Chores!Handle, Chores!ghosts, DutyInv, Chores!Closed
<1>2. ASSUME NEW h \in Handlers, Chores!Finish(h) PROVE DutyInv'
  <2>1. /\ x04' = x04 /\ x06' \in BOOLEAN
        /\ x03' = [x03 EXCEPT ![h] = None]
    BY <1>2 DEF Chores!Finish, DutyInv
  <2>2. x03' = [g \in Handlers |-> x03'[g]]
    BY <2>1 DEF DutyInv
  <2>3. CASE UNCHANGED <<x01, x06>>
    BY <2>1, <2>2, <2>3 DEF DutyInv, Chores!Closed
  <2>4. CASE /\ x01' = [x01 EXCEPT ![x03[h].day] = x03[h].entry]
             /\ x06' = (x06 \/ (x04.phase = "write" /\ x04.at = x03[h].day))
    <3>1. CASE x04.at = x03[h].day
      BY <2>1, <2>2, <2>4, <3>1 DEF DutyInv
    <3>2. CASE x04.at # x03[h].day
      <4>1. x01'[x04.at] = x01[x04.at]
        BY <2>4, <3>2
      <4> QED BY <2>1, <2>2, <2>4, <4>1 DEF DutyInv, Chores!Closed
    <3> QED BY <3>1, <3>2
  <2> QED BY <1>2, <2>3, <2>4 DEF Chores!Finish
<1>3. ASSUME Chores!Over, x03' = x03 PROVE DutyInv'
  BY <1>3 DEF Chores!Over, Chores!NoRun, DutyInv
<1>4. ASSUME Chores!GoOn, x03' = x03 PROVE DutyInv'
  BY <1>3, <1>4 DEF Chores!GoOn, Chores!Succeeds, DutyInv
<1>5. ASSUME NEW day, Chores!CronReads(day) PROVE DutyInv'
  BY <1>3, <1>5 DEF Chores!CronReads, Chores!Succeeds, DutyInv
<1>6. CASE Chores!CronLooks
  <2>1. CASE Chores!Closed(x01, x04.at)
    BY <1>4, <1>6, <2>1 DEF Chores!CronLooks
  <2>2. CASE ~Chores!Closed(x01, x04.at)
    BY <1>6, <2>2 DEF Chores!CronLooks, Chores!ghosts, DutyInv, Chores!Closed
  <2> QED BY <2>1, <2>2
<1>7. CASE Chores!CronAppends
  BY <1>4, <1>7 DEF Chores!CronAppends
<1>8. CASE Chores!CronFails
  BY <1>3, <1>8 DEF Chores!CronFails
<1>9. CASE Chores!Midnight
  BY <1>9 DEF Chores!Midnight, Chores!ghosts, DutyInv, Chores!Closed
<1> QED BY <1>1, <1>2, <1>5, <1>6, <1>7, <1>8, <1>9 DEF Chores!Next

\* A clean of an open day is drafted for whom the board shows.
LEMMA CleanIsShown ==
  ASSUME NEW kind, NEW d, NEW draft, draft = Chores!Draft(kind, x01, x02, d),
         kind \in {"clean", "debt", "forgive", "undo"},
         draft # None, draft.type = "cleaned", ~Chores!Closed(x01, d)
  PROVE  draft.actor = Chores!Shown(x01, x02, d)
<1>1. kind = "clean"
  BY DEF Chores!Draft, Chores!Entry
<1>2. draft = Chores!CleanDraft(x01, x02, d, FALSE)
  BY <1>1 DEF Chores!Draft
<1>3. Chores!DebtDayFor(x01, x02, d, FALSE) = Chores!DebtorOf(x01, x02, d)
  BY DEF Chores!DebtDayFor
<1> DEFINE debtor == Chores!DebtorOf(x01, x02, d)
<1>4. draft.actor = IF debtor = None THEN Chores!DutyOf(d) ELSE debtor
  <2>1. draft = IF debtor = None THEN Chores!Entry("cleaned", Chores!DutyOf(d), None)
                ELSE Chores!Entry("cleaned", debtor, Chores!DutyOf(d))
    BY <1>2, <1>3 DEF Chores!CleanDraft
  <2> HIDE DEF debtor
  <2> QED BY <2>1 DEF Chores!Entry
<1>5. Chores!Shown(x01, x02, d) = IF debtor # None THEN debtor ELSE Chores!DutyOf(d)
  BY DEF Chores!Shown
<1> HIDE DEF debtor
<1> QED BY <1>4, <1>5

LEMMA CreditsAreShown ==
  ASSUME DutyInv, Chores!Next
  PROVE  Chores!CreditsShown
<1> SUFFICES ASSUME NEW h \in Handlers, x03[h] = None, x03'[h] # None,
                    x03'[h].entry.type = "cleaned", ~Chores!Closed(x01, x03'[h].day)
             PROVE  x03'[h].entry.actor = Chores!Shown(x01, x02, x03'[h].day)
  BY DEF Chores!CreditsShown
<1>1. PICK g \in Handlers, kind \in {"clean", "debt", "forgive", "undo"}, d \in Chores!Days :
        Chores!Handle(g, kind, d)
  <2>1. ASSUME NEW g \in Handlers, Chores!Finish(g) PROVE FALSE
    BY <2>1 DEF Chores!Finish, DutyInv
  <2>2. ASSUME x03' = x03 PROVE FALSE
    BY <2>2
  <2>3. (\E day \in Chores!Days : Chores!CronReads(day)) \/ Chores!CronLooks
          \/ Chores!CronAppends \/ Chores!CronFails \/ Chores!Midnight => x03' = x03
    BY DEF Chores!CronReads, Chores!CronLooks, Chores!CronAppends, Chores!CronFails, Chores!Midnight
  <2> QED BY <2>1, <2>2, <2>3 DEF Chores!Next
<1> DEFINE draft == Chores!Draft(kind, x01, x02, d)
<1>2. draft # None /\ x03' = [x03 EXCEPT ![g] = [day |-> d, entry |-> draft]]
  BY <1>1 DEF Chores!Handle
<1> HIDE DEF draft
<1>3. g = h /\ x03'[h].day = d /\ x03'[h].entry = draft
  BY <1>2 DEF DutyInv
<1> QED BY <1>2, <1>3, CleanIsShown DEF draft

\* The nightly run overrides no decision, whether or not it is run again after a
\* failure, but one that falls between its second look at the day and the append;
\* and confirming an open day credits the person the board names for it
\* (autoApproveDay, readDraftInput).
THEOREM DecisionsStand == Spec => DecisionStands
<1> DEFINE I == part = "duty" => DutyInv
<1>1. Init => I
  BY DutyInitial DEF Init
<1>2. I /\ [Next]_vars => I'
  <2>1. ASSUME I, Next, part = "duty" PROVE DutyInv'
    BY <2>1, DutyStep DEF Next
  <2>2. ASSUME DutyInv, UNCHANGED vars PROVE DutyInv'
    <3>1. UNCHANGED <<x01, x03, x04, x06>>
      BY <2>2 DEF vars, shared
    <3> QED BY <2>2, <3>1 DEF DutyInv, Chores!Closed
  <2>3. [Next]_vars => part' = part
    BY DEF Next, vars
  <2> QED BY <2>1, <2>2, <2>3
<1>3. I /\ [Next]_vars =>
        [part = "duty" => Chores!LeavesDecisions /\ Chores!CreditsShown]_shared
  <2> SUFFICES ASSUME I, Next, part = "duty"
               PROVE  Chores!LeavesDecisions /\ Chores!CreditsShown
    BY DEF vars
  <2>1. DutyInv /\ Chores!Next
    BY DEF Next
  <2>2. Chores!LeavesDecisions
    BY <2>1 DEF Chores!LeavesDecisions, DutyInv
  <2> QED BY <2>1, <2>2, CreditsAreShown
<1> QED BY <1>1, <1>2, <1>3, PTL DEF Spec, DecisionStands

=============================================================================
