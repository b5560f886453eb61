--------------------------- MODULE RecoveryViewer ---------------------------
(***************************************************************************)
(* The live viewer of a browser session that has to be recovered:          *)
(* packages/widgets/passport-checker/model/recovery-model.ts, its canvas   *)
(* (ui/parts/NoVncCanvas.tsx) and the answers of its transport             *)
(* (model/recovery-transport.ts, model/load-rfb.ts).                       *)
(*                                                                         *)
(* An attempt asks for access and for the viewer's module at once, waits   *)
(* for both, and builds a viewer that counts down to its expiry.  Canvases *)
(* come and go, and the buttons start another attempt, at any time.        *)
(***************************************************************************)
EXTENDS Naturals, FiniteSets

CONSTANT MaxStarts  \* bound: how often start or teardown is called

ASSUME StartsAssumption == MaxStarts \in Nat \ {0}

VARIABLES
  view,     \* the kind of RecoveryState
  tries,    \* the model's counter `attempt`: the current attempt's number
  issuing,  \* attempts that wait for access and for the module
  viewers,  \* attempts whose viewer is built and not disposed
  session,  \* the attempt whose viewer the model holds, or 0
  mounted,  \* a canvas is mounted
  unbuilt,  \* history: the last attempt whose viewer could not be built, or 0
  closing   \* the flow has been finished and the canvas is not yet gone

viewerVars == <<view, tries, issuing, viewers, session, mounted, unbuilt, closing>>

ViewerInit ==
  /\ view = "issuing" /\ tries = 0 /\ issuing = {} /\ viewers = {} /\ session = 0
  /\ mounted = FALSE /\ unbuilt = 0 /\ closing = FALSE

\* disposeSession, and the listeners and the timer of its viewer with it.
Dispose == viewers' = viewers \ {session} /\ session' = 0

-----------------------------------------------------------------------------
Start ==
  /\ tries < MaxStarts /\ tries' = tries + 1
  /\ Dispose
  /\ view' = "issuing" /\ issuing' = issuing \cup {tries'}
  /\ UNCHANGED unbuilt

\* Mutant: an attempt that is waiting for access outlives the teardown.
TeardownQuietly == Dispose /\ UNCHANGED <<view, issuing, tries, unbuilt>>

\* The attempt under way is stale before its viewer is disposed.
Teardown ==
  /\ tries < MaxStarts /\ tries' = tries + 1
  /\ Dispose
  /\ UNCHANGED <<view, issuing, unbuilt>>

Mount ==
  /\ ~mounted /\ mounted' = TRUE
  /\ Start
  /\ UNCHANGED closing

Unmount ==
  /\ mounted /\ mounted' = FALSE /\ closing' = FALSE
  /\ Teardown

Reconnect ==
  /\ mounted /\ ~closing
  /\ view \in {"disconnected", "expired", "unavailable", "busy", "automationDown",
               "viewerUnavailable"}
  /\ Start
  /\ UNCHANGED <<mounted, closing>>

\* finish of the recovery flow: torn down first, unmounted by the next render.
Finish ==
  /\ mounted /\ ~closing /\ closing' = TRUE
  /\ Teardown
  /\ UNCHANGED mounted

-----------------------------------------------------------------------------
\* Access and the module have arrived, or one of them has not.  If building the
\* viewer throws, the attempt ends there and says "connecting" for good.
Issued(a) ==
  /\ a \in issuing /\ issuing' = issuing \ {a}
  /\ IF a # tries THEN UNCHANGED <<view, viewers, session, unbuilt>>
     ELSE \/ /\ view' = "connecting"
             /\ viewers' = viewers \cup {a} /\ session' = a
             /\ UNCHANGED unbuilt
          \/ /\ view' = "connecting" /\ unbuilt' = a
             /\ UNCHANGED <<viewers, session>>
          \/ /\ view' \in {"busy", "unavailable", "automationDown", "viewerUnavailable"}
             /\ UNCHANGED <<viewers, session, unbuilt>>
  /\ UNCHANGED <<tries, mounted, closing>>

Connected(a) ==
  /\ a \in viewers /\ view = "connecting"
  /\ view' = IF a = tries THEN "connected" ELSE view
  /\ UNCHANGED <<tries, issuing, viewers, session, mounted, unbuilt, closing>>

\* The connection breaks or is refused, or the countdown ends.
Ends(a) ==
  /\ a \in viewers /\ a = tries
  /\ view' \in {"disconnected", "expired"}
  /\ Dispose
  /\ UNCHANGED <<tries, issuing, mounted, unbuilt, closing>>

ViewerNext ==
  \/ Mount \/ Unmount \/ Reconnect \/ Finish
  \/ \E a \in 1..MaxStarts : Issued(a) \/ Connected(a) \/ Ends(a)

ViewerSpec == ViewerInit /\ [][ViewerNext]_viewerVars

-----------------------------------------------------------------------------
ViewerTypeOK ==
  /\ view \in {"issuing", "connecting", "connected", "disconnected", "expired",
               "unavailable", "busy", "automationDown", "viewerUnavailable"}
  /\ tries \in 0..MaxStarts /\ session \in 0..MaxStarts
  /\ issuing \subseteq 1..MaxStarts /\ viewers \subseteq 1..MaxStarts
  /\ mounted \in BOOLEAN /\ unbuilt \in 0..MaxStarts /\ closing \in BOOLEAN

\* No viewer is orphaned: one that is built and not disposed is the one the
\* model holds, it belongs to the current attempt, and none is left once the
\* canvas is gone or the flow was finished.  And what the canvas says is live
\* is live: when it is connecting or connected it has a viewer behind it,
\* unless building that viewer threw (recovery-model.ts:99-102).
OneViewer ==
  /\ ViewerTypeOK
  /\ viewers \subseteq {session} /\ (viewers # {} => session = tries)
  /\ viewers # {} => mounted /\ ~closing
  /\ mounted /\ ~closing /\ view \in {"connecting", "connected"} =>
       viewers # {} \/ unbuilt = tries
=============================================================================
