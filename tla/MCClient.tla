------------------------------ MODULE MCClient ------------------------------
(***************************************************************************)
(* The models of the web client as one state graph.  They share no state:  *)
(* a behaviour picks one of them as its part, and nothing else moves.  The *)
(* parts that are instances take turns with the variables x01 to x14.      *)
(***************************************************************************)
EXTENDS ClientSession, OverlayHistory, RecoveryViewer, PassportCheck

CONSTANTS
  Codes, MaxTicks,      \* of JoinDevice
  Devices, MaxEvents,   \* of OwnerDevices
  MaxCalls,             \* of both
  MaxWeek, MaxComments, \* of CommentThread
  First, Second, MaxDay, Window, Handlers, MaxDuties,                            \* of Duty
  Boards, Widgets, Passport, Default, Floor, MaxHeight, MaxEdits, MaxFaults,     \* of BoardLayouts
  None

ASSUME PartsAssumption ==
  /\ MaxTicks \in Nat /\ MaxEvents \in Nat \ {0} /\ MaxCalls \in Nat
  /\ MaxWeek \in Nat /\ MaxComments \in Nat
  /\ First # Second /\ MaxDay \in Nat /\ Window \in Nat
  /\ Boards # {} /\ MaxHeight \in Nat /\ Floor \in 1..MaxHeight
  /\ \A w \in Widgets : Default[w] \in 1..MaxHeight
  /\ None \notin Codes \cup Devices \cup Nat

\* A type whose height is above the passport checker's floor (Client.cfg's Default).
DefaultHeights == [w \in Widgets |-> IF w = Passport THEN 2 ELSE 3]

VARIABLES part, x01, x02, x03, x04, x05, x06, x07, x08, x09, x10, x11, x12, x13, x14

Join == INSTANCE JoinDevice WITH
  mode <- x01, error <- x02, token <- x03, claiming <- x04, ticks <- x05, polling <- x06,
  direct <- x07, open <- x08, call <- x09, cookie <- x10, session <- x11, live <- x12,
  device <- x13, tickets <- x14

Owner == INSTANCE OwnerDevices WITH
  list <- x01, error <- x02, phase <- x03, code <- x04, justApproved <- x05,
  modalError <- x06, dialogOpen <- x07, modalOpen <- x08, loggedOut <- x09, call <- x10,
  status <- x11, events <- x12, approved <- x13, gap <- x14

Chores == INSTANCE Duty WITH
  MaxEvents <- MaxDuties,
  ledger <- x01, today <- x02, handler <- x03, cron <- x04, cursor <- x05, raced <- x06,
  disturbed <- x07, before <- x08, events <- x09

Layouts == INSTANCE BoardLayouts WITH
  stored <- x01, boards <- x02, marks <- x03, loading <- x04, out <- x05, edits <- x06,
  faults <- x07, deliberate <- x08, unread <- x09

Thread == INSTANCE CommentThread WITH
  now <- x01, override <- x02, mounted <- x03, fetch <- x04, live <- x05, stream <- x06,
  comments <- x07, error <- x08, loadedKey <- x09, sending <- x10, stored <- x11

rest   == <<x10, x11, x12, x13, x14>>
shared == <<x01, x02, x03, x04, x05, x06, x07, x08, x09, rest>>

NoRest == x10 = None /\ x11 = None /\ x12 = None /\ x13 = None /\ x14 = None

Init ==
  /\ SessionInit /\ OverlayInit /\ ViewerInit /\ CheckInit
  /\ \/ part = "join"  /\ Join!Init
     \/ part = "owner" /\ Owner!Init
     \/ part = "duty"  /\ Chores!Init /\ NoRest
     \/ part = "layouts" /\ Layouts!Init /\ NoRest
     \/ /\ part = "comments" /\ Thread!Init
        /\ x12 = None /\ x13 = None /\ x14 = None
     \/ /\ part \in {"session", "overlay", "viewer", "check"}
        /\ x01 = None /\ x02 = None /\ x03 = None /\ x04 = None /\ x05 = None
        /\ x06 = None /\ x07 = None /\ x08 = None /\ x09 = None /\ NoRest
  /\ part # "session" => page = "board"

Next ==
  /\ UNCHANGED part
  /\ \/ /\ part = "session" /\ SessionNext
        /\ UNCHANGED <<overlayVars, viewerVars, checkVars, shared>>
     \/ /\ part = "overlay" /\ OverlayNext
        /\ UNCHANGED <<sessionVars, viewerVars, checkVars, shared>>
     \/ /\ part = "viewer" /\ ViewerNext
        /\ UNCHANGED <<sessionVars, overlayVars, checkVars, shared>>
     \/ /\ part = "check" /\ CheckNext
        /\ UNCHANGED <<sessionVars, overlayVars, viewerVars, shared>>
     \/ /\ \/ part = "join"  /\ Join!Next
           \/ part = "owner" /\ Owner!Next
           \/ part = "duty"  /\ Chores!Next /\ UNCHANGED rest
           \/ part = "layouts" /\ Layouts!Next /\ UNCHANGED rest
           \/ part = "comments" /\ Thread!Next /\ UNCHANGED <<x12, x13, x14>>
        /\ UNCHANGED <<sessionVars, overlayVars, viewerVars, checkVars>>

vars == <<part, sessionVars, overlayVars, viewerVars, checkVars, shared>>
Spec == Init /\ [][Next]_vars

-----------------------------------------------------------------------------
(* The properties of the parts that are instances.                         *)

\* Overlapping polls that see the approval lead to one claim (JoinDevice).
OneClaim == part = "join" => Join!OneClaim

\* The list of devices catches up with the server's (OwnerDevices).
ListCurrent == part = "owner" => Owner!ListCurrent

\* A closed modal shows nothing, an open one only what is so (OwnerDevices).
ModalIsHonest == part = "owner" => Owner!ModalIsHonest

\* Rows on the screen are the viewed week's, and a failure hides none (CommentThread).
ThreadIsOfTheWeek == part = "comments" => Thread!ThreadIsOfTheWeek

\* An undisturbed nightly run closes its days and settles debts once (Duty).
NightlySettlesOnce == [][part = "duty" => Chores!SettlesOnce]_shared

\* A decision credits whom the board shows, and the nightly run leaves it (Duty).
DecisionStands == [][part = "duty" => Chores!LeavesDecisions /\ Chores!CreditsShown]_shared

\* A load keeps the passport's floor and the user's resizes (BoardLayouts).
MigrationSound == [][part = "layouts" => Layouts!MigratesSoundly]_shared
=============================================================================
