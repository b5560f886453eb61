--------------------------- MODULE OverlayHistory ---------------------------
(***************************************************************************)
(* Open overlays mirrored onto browser history entries, so that the back   *)
(* gesture closes the topmost one: packages/widget-runtime/src/            *)
(* overlay-history.ts, driven by the hook use-overlay-back-dismiss.ts.     *)
(*                                                                         *)
(* The browser's session history is a sequence of entries, of which only   *)
(* the `overlayDepth` mark matters.  A traversal is asynchronous: it is    *)
(* put in `pending` when it is requested and moves the browser when it     *)
(* lands.  The timer of a deferred traversal is armed exactly while a      *)
(* depth is owed, so `owed` stands for both module variables.              *)
(*                                                                         *)
(* The module cannot tell that a traversal is in flight: a push, a drop, a *)
(* dismissal and the timer go by the depth of the entry history stands on, *)
(* which is stale until the traversal lands.  The callers are held to two  *)
(* of the constraints the source documents for them: nothing is opened     *)
(* while the flush's own traversal is in flight, and a debt is claimed by  *)
(* at most one overlay per commit.                                         *)
(*                                                                         *)
(* Of the browser: a traversal goes on from where the last one in flight   *)
(* will end, and one that a push or a reload overtook goes nowhere.        *)
(***************************************************************************)
EXTENDS Integers, SequencesExt

CONSTANTS Overlays,    \* the components that can show an overlay
          MaxEntries,  \* bound on the session history
          MaxPending   \* bound on back and forward presses in flight

ASSUME BoundsAssumption == MaxEntries \in Nat \ {0} /\ MaxPending \in Nat

NoDebt  == -1
Outside == 0           \* the entry of the page visited before the application

VARIABLES
  stack,      \* the registered overlays, [id, depth], bottom first
  marks,      \* the overlayDepth of every history entry
  at,         \* the entry the browser stands on
  owed,       \* the depth the deferred traversal must land on, or NoDebt
  listening,  \* popstate listener installed since the page was loaded
  pending,    \* the entries the traversals in flight will land on
  claimed,    \* ghost: the present debt has been claimed by an opened overlay
  returning,  \* ghost: the landings until the last flush's own has landed
  crossed,    \* ghost: a push or a flush went by a stale depth, and history
              \* has not come to rest with every overlay closed since
  doomed,     \* ghost: overlays somebody asked to be closed
  stray       \* ghost: history went to an entry no open overlay left, and
              \* has not been back at an unmarked one since

overlayVars == <<stack, marks, at, owed, listening, pending, claimed, returning, crossed,
                 doomed, stray>>

Ids(s)    == {s[i].id : i \in DOMAIN s}
Depth     == marks[at]
AtRest    == owed = NoDebt /\ pending = <<>>
Running   == at # Outside

OverlayInit ==
  /\ stack = <<>> /\ marks = <<0>> /\ at = 1
  /\ owed = NoDebt /\ listening = FALSE
  /\ pending = <<>> /\ claimed = FALSE /\ doomed = {} /\ stray = FALSE
  /\ returning = 0 /\ crossed = FALSE

-----------------------------------------------------------------------------
(* The module's operations, on its whole state.                            *)

Here == [stack |-> stack, marks |-> marks, at |-> at, owed |-> owed]

Becomes(s) == stack' = s.stack /\ marks' = s.marks /\ at' = s.at /\ owed' = s.owed

\* What reconcile leaves of a stack when history stands at a depth.
Backed(s, depth) ==
  LET Stays(n) == n <= depth /\ (n = 0 \/ s[n].depth <= depth)
  IN  SubSeq(s, 1, Max({n \in 0..Len(s) : n = 0 \/ Stays(n)}))

\* A mark that survived a reload names no overlay: the first push clears it.
Listened(s) == IF listening THEN s ELSE [s EXCEPT !.marks[s.at] = 0]

\* Mutant: every push adds an entry and forgets what is owed.
PushedAnew(s, e) ==
  LET depth == s.marks[s.at]
  IN  [s EXCEPT !.stack = Append(s.stack, [id |-> e, depth |-> depth + 1]),
                !.marks = Append(SubSeq(s.marks, 1, s.at), depth + 1),
                !.at    = s.at + 1]

\* Mutant: an overlay that takes over a dropped entry goes on top of the stack.
PushedOnTop(s, e) ==
  LET depth == s.marks[s.at]
      claim == s.owed + 1
  IN  IF s.owed # NoDebt /\ s.owed < depth
      THEN [s EXCEPT !.stack = Append(s.stack, [id |-> e, depth |-> claim]),
                     !.owed  = IF claim = depth THEN NoDebt ELSE claim]
      ELSE [stack |-> Append(s.stack, [id |-> e, depth |-> depth + 1]),
            marks |-> Append(SubSeq(s.marks, 1, s.at), depth + 1),
            at    |-> s.at + 1,
            owed  |-> NoDebt]

\* A push takes over an entry a drop still owes back, or adds one.
Pushed(s, e) ==
  LET depth == s.marks[s.at]
      claim == s.owed + 1
      slot  == Min({claim, Len(s.stack) + 1})
  IN  IF s.owed # NoDebt /\ s.owed < depth
      THEN [s EXCEPT !.stack = InsertAt(s.stack, slot, [id |-> e, depth |-> claim]),
                     !.owed  = IF claim = depth THEN NoDebt ELSE claim]
      ELSE [stack |-> Append(s.stack, [id |-> e, depth |-> depth + 1]),
            marks |-> Append(SubSeq(s.marks, 1, s.at), depth + 1),
            at    |-> s.at + 1,
            owed  |-> NoDebt]

\* The overlay is gone already; the depth below it is what history owes.
Dropped(s, e) ==
  LET i == CHOOSE j \in DOMAIN s.stack : s.stack[j].id = e
  IN  [s EXCEPT !.stack = RemoveAt(s.stack, i),
                !.owed  = IF s.owed = NoDebt THEN i - 1 ELSE Min({s.owed, i - 1})]

\* The overlays above e: their entries go with that of e.
Above(e) ==
  LET i == CHOOSE j \in DOMAIN stack : stack[j].id = e
  IN  {stack[j].id : j \in i + 1 .. Len(stack)}

\* A traversal asked for now starts where the last one in flight will end.
From == IF pending = <<>> THEN at ELSE Last(pending)

\* The overlays that history at entry `to` no longer backs.
Unbacked(to) ==
  IF to = Outside THEN Ids(stack) ELSE Ids(stack) \ Ids(Backed(stack, marks[to]))

\* The entry n back from there; Outside stands for all before the application.
Earlier(n) == IF n < From THEN From - n ELSE Outside

-----------------------------------------------------------------------------
(* What the user interface does.                                           *)

\* A component commits with its overlay open; StrictMode mounts it twice.  A
\* new entry takes away those ahead: a traversal to one of them stays put.
Open(e, strict) ==
  /\ Running /\ returning = 0
  /\ e \notin Ids(stack) /\ at < MaxEntries
  /\ owed = NoDebt \/ ~claimed
  /\ LET once == Pushed(Listened(Here), e)
     IN  Becomes(IF strict THEN Pushed(Dropped(once, e), e) ELSE once)
  /\ listening' = TRUE
  /\ claimed' = (owed' # NoDebt)
  /\ pending' = [j \in DOMAIN pending |->
                   IF at' # at /\ pending[j] > at THEN at' ELSE pending[j]]
  /\ crossed' = (crossed \/ pending # <<>>)
  /\ doomed' = doomed \ {e}
  /\ UNCHANGED <<returning, stray>>

\* The owner closed the overlay itself: unmounted it, or set open to false.
Drop(e) ==
  /\ Running
  /\ e \in Ids(stack)
  /\ Becomes(Dropped(Here, e))
  /\ doomed' = (doomed \cup Above(e)) \ {e}
  /\ UNCHANGED <<listening, pending, claimed, returning, crossed, stray>>

\* The browser is asked to go back one entry.
GoBack ==
  /\ Running /\ Len(pending) < MaxPending
  /\ From # Outside
  /\ pending' = Append(pending, From - 1)
  /\ doomed' = doomed \cup Unbacked(From - 1)
  /\ UNCHANGED <<stack, marks, at, owed, listening, claimed, returning, crossed, stray>>

\* The platform back gesture, possibly several in a row.
Back == GoBack

\* Esc, a backdrop click or a close control of an overlay.
Dismiss == stack # <<>> /\ GoBack

Forward ==
  /\ Running /\ Len(pending) < MaxPending
  /\ From # Outside /\ From < Len(marks)
  /\ pending' = Append(pending, From + 1)
  /\ UNCHANGED <<stack, marks, at, owed, listening, claimed, returning, crossed, doomed, stray>>

\* The document is loaded again: the module starts over, history does not.
Reload ==
  /\ Running
  /\ stack' = <<>> /\ owed' = NoDebt /\ listening' = FALSE /\ pending' = <<>>
  /\ claimed' = FALSE /\ doomed' = {} /\ stray' = FALSE
  /\ returning' = 0 /\ crossed' = FALSE
  /\ UNCHANGED <<marks, at>>

-----------------------------------------------------------------------------
(* What the browser's event loop does.                                     *)

\* The deferred traversal is asked for, `steps` entries back.
Traverse(steps) ==
  /\ pending' = Append(pending, Earlier(steps))
  /\ returning' = Len(pending')
  /\ crossed' = (crossed \/ pending # <<>>)

\* Mutant: the timer goes back one entry, wherever history stands by then.
FlushBacks ==
  /\ Running /\ owed # NoDebt
  /\ owed' = NoDebt /\ claimed' = FALSE
  /\ Traverse(1)
  /\ UNCHANGED <<stack, marks, at, listening, doomed, stray>>

\* The timer of the deferred traversal.
Flush ==
  /\ Running /\ owed # NoDebt
  /\ owed' = NoDebt /\ claimed' = FALSE
  /\ IF Depth > owed THEN Traverse(Depth - owed)
                     ELSE UNCHANGED <<pending, returning, crossed>>
  /\ UNCHANGED <<stack, marks, at, listening, doomed, stray>>

\* A traversal lands; the popstate listener closes what lost its entry.
Land ==
  /\ Running /\ pending # <<>>
  /\ at' = Head(pending) /\ pending' = Tail(pending)
  /\ stack' = IF at' = Outside THEN <<>>
              ELSE IF listening THEN Backed(stack, marks[at']) ELSE stack
  /\ returning' = IF returning = 0 THEN 0 ELSE returning - 1
  /\ crossed' = (crossed /\ (pending' # <<>> \/ stack' # <<>>))
  /\ doomed' = doomed \cap Ids(stack')
  /\ stray' = (at' # Outside /\ marks[at'] # 0 /\ (stray \/ marks[at'] > Len(stack')))
  /\ UNCHANGED <<marks, owed, listening, claimed>>

OverlayNext ==
  \/ \E e \in Overlays : \/ \E strict \in BOOLEAN : Open(e, strict)
                         \/ Drop(e)
  \/ Dismiss \/ Back \/ Forward \/ Reload \/ Flush \/ Land

OverlaySpec == OverlayInit /\ [][OverlayNext]_overlayVars

-----------------------------------------------------------------------------
OverlayTypeOK ==
  /\ stack \in Seq([id : Overlays, depth : Nat])
  /\ marks \in Seq(Nat)
  /\ at \in 0..Len(marks)
  /\ owed \in {NoDebt} \cup Nat
  /\ pending \in Seq(0..Len(marks))
  /\ returning \in 0..Len(pending)
  /\ listening \in BOOLEAN /\ claimed \in BOOLEAN
  /\ crossed \in BOOLEAN /\ stray \in BOOLEAN
  /\ doomed \subseteq Overlays

\* Once nothing is owed and no traversal is in flight, history backs every
\* open overlay with an entry of its own at or below the current one: the two
\* truths the module keeps have not diverged.
Agree ==
    /\ \A i, j \in DOMAIN stack : i < j => stack[i].depth < stack[j].depth
    /\ \A i \in DOMAIN stack : stack[i].depth \in 1..Depth

SettledAgree ==
  OverlayTypeOK /\ (Running /\ AtRest /\ ~stray => Agree)

\* The overlays that go when a traversal lands; a reload is no landing.
Closes(e) ==
  /\ pending # <<>> /\ pending' = Tail(pending) /\ listening'
  /\ e \in Ids(stack) \ Ids(stack')

\* A traversal closes only overlays somebody asked to close: one that was
\* opened in the commit that dropped another does not flash and vanish.
\* Exempt is what follows a push or a flush that crossed a traversal in
\* flight, until history is at rest with no overlay open.
NoFlash ==
  [][\A e \in Overlays : Closes(e) /\ ~stray /\ ~crossed => e \in doomed]_overlayVars

\* A traversal out of the application is asked for.
AsksOut == Len(pending') = Len(pending) + 1 /\ Last(pending') = Outside

\* Only going back takes the user out of the application, and only once every
\* overlay has been asked to close; the traversal that a drop owes never does.
\* Exempt is the same as for NoFlash.
StaysInApp ==
  [][AsksOut /\ ~stray /\ ~crossed' => owed' = owed /\ Ids(stack) \subseteq doomed]_overlayVars
=============================================================================
