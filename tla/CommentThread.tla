---------------------------- MODULE CommentThread ----------------------------
(***************************************************************************)
(* The comments of a week in the duty widget: the week the board is turned *)
(* to (model/ofelia-duty.ts), the thread it shows for that week            *)
(* (model/ofelia-comments.ts) over a read-only mirror of the storage       *)
(* (widget-runtime, withStorageKeyReadonly) whose key follows the week,    *)
(* and the comments sent from the thread and from elsewhere.               *)
(*                                                                         *)
(* The mirror keeps one value over all weeks; its subscription is replaced *)
(* when the key changes or the column is mounted anew, and what the old    *)
(* one was still owed is dropped.  A thread is known by its week and its   *)
(* length; a week nobody wrote in has no key and reads as the fallback.    *)
(* The draft in the input is left out.                                     *)
(***************************************************************************)
EXTENDS Naturals, Sequences

CONSTANTS MaxWeek,     \* bound: the weeks there are
          MaxComments, \* bound: the comments of a week
          None

Weeks == 0..MaxWeek

VARIABLES
  now, override,       \* the current week, and startOfWeekOverride
  mounted,             \* a column reads the thread
  fetch, live, stream, \* the subscription: first read, liveVersion, events
  comments, error,     \* the mirror: its value and its error
  loadedKey,
  sending,             \* the week of a comment on its way, or None
  stored               \* the server: the length of every thread

turn   == <<now, override, mounted>>
feed   == <<fetch, live, stream>>
mirror == <<comments, error, loadedKey>>
vars   == <<turn, feed, mirror, sending, stored>>

Fallback     == [of |-> None, n |-> 0]
Thread(w, n) == IF n = 0 THEN Fallback ELSE [of |-> w, n |-> n]

NoFetch == [step |-> "over", answer |-> None]
Asked   == [step |-> "asked", answer |-> None]

\* The atom starts with an empty thread that is not the fallback.
Init ==
  /\ now = 0 /\ override = None /\ mounted = FALSE
  /\ fetch = NoFetch /\ live = FALSE /\ stream = << >>
  /\ comments = None /\ error = FALSE /\ loadedKey = None
  /\ sending = None /\ stored = [w \in Weeks |-> 0]

viewWeekStart == IF override = None THEN now ELSE override

\* followKey: the subscription of a key that is read and is not the former one.
FollowKey ==
  IF mounted' /\ (viewWeekStart' # viewWeekStart \/ ~mounted)
  THEN fetch' = Asked /\ live' = FALSE /\ stream' = << >>
  ELSE IF ~mounted' THEN fetch' = NoFetch /\ live' = FALSE /\ stream' = << >>
  ELSE UNCHANGED feed

-----------------------------------------------------------------------------
(* The reader and the calendar.                                            *)

GoTo(week) ==
  /\ week \in Weeks \cup {None} /\ override # week /\ override' = week
  /\ UNCHANGED <<now, mounted>> /\ FollowKey
  /\ UNCHANGED <<mirror, sending, stored>>

goToNextWeek    == GoTo(viewWeekStart + 1)
goToPrevWeek    == viewWeekStart > 0 /\ GoTo(viewWeekStart - 1)
goToCurrentWeek == GoTo(None)

Monday ==
  /\ now < MaxWeek /\ now' = now + 1
  /\ UNCHANGED <<override, mounted>> /\ FollowKey
  /\ UNCHANGED <<mirror, sending, stored>>

\* The thread is on the screen in the two largest layouts only.
Mount ==
  /\ mounted' = ~mounted
  /\ UNCHANGED <<now, override>> /\ FollowKey
  /\ UNCHANGED <<mirror, sending, stored>>

\* send, of the week that is viewed when the button is pressed.
Send ==
  /\ mounted /\ sending = None /\ sending' = viewWeekStart
  /\ UNCHANGED <<turn, feed, mirror, stored>>

-----------------------------------------------------------------------------
(* The server and the network.                                             *)

\* An append and its event, which can pass this page by.
Grows(w) ==
  /\ stored[w] < MaxComments /\ stored' = [stored EXCEPT ![w] = @ + 1]
  /\ stream' \in {stream} \cup (IF mounted /\ w = viewWeekStart
                                THEN {Append(stream, stored'[w])} ELSE {})

\* The handler `comment`; a send can fail before or after it is stored.
Comment ==
  /\ sending # None /\ sending' = None
  /\ Grows(sending) \/ UNCHANGED <<stored, stream>>
  /\ UNCHANGED <<turn, fetch, live, mirror>>

Elsewhere(w) ==
  /\ Grows(w)
  /\ UNCHANGED <<turn, fetch, live, mirror, sending>>

Read ==
  /\ fetch.step = "asked"
  /\ fetch' \in {[step |-> "answered", answer |-> stored[viewWeekStart]],
                 [step |-> "failed", answer |-> None]}
  /\ UNCHANGED <<turn, live, stream, mirror, sending, stored>>

-----------------------------------------------------------------------------
(* The mirror.                                                             *)

\* The listener, and the change hook: it runs when the value is another one,
\* which one fallback after the other is not.
Listen(n) ==
  /\ error' = FALSE
  /\ comments' = Thread(viewWeekStart, n)
  /\ loadedKey' = IF comments' = Fallback /\ comments = Fallback THEN loadedKey
                  ELSE viewWeekStart

\* The first read, dropped when an event has overtaken it.
ReadDone ==
  /\ fetch.step \in {"answered", "failed"} /\ fetch' = NoFetch
  /\ \/ live /\ UNCHANGED mirror
     \/ /\ ~live /\ fetch.step = "failed"
        /\ error' = TRUE /\ UNCHANGED <<comments, loadedKey>>
     \/ ~live /\ fetch.step = "answered" /\ Listen(fetch.answer)
  /\ UNCHANGED <<turn, live, stream, sending, stored>>

\* An event counts as one even if its value does not parse.
Event ==
  /\ stream # << >> /\ stream' = Tail(stream) /\ live' = TRUE
  /\ \/ Listen(Head(stream))
     \/ error' = TRUE /\ UNCHANGED <<comments, loadedKey>>
  /\ UNCHANGED <<turn, fetch, sending, stored>>

Next ==
  \/ goToNextWeek \/ goToPrevWeek \/ goToCurrentWeek \/ Monday \/ Mount
  \/ Send \/ Comment \/ Read \/ ReadDone \/ Event
  \/ \E w \in Weeks : Elsewhere(w)

Spec == Init /\ [][Next]_vars

-----------------------------------------------------------------------------
(* What the thread shows.                                                  *)

\* Mutant: a failure hides the thread only as long as nothing was ever read.
BlockedTillRead == error /\ loadedKey = None

commentsBlocked == error /\ loadedKey # viewWeekStart

Rows == IF commentsBlocked \/ comments = None THEN Fallback ELSE comments

TypeOK ==
  /\ now \in Weeks /\ override \in Weeks \cup {None}
  /\ {mounted, live, error} \subseteq BOOLEAN
  /\ fetch.step \in {"asked", "answered", "failed", "over"}
  /\ comments = None \/ comments = Fallback
       \/ (comments.of \in Weeks /\ comments.n \in 1..MaxComments)
  /\ loadedKey \in Weeks \cup {None} /\ sending \in Weeks \cup {None}
  /\ stored \in [Weeks -> 0..MaxComments]

\* Whatever was read, missed or failed on the way, the rows shown once the
\* first read of the viewed week is over are rows of that week, and a failed
\* read hides no rows that are.
ThreadIsOfTheWeek ==
  /\ TypeOK
  /\ mounted /\ fetch.step = "over" => Rows = Fallback \/ Rows.of = viewWeekStart
  /\ commentsBlocked /\ comments # None => comments.of # viewWeekStart
=============================================================================
