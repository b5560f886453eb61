-------------------------------- MODULE Duty --------------------------------
(***************************************************************************)
(* The duty widget's ledger: packages/widgets/ofelia-poop-duty, its server *)
(* handlers, the nightly job that closes days nobody has closed, and the   *)
(* derivation both sides make of who is on duty and who owes a turn.       *)
(*                                                                         *)
(* The ledger is append-only and stamped under the lock of its key, so the *)
(* last entry of a date is its latest outcome and everything is derived    *)
(* from the latest outcomes: `ledger` holds just these.  Days are numbers. *)
(* Two people take turns; normalized balances leave one of them owing.     *)
(***************************************************************************)
EXTENDS Integers, FiniteSets, FiniteSetsExt, SequencesExt

CONSTANTS First, Second,  \* DUTY_ROTATION
          MaxDay,         \* bound: the days there are
          Window,         \* AUTO_APPROVE_WINDOW_DAYS
          Handlers,       \* bound: events the server handles at once
          MaxEvents,      \* bound: events of the board in a behaviour
          None

Days   == 0..MaxDay
People == {First, Second}

VARIABLES
  ledger,    \* the latest outcome of every day, or None
  today,
  handler,   \* the entry a handler is about to append, or None
  cron,      \* the nightly run: the day it is for, its drafts, and its step
  cursor,    \* the last occurrence that was handled
  raced,     \* ghost: the day in hand was written since the job's last look
  disturbed, \* ghost: somebody wrote since the run began
  before,    \* ghost: what each of them owed when the run began
  events     \* ghost: how many events were handled

ghosts == <<raced, disturbed, before>>
vars   == <<ledger, today, handler, cron, cursor, raced, disturbed, before, events>>

Entry(type, actor, behalf) == [type |-> type, actor |-> actor, behalf |-> behalf]

NoDebts == [p \in People |-> 0]

NoRun == [phase |-> "idle", day |-> 0, drafts |-> [d \in {} |-> None], at |-> 0]

Init ==
  /\ ledger = [d \in Days |-> None] /\ today = 0
  /\ handler = [h \in Handlers |-> None]
  /\ cron = NoRun /\ cursor = 0
  /\ raced = FALSE /\ disturbed = FALSE /\ before = NoDebts /\ events = 0

-----------------------------------------------------------------------------
(* The domain: who is on duty, who owes, and on which days it is repaid.   *)

DutyOf(d) == IF d % 2 = 0 THEN First ELSE Second
Other(p)  == IF p = First THEN Second ELSE First

Closed(l, d) == l[d] # None /\ l[d].type # "reset"

\* debtDeltaFor: a missed turn is charged only on a day that was one's own.
Delta(d, e, p) ==
  IF e = None \/ e.behalf = None THEN 0
  ELSE CASE e.type = "went_into_debt" -> IF p = e.behalf /\ DutyOf(d) = p THEN 1 ELSE 0
         [] e.type = "cleaned"  -> IF p = e.actor THEN -1 ELSE 0
         [] e.type = "forgiven" -> IF p = e.behalf THEN -1 ELSE 0

\* foldDebt and normalizeDebts.
Raw(l, p)     == MapThenSumSet(LAMBDA d : Delta(d, l[d], p), Days)
Balance(l, p) == Raw(l, p) - Min({Raw(l, q) : q \in People})

\* getDebtDays: the debtor repays on the next open days of the other's turn.
Repays(l, p, d) == DutyOf(d) # p /\ ~Closed(l, d)
DebtorOf(l, origin, d) ==
  LET Owes(p) == /\ d >= origin /\ Repays(l, p, d)
                 /\ Cardinality({e \in origin..d-1 : Repays(l, p, e)}) < Balance(l, p)
  IN  IF \E p \in People : Owes(p) THEN CHOOSE p \in People : Owes(p) ELSE None

\* debtDayFor: only the nightly job looks at days before the present one.
DebtDayFor(l, day, d, past) == DebtorOf(l, IF past /\ d < day THEN d ELSE day, d)

CleanDraft(l, day, d, past) ==
  LET debtor == DebtDayFor(l, day, d, past)
  IN  IF debtor = None THEN Entry("cleaned", DutyOf(d), None)
      ELSE Entry("cleaned", debtor, DutyOf(d))

\* The draft of an event, or None where it does not apply.
Draft(kind, l, day, d) ==
  LET debtor    == DebtDayFor(l, day, d, FALSE)
      scheduled == IF debtor = None THEN DutyOf(d) ELSE debtor
  IN  CASE kind = "clean" -> CleanDraft(l, day, d, FALSE)
        [] kind = "debt"  -> Entry("went_into_debt", Other(scheduled), scheduled)
        [] kind = "forgive" -> IF debtor = None THEN None ELSE Entry("forgiven", DutyOf(d), debtor)
        [] kind = "undo" -> IF ~Closed(l, d) THEN None ELSE Entry("reset", l[d].actor, None)

\* What the board shows for a day: who closed it, who repays, who is on duty.
Shown(l, day, d) ==
  IF Closed(l, d) THEN l[d].actor
  ELSE IF DebtorOf(l, day, d) # None THEN DebtorOf(l, day, d) ELSE DutyOf(d)

-----------------------------------------------------------------------------
(* The events of the board: a read, and an append of what it led to.       *)

\* readDraftInput and the draft; a day to come has its buttons disabled.
Handle(h, kind, d) ==
  /\ handler[h] = None /\ d <= today /\ events < MaxEvents /\ events' = events + 1
  /\ LET draft == Draft(kind, ledger, today, d)
     IN  draft # None /\ handler' = [handler EXCEPT ![h] = [day |-> d, entry |-> draft]]
  /\ UNCHANGED <<ledger, today, cron, cursor, ghosts>>

\* appendLedger, which can fail before or after the entry is stored.
Finish(h) ==
  /\ handler[h] # None
  /\ handler' = [handler EXCEPT ![h] = None]
  /\ \/ /\ ledger' = [ledger EXCEPT ![handler[h].day] = handler[h].entry]
        /\ raced' = (raced \/ (cron.phase = "write" /\ cron.at = handler[h].day))
        /\ disturbed' = (cron.phase # "idle")
     \/ UNCHANGED <<ledger, raced, disturbed>>
  /\ UNCHANGED <<today, cron, cursor, before, events>>

-----------------------------------------------------------------------------
(* The nightly job autoApproveDay.                                         *)

InWindow(day) == {d \in Days : day - Window <= d /\ d < day}

\* Mutant: every day is drafted from the ledger as it was read.
DraftsIndependent(l, day) ==
  [d \in {e \in InWindow(day) : ~Closed(l, e)} |-> CleanDraft(l, day, d, TRUE)]

\* autoApproveDrafts: oldest first, each day seeing the ones drafted before.
AutoApproveDrafts(l, day) ==
  LET Close(w, d) == IF Closed(w, d) THEN w ELSE [w EXCEPT ![d] = CleanDraft(w, day, d, TRUE)]
      closed == FoldLeft(Close, l, SetToSortSeq(InWindow(day), <))
  IN  [d \in {e \in InWindow(day) : ~Closed(l, e)} |-> closed[d]]

Over          == cron' = NoRun /\ raced' = FALSE /\ disturbed' = FALSE /\ before' = NoDebts
Succeeds(day) == cursor' = day /\ Over

\* The first read of an occurrence that is due; an unused ledger stays empty.
CronReads(day) ==
  /\ cron.phase = "idle" /\ cursor < day /\ day <= today
  /\ LET drafts == AutoApproveDrafts(ledger, day)
     IN  IF (\A d \in Days : ledger[d] = None) \/ DOMAIN drafts = {} THEN Succeeds(day)
         ELSE /\ cron' = [phase |-> "look", day |-> day, drafts |-> drafts,
                          at |-> Min(DOMAIN drafts)]
              /\ before' = [p \in People |-> Balance(ledger, p)]
              /\ UNCHANGED <<cursor, raced, disturbed>>
  /\ UNCHANGED <<ledger, today, handler, events>>

\* The next draft, or the end of the run.
GoOn ==
  LET left == {d \in DOMAIN cron.drafts : d > cron.at}
  IN  IF left = {} THEN Succeeds(cron.day)
      ELSE /\ cron' = [cron EXCEPT !.phase = "look", !.at = Min(left)]
           /\ raced' = FALSE
           /\ UNCHANGED <<cursor, disturbed, before>>

\* Mutant: no second look before the append.
CronNoLook ==
  /\ cron.phase = "look"
  /\ cron' = [cron EXCEPT !.phase = "write"]
  /\ UNCHANGED <<ledger, today, handler, cursor, ghosts, events>>

\* The second look at a day, right before it is written.
CronLooks ==
  /\ cron.phase = "look"
  /\ IF Closed(ledger, cron.at) THEN GoOn
     ELSE cron' = [cron EXCEPT !.phase = "write"] /\ UNCHANGED <<cursor, ghosts>>
  /\ UNCHANGED <<ledger, today, handler, events>>

CronAppends ==
  /\ cron.phase = "write"
  /\ ledger' = [ledger EXCEPT ![cron.at] = cron.drafts[cron.at]]
  /\ GoOn
  /\ UNCHANGED <<today, handler, events>>

\* A read or an append fails, an append possibly after it was stored; the
\* scheduler runs the same occurrence again.
CronFails ==
  /\ cron.phase # "idle" /\ Over
  /\ ledger' \in {ledger} \cup
       (IF cron.phase = "write" THEN {[ledger EXCEPT ![cron.at] = cron.drafts[cron.at]]} ELSE {})
  /\ UNCHANGED <<today, handler, cursor, events>>

Midnight ==
  /\ today < MaxDay /\ today' = today + 1
  /\ UNCHANGED <<ledger, handler, cron, cursor, ghosts, events>>

Next ==
  \/ \E h \in Handlers : \/ \E kind \in {"clean", "debt", "forgive", "undo"}, d \in Days :
                                Handle(h, kind, d)
                         \/ Finish(h)
  \/ \E day \in Days : CronReads(day)
  \/ CronLooks \/ CronAppends \/ CronFails \/ Midnight

Spec == Init /\ [][Next]_vars

-----------------------------------------------------------------------------
Entries == [type : {"cleaned", "went_into_debt", "reset", "forgiven"},
            actor : People, behalf : People \cup {None}]

TypeOK ==
  /\ ledger \in [Days -> Entries \cup {None}] /\ before \in [People -> Nat]
  /\ today \in Days /\ cursor \in Days
  /\ handler \in [Handlers -> [day : Days, entry : Entries] \cup {None}]
  /\ cron.phase \in {"idle", "look", "write"} /\ cron.at \in Days /\ cron.day \in Days
  /\ \A d \in DOMAIN cron.drafts : cron.drafts[d] \in Entries

Ends == cron.phase # "idle" /\ cursor' = cron.day /\ cursor # cron.day

\* A run that nobody wrote into closes every day of its window and settles a
\* debt once: no one owes more after it than before.
SettlesOnce ==
  /\ TypeOK'
  /\ Ends /\ ~disturbed =>
    /\ \A d \in InWindow(cron.day) : Closed(ledger', d)
    /\ \A p \in People : Balance(ledger', p) <= before[p]

\* A decision somebody took about a day is not overridden by the nightly job,
\* also when the run is repeated after a failure; what remains is a decision
\* that lands between the second look and the append that follows it.
LeavesDecisions ==
  cron.phase = "write" /\ cron # cron' /\ ledger' # ledger /\ Closed(ledger, cron.at)
    => raced

\* Confirming an open day credits the person the board names for it.
CreditsShown ==
  \A h \in Handlers :
    LET draft == handler'[h] IN
    handler[h] = None /\ draft # None /\ draft.entry.type = "cleaned"
      /\ ~Closed(ledger, draft.day)
    => draft.entry.actor = Shown(ledger, today, draft.day)

\* A run settles once; a decision is about whom the board shows, and it stands.
NightlySettlesOnce == [][SettlesOnce]_vars
DecisionStands     == [][LeavesDecisions /\ CreditsShown]_vars
=============================================================================
