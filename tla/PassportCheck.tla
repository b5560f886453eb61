---------------------------- MODULE PassportCheck ----------------------------
(***************************************************************************)
(* The passport checker of packages/widgets/passport-checker: the attempts *)
(* of the check model with their deadline (model/check-model.ts), what the *)
(* browser task and the server handler answer (browser/check.ts,           *)
(* server.ts), the stored result of each document, and the recovery a      *)
(* check may call for (model/recovery-flow.ts).                            *)
(*                                                                         *)
(* A result is known by the time it was observed at; 0 stands for none.    *)
(* The page's subscription to a stored result is one first read and a      *)
(* stream of events, as StorageSync has it in detail; an event may pass    *)
(* the page by while its connection is not registered.  The read-only      *)
(* fallback for results of older clients is left out.                      *)
(***************************************************************************)
EXTENDS Naturals, Sequences, FiniteSets

CONSTANTS Docs,        \* DocumentKey
          IdCard,      \* the document older servers can check
          MaxAttempts, \* bound: checks asked for
          MaxClock     \* bound: results observed, by this page or another

ASSUME PassportAssumption ==
  IdCard \in Docs /\ MaxAttempts \in Nat \ {0} /\ MaxClock \in Nat

Attempts == 1..MaxAttempts

VARIABLES
  latest,    \* latestAttemptId, the number of checks asked for
  attempt,   \* the request an attempt waits for, and whether its deadline won
  transient, \* the kind of the transient state
  errors,    \* the documents whose error is shown instead of a result
  surface,   \* recoverySurface; recoveryOpen is set and reset with it
  clock,     \* the time of the last observation
  stored,    \* the stored result of each document
  shown,     \* the page's atom of it
  opt,       \* the optimistic result, while the stored one is not known
  known,     \* the page has seen the stored result
  fetch,     \* the first read: what it waits for and what it was answered
  live,      \* an event came before the answer
  puts,      \* results on their way to the server
  stream,    \* events on their way to the page
  applied    \* ghost: the attempts whose result was applied, in that order

control   == <<latest, attempt, transient, errors, surface>>
results   == <<shown, opt, known>>
wire      == <<stored, fetch, live, puts, stream>>
checkVars == <<control, clock, results, wire, applied>>

NoRequest == [asks |-> "nothing", late |-> FALSE]

CheckInit ==
  /\ latest = 0 /\ transient = "idle" /\ errors = {} /\ surface = "none"
  /\ attempt = [a \in Attempts |-> NoRequest]
  /\ clock = 0 /\ stored = [d \in Docs |-> 0]
  /\ shown = [d \in Docs |-> 0] /\ opt = [d \in Docs |-> 0]
  /\ known = [d \in Docs |-> FALSE]
  /\ fetch = [d \in Docs |-> [step |-> "asked", value |-> 0]]
  /\ live = [d \in Docs |-> FALSE]
  /\ puts = [d \in Docs |-> {}] /\ stream = [d \in Docs |-> << >>]
  /\ applied = << >>

-----------------------------------------------------------------------------
(* What a check comes to.                                                  *)

Fatal == {"sessionRequired", "invalidConfig", "retryable"}

\* The task checks one document after the other; what is wrong with a document
\* alone is its own result, anything else ends the task for both of them.
Outcome(o) ==
  LET ends == {d \in Docs : o[d] \in Fatal}
  IN  IF ends = {} THEN [ok |-> {d \in Docs : o[d] = "success"}, kind |-> "result"]
      ELSE [ok |-> {}, kind |-> o[IF IdCard \in ends THEN IdCard ELSE CHOOSE d \in ends : TRUE]]

Outcomes == {Outcome(o) : o \in [Docs -> {"success", "error"} \cup Fatal]}

\* The task of older servers: the one document, whose error is the check's.
LegacyOutcomes == {[ok |-> {IdCard}, kind |-> "result"]} \cup
                  {[ok |-> {}, kind |-> k] : k \in Fatal}

-----------------------------------------------------------------------------
(* The check model.                                                        *)

\* The views that have a button for a check: not while one is pending, a
\* session has to be recovered or the server is not configured.
CheckOffered == transient \in {"idle", "documentErrors", "retryable"}

\* checkPassport, which asks whatever is shown.
Ask ==
  /\ transient # "pending" /\ latest < MaxAttempts
  /\ latest' = latest + 1
  /\ attempt' = [attempt EXCEPT ![latest + 1].asks = "checkV2"]
  /\ transient' = "pending" /\ errors' = {}

Check ==
  /\ CheckOffered
  /\ Ask
  /\ UNCHANGED <<surface, clock, results, wire, applied>>

\* invokeCompatibleCheck: a server that does not know the event.
Unsupported(a) ==
  /\ attempt[a].asks = "checkV2"
  /\ attempt' = [attempt EXCEPT ![a].asks = "check"]
  /\ UNCHANGED <<latest, transient, errors, surface, clock, results, wire, applied>>

Deadline(a) ==
  /\ attempt[a].asks # "nothing" /\ ~attempt[a].late
  /\ attempt' = [attempt EXCEPT ![a].late = TRUE]
  /\ transient' = "retryable" /\ errors' = {}
  /\ UNCHANGED <<latest, surface, clock, results, wire, applied>>

\* Mutant: a result is applied without the optimistic copy.
ApplyStored(a, ok, failed) ==
  /\ clock < MaxClock /\ clock' = clock + 1
  /\ shown' = [d \in Docs |-> IF d \in ok THEN clock' ELSE shown[d]]
  /\ puts' = [d \in Docs |-> IF d \in ok THEN puts[d] \cup {clock'} ELSE puts[d]]
  /\ transient' = (IF failed = {} THEN "idle" ELSE "documentErrors") /\ errors' = failed
  /\ applied' = Append(applied, a)
  /\ UNCHANGED <<stored, fetch, live, stream, opt, known>>

\* applyResult: shown at once, sent to be stored, and kept apart as long as the
\* first read could still replace what is shown.
Apply(a, ok, failed) ==
  /\ clock < MaxClock /\ clock' = clock + 1
  /\ shown' = [d \in Docs |-> IF d \in ok THEN clock' ELSE shown[d]]
  /\ opt'   = [d \in Docs |-> IF d \in ok /\ ~known[d] THEN clock' ELSE opt[d]]
  /\ puts'  = [d \in Docs |-> IF d \in ok THEN puts[d] \cup {clock'} ELSE puts[d]]
  /\ transient' = (IF failed = {} THEN "idle" ELSE "documentErrors") /\ errors' = failed
  /\ applied' = Append(applied, a)
  /\ UNCHANGED <<stored, fetch, live, stream, known>>

Over(a) ==
  /\ attempt' = [attempt EXCEPT ![a] = NoRequest]
  /\ UNCHANGED <<latest, surface>>

\* Mutant: a late result is told from a newer one by the state shown.
SettleByState(a) ==
  /\ attempt[a].asks # "nothing"
  /\ Over(a)
  /\ \E o \in IF attempt[a].asks = "check" THEN LegacyOutcomes ELSE Outcomes :
       IF o.kind = "result" /\ (attempt[a].late => transient # "pending")
       THEN Apply(a, o.ok, IF attempt[a].asks = "check" THEN {} ELSE Docs \ o.ok)
       ELSE /\ IF attempt[a].late THEN UNCHANGED <<transient, errors>>
               ELSE transient' = o.kind /\ errors' = {}
            /\ UNCHANGED <<clock, results, wire, applied>>

\* The answer of an attempt.  After its deadline an error is dropped, and so
\* is a result when a newer attempt was started.
Settle(a) ==
  /\ attempt[a].asks # "nothing"
  /\ Over(a)
  /\ \E o \in IF attempt[a].asks = "check" THEN LegacyOutcomes ELSE Outcomes :
       IF o.kind = "result" /\ (attempt[a].late => a = latest)
       THEN Apply(a, o.ok, IF attempt[a].asks = "check" THEN {} ELSE Docs \ o.ok)
       ELSE /\ IF attempt[a].late THEN UNCHANGED <<transient, errors>>
               ELSE transient' = o.kind /\ errors' = {}
            /\ UNCHANGED <<clock, results, wire, applied>>

-----------------------------------------------------------------------------
(* recovery-flow.ts: the tile opens a modal, fullscreen its inline viewer.  *)

\* Fullscreen has the viewer in place of the button that opens it.
RecoveryOffered(s) == transient = "sessionRequired" /\ surface # s

OpenRecovery(s) ==
  /\ RecoveryOffered(s) /\ surface' = s
  /\ UNCHANGED <<latest, attempt, transient, errors, clock, results, wire, applied>>

CloseRecovery ==
  /\ surface # "none" /\ surface' = "none"
  /\ UNCHANGED <<latest, attempt, transient, errors, clock, results, wire, applied>>

\* retryCheck: the recovery is closed before the check is asked for again.
RetryCheck ==
  /\ surface # "none" /\ surface' = "none"
  /\ Ask
  /\ UNCHANGED <<clock, results, wire, applied>>

-----------------------------------------------------------------------------
(* The stored results: withStorageKey, the storage API and its events.     *)

\* A value from the server; the first one gives way to a waiting result.
Delivered(d, v) ==
  /\ known' = [known EXCEPT ![d] = TRUE]
  /\ opt'   = [opt EXCEPT ![d] = 0]
  /\ shown' = [shown EXCEPT ![d] = IF opt[d] # 0 THEN opt[d] ELSE v]
  /\ puts'  = [puts EXCEPT ![d] = IF opt[d] # 0 THEN @ \cup {opt[d]} ELSE @]

\* A write is stored; its event reaches the page or passes it by.
Stores(d, v) ==
  /\ stored' = [stored EXCEPT ![d] = v]
  /\ stream' \in {stream, [stream EXCEPT ![d] = Append(@, v)]}

Put(d, v) ==
  /\ v \in puts[d] /\ puts' = [puts EXCEPT ![d] = @ \ {v}]
  /\ Stores(d, v) \/ UNCHANGED <<stored, stream>>
  /\ UNCHANGED <<control, clock, results, fetch, live, applied>>

\* Another page of the account checks the document.
Elsewhere(d) ==
  /\ clock < MaxClock /\ clock' = clock + 1
  /\ Stores(d, clock')
  /\ UNCHANGED <<control, results, fetch, live, puts, applied>>

\* The first read; one that fails leaves the result unknown until an event.
Read(d) ==
  /\ fetch[d].step = "asked"
  /\ fetch' \in {[fetch EXCEPT ![d] = [step |-> "answered", value |-> stored[d]]],
                 [fetch EXCEPT ![d].step = "over"]}
  /\ UNCHANGED <<control, clock, results, stored, live, puts, stream, applied>>

\* subscribeStorageKey: an answer that an event has overtaken is dropped.
ReadDone(d) ==
  /\ fetch[d].step = "answered"
  /\ fetch' = [fetch EXCEPT ![d] = [step |-> "over", value |-> 0]]
  /\ IF live[d] THEN UNCHANGED <<results, puts>>
     ELSE Delivered(d, fetch[d].value)
  /\ UNCHANGED <<control, clock, stored, live, stream, applied>>

Event(d) ==
  /\ stream[d] # << >> /\ stream' = [stream EXCEPT ![d] = Tail(@)]
  /\ live' = [live EXCEPT ![d] = TRUE]
  /\ Delivered(d, Head(stream[d]))
  /\ UNCHANGED <<control, clock, stored, fetch, applied>>

CheckNext ==
  \/ Check \/ CloseRecovery \/ RetryCheck
  \/ \E s \in {"modal", "inline"} : OpenRecovery(s)
  \/ \E a \in Attempts : Unsupported(a) \/ Deadline(a) \/ Settle(a)
  \/ \E d \in Docs : \/ Elsewhere(d) \/ Read(d) \/ ReadDone(d) \/ Event(d)
                     \/ \E v \in puts[d] : Put(d, v)

CheckSpec == CheckInit /\ [][CheckNext]_checkVars

-----------------------------------------------------------------------------
CheckTypeOK ==
  /\ latest \in 0..MaxAttempts /\ clock \in 0..MaxClock + 1
  /\ attempt \in [Attempts -> [asks : {"nothing", "checkV2", "check"}, late : BOOLEAN]]
  /\ transient \in {"idle", "pending", "documentErrors"} \cup Fatal
  /\ errors \subseteq Docs /\ surface \in {"none", "modal", "inline"}
  /\ known \in [Docs -> BOOLEAN] /\ live \in [Docs -> BOOLEAN]
  /\ {stored, shown, opt} \subseteq [Docs -> 0..clock]

\* A result is applied once, never after that of a newer attempt, and never
\* under a newer attempt that is still under way, however late it comes.
AttemptsInOrder ==
  /\ CheckTypeOK
  /\ \A i, j \in DOMAIN applied : i < j => applied[i] < applied[j]
  /\ transient = "pending" => \A i \in DOMAIN applied : applied[i] < latest

\* The first value that comes from the server does not take back a result that
\* was observed while the page waited for it.
HydrationKeeps ==
  [][\A d \in Docs : known'[d] /\ ~known[d] => shown'[d] >= shown[d]]_checkVars
=============================================================================
