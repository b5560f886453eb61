---------------------------- MODULE StorageSync ----------------------------
(***************************************************************************)
(* One storage key: the handlers of the storage API and the storage of     *)
(* widget servers, which write to Valkey and then publish                  *)
(* (server/src/app.ts, storage/handlers.ts, widgets/storage.ts), the event *)
(* stream, and the views of the key in pages: a first read by GET, live    *)
(* updates, and, for a bound view, local edits that are written back       *)
(* (widget-runtime/src/storage/subscribe-key.ts, reatom-storage.ts).       *)
(*                                                                         *)
(* There is one server process.  Its commands to Valkey keep their order,  *)
(* so events are published in the order of the writes.  Which connection   *)
(* serves which key is the business of SseClient; here a view is           *)
(* registered at some time after it subscribed.                            *)
(***************************************************************************)
EXTENDS Naturals, Sequences, SequencesExt

CONSTANTS
    Requests,  \* the writes there may be; each also names the entry it writes
    Words,     \* values that are equal whenever they look the same, as strings are
    Views,     \* subscriptions to the key in pages
    Cap,       \* the cap that append is called with
    MaxFaults, \* bound: failures and broken connections
    None       \* no value: null, an absent key

ASSUME StorageAssumption ==
    /\ None \notin Views /\ None \notin Seq(Requests \cup Words)
    /\ Cap \in Nat \ {0} /\ MaxFaults \in Nat

VARIABLES
    stored,     \* the value in Valkey: a list, or None
    stage,      \* stage[r]: "idle", "sent", "read" (append: got), "set", "done"
    write,      \* write[r]: what the request is: kind, value, and the view it is of
    read,       \* read[r]: what an append has read
    outbox,     \* writes that are set and not published, in order
    phase,      \* phase[v]: "off", "asked", "answered" (the GET) or "on"
    initial,    \* initial[v]: the answer to the GET
    live,       \* live[v]: liveVersion has moved since the view subscribed
    registered, \* registered[v]: the server sends events to the view's page
    stream,     \* stream[v]: events on their way to the page
    shown,      \* shown[v]: the atom's state
    async,      \* async[v]: asyncValue, the value last delivered
    bound,      \* the views that write back, always the same; others are read-only mirrors
    fallback,   \* fallback[v]: what stands for an absent key
    faults,     \* history: failures so far
    recent,     \* history: appends since the last other write
    missed,     \* history: views that an event did not reach
    unsaved     \* history: unsaved[v]: the last edit, while it was not stored

writes  == <<stage, write, read>>
page    == <<phase, initial, live, shown, async, bound, fallback, unsaved>>
wire    == <<outbox, registered, stream>>
vars    == <<stored, writes, page, wire, faults, recent, missed>>

\* What a view shows before it knows better.
Empty == << >>

NoWrite == [kind |-> "none", value |-> None, view |-> None]

Init ==
    /\ stored = None
    /\ stage = [r \in Requests |-> "idle"]
    /\ write = [r \in Requests |-> NoWrite]
    /\ read = [r \in Requests |-> None]
    /\ outbox = << >>
    /\ phase = [v \in Views |-> "off"]
    /\ initial = [v \in Views |-> None]
    /\ live = [v \in Views |-> FALSE]
    /\ registered = [v \in Views |-> FALSE]
    /\ stream = [v \in Views |-> << >>]
    /\ shown = [v \in Views |-> Empty]
    /\ async = [v \in Views |-> None]
    /\ bound \in SUBSET Views
    /\ fallback = [v \in Views |-> Empty]
    /\ faults = 0 /\ recent = << >> /\ missed = {}
    /\ unsaved = [v \in Views |-> None]

Fault == faults < MaxFaults /\ faults' = faults + 1

LastOf(s, n) == IF Len(s) > n THEN SubSeq(s, Len(s) - n + 1, Len(s)) ELSE s

\* The views that go by events: no answer to come will correct them.
Relying == {v \in Views : \/ phase[v] \in {"answered", "on"}
                          \/ phase[v] = "asked" /\ live[v]
                          \/ stream[v] # << >>}

-----------------------------------------------------------------------------
(* Writes.                                                                 *)

\* r carries a write of a view, or of None: another page or a widget's server.
Send(r, kind, value, view) ==
    /\ stage[r] = "idle"
    /\ stage' = [stage EXCEPT ![r] = "sent"]
    /\ write' = [write EXCEPT ![r] = [kind |-> kind, value |-> value, view |-> view]]
    /\ UNCHANGED read

WriteElsewhere(r) ==
    /\ \/ Send(r, "put", <<r>>, None)
       \/ Send(r, "append", <<r>>, None)
       \/ Send(r, "delete", None, None)
    /\ UNCHANGED <<stored, page, wire, faults, recent, missed>>

\* PUT and DELETE take no lock.
Overwrite(r) ==
    /\ stage[r] = "sent" /\ write[r].kind # "append"
    /\ stage' = [stage EXCEPT ![r] = "set"]
    /\ stored' = write[r].value
    /\ outbox' = Append(outbox, r)
    /\ recent' = << >>
    /\ unsaved' = [v \in Views |-> IF v = write[r].view /\ unsaved[v] = write[r].value
                                   THEN None ELSE unsaved[v]]
    /\ UNCHANGED <<write, read, phase, initial, live, shown, async, bound, fallback,
                   registered, stream, faults, missed>>

InLock == {r \in Requests : write[r].kind = "append" /\ stage[r] \in {"read", "set"}}

\* Mutant: append without runExclusive.
AppendReads_NoLock(r) ==
    /\ stage[r] = "sent" /\ write[r].kind = "append"
    /\ stage' = [stage EXCEPT ![r] = "read"]
    /\ read' = [read EXCEPT ![r] = stored]
    /\ UNCHANGED <<stored, write, page, wire, faults, recent, missed>>

\* handleAppend and the widgets' append: get, set and publish under the key's lock.
AppendReads(r) ==
    /\ stage[r] = "sent" /\ write[r].kind = "append"
    /\ InLock = {}
    /\ stage' = [stage EXCEPT ![r] = "read"]
    /\ read' = [read EXCEPT ![r] = stored]
    /\ UNCHANGED <<stored, write, page, wire, faults, recent, missed>>

AppendSets(r) ==
    /\ stage[r] = "read"
    /\ stage' = [stage EXCEPT ![r] = "set"]
    /\ stored' = LastOf((IF read[r] = None THEN << >> ELSE read[r]) \o write[r].value, Cap)
    /\ write' = [write EXCEPT ![r].value = stored']
    /\ outbox' = Append(outbox, r)
    /\ recent' = Append(recent, r)
    /\ UNCHANGED <<read, page, registered, stream, faults, missed>>

\* publishChange, the subscription of app.ts and fanout().
Publish ==
    /\ outbox # << >>
    /\ outbox' = Tail(outbox)
    /\ LET r == Head(outbox)
           late == {v \in Relying : ~registered[v]}
           told == {v \in Views : registered[v] /\ phase[v] # "off"} IN
       /\ stage' = [stage EXCEPT ![r] = "done"]
       /\ stream' = [v \in Views |-> IF registered[v] THEN Append(stream[v], write[r].value)
                                     ELSE stream[v]]
       /\ missed' = (missed \ told) \cup late
    /\ UNCHANGED <<stored, write, read, page, registered, faults, recent>>

\* The event is not published; the caller of an append is told that it failed.
PublishFails ==
    /\ outbox # << >> /\ Fault
    /\ outbox' = Tail(outbox)
    /\ stage' = [stage EXCEPT ![Head(outbox)] = "done"]
    /\ missed' = missed \cup Relying
    /\ UNCHANGED <<stored, write, read, page, registered, stream, recent>>

\* A request that does not arrive, or whose operation Valkey rejects.  A page
\* keeps what it shows and records the error.
WriteFails(r) ==
    /\ stage[r] \in {"sent", "read"} /\ Fault
    /\ stage' = [stage EXCEPT ![r] = "done"]
    /\ missed' = missed \cup ({write[r].view} \ {None})
    /\ unsaved' = [v \in Views |-> IF v = write[r].view THEN None ELSE unsaved[v]]
    /\ UNCHANGED <<stored, write, read, phase, initial, live, shown, async, bound, fallback, wire, recent>>

-----------------------------------------------------------------------------
(* Views.                                                                  *)

\* subscribeStorageKey: the GET is sent; the registration follows (SseClient).
\* The default of a bound view is what it shows when it connects.
Subscribe(v) ==
    /\ phase[v] = "off"
    /\ phase' = [phase EXCEPT ![v] = "asked"]
    /\ live' = [live EXCEPT ![v] = FALSE]
    /\ fallback' = [fallback EXCEPT ![v] = IF v \in bound THEN shown[v] ELSE Empty]
    /\ missed' = IF stream[v] = << >> THEN missed \ {v} ELSE missed
    /\ UNCHANGED <<stored, writes, initial, shown, async, bound, unsaved, wire, faults, recent>>

\* With the GET in flight or after it: an answer to come is then dropped.
Unsubscribe(v) ==
    /\ phase[v] # "off"
    /\ phase' = [phase EXCEPT ![v] = "off"]
    /\ initial' = [initial EXCEPT ![v] = None]
    /\ UNCHANGED <<stored, writes, live, shown, async, bound, fallback, unsaved, wire,
                   faults, recent, missed>>

Register(v) ==
    /\ registered[v] # (phase[v] # "off")
    /\ registered' = [registered EXCEPT ![v] = ~@]
    /\ UNCHANGED <<stored, writes, page, outbox, stream, faults, recent, missed>>

\* handleGet.
GetReads(v) ==
    /\ phase[v] = "asked"
    /\ phase' = [phase EXCEPT ![v] = "answered"]
    /\ initial' = [initial EXCEPT ![v] = stored]
    /\ UNCHANGED <<stored, writes, live, shown, async, bound, fallback, unsaved, wire,
                   faults, recent, missed>>

Shows(v, value) == IF value = None THEN fallback[v] ELSE value

\* The listener of reatom-storage.ts.  A value that was delivered is an echo to
\* the change hook; the fallback that stands for null is not, and is written.
Apply(v, value) ==
    /\ shown' = [shown EXCEPT ![v] = Shows(v, value)]
    /\ async' = [async EXCEPT ![v] = value]
    /\ IF v \in bound /\ value = None /\ shown[v] # fallback[v]
       THEN \E r \in Requests : Send(r, "put", fallback[v], v)
       ELSE UNCHANGED writes

Ignore == UNCHANGED <<shown, async, writes>>

\* Mutant: the answer is applied whatever was delivered meanwhile.
GetArrives_Always(v) ==
    /\ phase[v] = "answered"
    /\ phase' = [phase EXCEPT ![v] = "on"]
    /\ Apply(v, initial[v])
    /\ initial' = [initial EXCEPT ![v] = None]
    /\ UNCHANGED <<stored, live, bound, fallback, unsaved, wire, faults, recent, missed>>

GetArrives(v) ==
    /\ phase[v] = "answered"
    /\ phase' = [phase EXCEPT ![v] = "on"]
    /\ IF live[v] THEN Ignore ELSE Apply(v, initial[v])
    /\ initial' = [initial EXCEPT ![v] = None]
    /\ UNCHANGED <<stored, live, bound, fallback, unsaved, wire, faults, recent, missed>>

GetFails(v) ==
    /\ phase[v] \in {"asked", "answered"} /\ Fault
    /\ phase' = [phase EXCEPT ![v] = "on"]
    /\ initial' = [initial EXCEPT ![v] = None]
    /\ missed' = missed \cup {v}
    /\ UNCHANGED <<stored, writes, live, shown, async, bound, fallback, unsaved, wire, recent>>

Deliver(v) ==
    /\ stream[v] # << >>
    /\ stream' = [stream EXCEPT ![v] = Tail(@)]
    /\ IF phase[v] = "off" THEN Ignore /\ UNCHANGED live
       ELSE /\ Apply(v, Head(stream[v]))
            /\ live' = [live EXCEPT ![v] = TRUE]
    /\ UNCHANGED <<stored, phase, initial, bound, fallback, unsaved, outbox, registered,
                   faults, recent, missed>>

\* Mutant: the hook looks at the state before the change.
Edit_GuardsOldState(v, r, x) ==
    /\ v \in bound /\ phase[v] # "off" /\ <<x>> # shown[v] /\ stage[r] = "idle"
    /\ shown' = [shown EXCEPT ![v] = <<x>>]
    /\ unsaved' = [unsaved EXCEPT ![v] = <<x>>]
    /\ IF shown[v] = async[v] THEN UNCHANGED writes ELSE Send(r, "put", <<x>>, v)
    /\ UNCHANGED <<stored, phase, initial, live, async, bound, fallback, wire, faults, recent, missed>>

\* A local change of a bound view: the hook writes it, unless it takes it for an
\* echo of the server.
Edit(v, r, x) ==
    /\ v \in bound /\ phase[v] # "off" /\ <<x>> # shown[v] /\ stage[r] = "idle"
    /\ shown' = [shown EXCEPT ![v] = <<x>>]
    /\ unsaved' = [unsaved EXCEPT ![v] = <<x>>]
    /\ IF <<x>> = async[v] THEN UNCHANGED writes ELSE Send(r, "put", <<x>>, v)
    /\ UNCHANGED <<stored, phase, initial, live, async, bound, fallback, wire, faults, recent, missed>>

-----------------------------------------------------------------------------
(* Faults of the connection and of the server.                             *)

\* The stream breaks; the page registers again later and fetches nothing.
Disconnect(v) ==
    /\ registered[v] /\ Fault
    /\ registered' = [registered EXCEPT ![v] = FALSE]
    /\ stream' = [stream EXCEPT ![v] = << >>]
    /\ missed' = IF stream[v] # << >> THEN missed \cup {v} ELSE missed
    /\ UNCHANGED <<stored, writes, page, outbox, recent>>

\* What the server was doing is lost, and so are its connections.
Restart ==
    /\ Fault
    /\ LET dead == {r \in Requests : stage[r] \in {"sent", "read", "set"}}
           cut == {r \in dead : stage[r] # "set"} IN
       /\ stage' = [r \in Requests |-> IF r \in dead THEN "done" ELSE stage[r]]
       /\ missed' = missed \cup ({write[r].view : r \in cut} \ {None})
                           \cup {v \in Relying : outbox \o stream[v] # << >>}
       /\ unsaved' = [v \in Views |-> IF \E r \in cut : write[r].view = v THEN None ELSE unsaved[v]]
    /\ outbox' = << >>
    /\ registered' = [v \in Views |-> FALSE]
    /\ stream' = [v \in Views |-> << >>]
    /\ UNCHANGED <<stored, write, read, phase, initial, live, shown, async, bound, fallback, recent>>

Write(r) == Overwrite(r) \/ AppendReads(r) \/ AppendSets(r) \/ WriteFails(r)

View(v) ==
    \/ Subscribe(v) \/ Unsubscribe(v) \/ Register(v)
    \/ GetReads(v) \/ GetArrives(v) \/ GetFails(v) \/ Deliver(v)
    \/ Disconnect(v)

Next ==
    \/ \E r \in Requests : WriteElsewhere(r) \/ Write(r)
    \/ \E v \in Views : View(v)
    \/ \E v \in Views, r \in Requests : \E x \in Words \cup {r} : Edit(v, r, x)
    \/ Publish \/ PublishFails \/ Restart

Spec == Init /\ [][Next]_vars

-----------------------------------------------------------------------------

Value == {None} \cup Seq(Requests \cup Words)

TypeOK ==
    /\ stored \in Value
    /\ stage \in [Requests -> {"idle", "sent", "read", "set", "done"}]
    /\ write \in [Requests -> [kind : {"none", "put", "append", "delete"},
                               value : Value, view : Views \cup {None}]]
    /\ read \in [Requests -> Value]
    /\ outbox \in Seq(Requests)
    /\ phase \in [Views -> {"off", "asked", "answered", "on"}]
    /\ initial \in [Views -> Value] /\ shown \in [Views -> Seq(Requests \cup Words)]
    /\ async \in [Views -> Value] /\ fallback \in [Views -> Seq(Requests \cup Words)]
    /\ bound \subseteq Views
    /\ live \in [Views -> BOOLEAN] /\ registered \in [Views -> BOOLEAN]
    /\ stream \in [Views -> Seq(Value)]
    /\ faults \in Nat /\ recent \in Seq(Requests)
    /\ missed \subseteq Views /\ unsaved \in [Views -> Value]

\* Appends are not lost to one another: what was appended since the last PUT or
\* DELETE is at the end of the list, up to the cap (app.ts:338-342,
\* widgets/storage.ts:117-152).
AppendsKept ==
    /\ TypeOK
    /\ recent # << >> => stored # None /\ IsSuffix(LastOf(recent, Cap), stored)

Quiet ==
    /\ \A r \in Requests : stage[r] \in {"idle", "done"}
    /\ \A v \in Views : phase[v] \in {"off", "on"} /\ stream[v] = << >>

Current(v) == phase[v] = "on" => shown[v] = Shows(v, stored)

\* When everything has arrived, a view shows what is stored, in whatever order
\* its first answer, events, edits and registrations came (subscribe-key.ts,
\* reatom-storage.ts); except for views that an event did not reach, for which
\* see ReachesEveryClient.
CurrentUnlessMissed == Quiet => \A v \in Views \ missed : Current(v)

\* An edit in a page is stored unless its write fails: the guard that keeps
\* events from being written back never takes an edit for one
\* (reatom-storage.ts:93-102).
EditsAreSaved == Quiet => \A v \in Views : unsaved[v] = None

\* The words of docs/architecture/overview.md:44-46: writes reach every
\* connected client.
ReachesEveryClient == Quiet => \A v \in Views : registered[v] => Current(v)
=============================================================================
