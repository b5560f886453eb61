# A TLA+ model of myboard

myboard is a self-hosted board of widgets: a web client, one Node server with Valkey
as its store, and a container with a Chromium that widgets send tasks to. This
directory holds the TLA+ modules that model its concurrent core, on both sides of the
wire, the TLC configurations that check them, and proofs for TLAPS. Paths below are
relative to `packages/` of the repository.

The server and the pages are single-threaded processes. Everything that can go wrong
between two requests, or between a click and an answer, goes wrong at an `await`, so
that is the grain of the models: **an action runs from one await to the next**, and
between two actions anything else may happen.

## The system

| Part | State it keeps | Operations | What is hard about it |
|---|---|---|---|
| In-process locks (`shared/async/serial-lane.ts`, `server/src/storage/key-lock.ts`) | the last promise of each key | `run`, `whenIdle`, forgetting a settled tail | promise reactions interleave; a rejected task must not block the lane; forgetting must not lose a newer tail |
| Devices, sessions, tickets (`server/src/auth`) | Valkey records of device, id list, session, pending ticket, add-token | login, session check and refresh, logout, approve, deny, revoke, mint and use an add-token, claim | read-modify-write over several records, some under a lock and some not |
| Invites (`server/src/auth/invites.ts`, `handlers.ts`) | invite record, challenge, account, device | register, roll back, count failures | several writes that must be undone together; scripts in another process |
| Browser automation (`browser-automation/src`) | service state, single-slot queue, Chromium context, retained pages | invoke, acquire and release a page, abort, shutdown | two deadlines, abort against page creation, crash, drain |
| Recovery access (`server/src/recovery`) | tokens and the one active tunnel, in memory | issue, upgrade, attach, detach, revoke | lookups between checks; late `close` events; a task in flight |
| Cron (`server/src/widgets/cron-scheduler.ts`) | a cursor with a failure count in Valkey; the jobs that run, in memory | tick, run job, stop | overlapping passes, lost writes, crash between job and cursor, catch-up |
| Storage API (`server/src/app.ts`, `storage/`, `realtime/`) | JSON values in Valkey; event streams and their keys | GET, PUT, append, DELETE, subscribe | store order against publish order; several server instances |
| Storage client (`widget-runtime/src/storage`) | subscribers, registered keys, connection id, last value | subscribe, first read, live event, local change | registration and first read race with events; reconnect |
| Widget servers (`server/src/widgets`) | a registry, fixed at start | dispatch | little: lookup and call |
| Client session (`shared/http/client.ts`, `client/src/session`, `activation`) | requests under way, a hint in local storage | send, recover and replay, log in, register | single flight of the recovery; a replay must not repeat an effect |
| Adding a device (`activation`, `client/src/account`) | the joining page's mode and poller; the owner's list and modal | scan or type a code, register, poll, claim; mint, approve, deny | overlapping polls and refreshes; a modal closed under its own calls |
| Boards (`client/src/board`) | the boards and the marks of the applied migrations, two keys | load, edit, migrate | two keys read and written apart, each may fail |
| Overlay history (`widget-runtime/src/overlay-history.ts`) | a stack of overlays and an owed traversal | push, drop, dismiss, flush, land | asynchronous traversals between opening and closing |
| Duty widget (`widgets/ofelia-poop-duty`) | an append-only ledger; threads of comments | confirm, reset, miss a day; the nightly run; comment | decisions made from an earlier read; a week turned while it is read |
| Passport checker (`widgets/passport-checker`) | attempts, stored results, the recovery flow and its viewer | check, store, recover, connect | a deadline against a late answer; results that overtake one another |

How they interact: the client calls the server over HTTP and listens to one event
stream. The server's handlers share records in Valkey, guarded in part by
`runExclusive`. The server calls the browser service over HTTP; before it sends a task
it revokes the recovery access of the widget. An operator's WebSocket is tunnelled
through the server to the browser container. The cron scheduler lives in the server
process and calls widget jobs; a widget's server part keeps its data through the storage
API. In a page, widgets bind atoms to storage keys, which the storage client keeps current.
Operator scripts write to Valkey from other processes.

`PROJECT.json` lists every component with its status, and 40 hazards with the line
where each bites and the properties that guard it.

## The modules

| Module | Models | Role |
|---|---|---|
| `KeyedMutex` | what callers expect of `runExclusive` | abstract: a first-in first-out lock per key |
| `SerialLane` | `serial-lane.ts` at the grain of promise reactions | detailed; implements `KeyedMutex` |
| `AuthDevices` | devices, sessions, tickets, add-tokens of one account | uses the lock abstractly |
| `AuthInvites` | registration with an invite | uses the lock abstractly |
| `BrowserTasks` | queue, service, dispatch, executor | stands alone and as part of `BrowserRecovery` |
| `Recovery` | tokens and tunnels, with an environment that may revoke and answer at any time | abstract `AccessSpec` |
| `BrowserRecovery` | `Recovery` composed with `BrowserTasks`, with requests in flight between them | detailed; implements `AccessSpec` |
| `CronScheduler` | one scheduled job | stands alone |
| `SseClient` | which keys the event stream serves: `sse-client.ts` and the server's registry | stands alone |
| `StorageSync` | one storage key: the writes, their events and the views in pages | takes the lock and the registration abstractly |
| `ClientSession` | the requests of a board, their recovery and replay; the activation page | part of `client` |
| `JoinDevice` | the page a new device joins from, with the answers the server gives it | part of `client` |
| `OwnerDevices` | the owner's device list and the modal that adds one | part of `client` |
| `BoardLayouts` | boards over their two stored keys, and the migrations of their layouts | part of `client`; also alone |
| `OverlayHistory` | the stack of overlays against the browser's session history | part of `client` |
| `Duty` | the ledger, its handlers and the nightly run | part of `client` |
| `CommentThread` | the thread of the week the reader has turned to | part of `client` |
| `PassportCheck` | attempts, deadlines, stored and optimistic results | part of `client` |
| `RecoveryViewer` | attempts to show a browser on a canvas | part of `client` |
| `MCClient`, `MCAccess` | models that share no state, as parts of one graph | for TLC |
| `MC...` | values of constants | for TLC |
| `..._proofs` | the theorems: of the module they are named after, of the parts of `client` (`Client_proofs`), of `SseClient` and `OverlayHistory` (`Page_proofs`), of both parts of `access` (`Recovery_proofs`) | |

A definition whose name has a suffix after an underscore and whose comment begins with
"Mutant:" is the definition that follows it with a plausible bug. Each property of a
passing run is violated when its mutant replaces the original, so none of them holds
just by the shape of the model.

### SerialLane and KeyedMutex

`phase[c]` follows the promises of one call: made, task called, result settled, tail
settled, tail forgotten. `tails[k]` is the map entry (or the `tail` variable of
`makeSerialLane`) and `prev[c]` the tail the call hung itself on. There is no queue in
the code and none in the model: that calls run in order is a consequence. A lane with
no key is a member of `PlainLanes`, which never forgets its tail and offers `whenIdle`.
Any call may belong to a task that never settles (`hung`). `KeyedMutex` knows only
idle, waiting, holding and released calls; the auth modules rely on it by deriving who
is inside a lock from the program counters.

### AuthDevices

`pc[r]` is the Valkey operation that request `r` awaits next, named after the function
it is in. `record`, `listed`, `sessions`, `tickets` and `tokens` are the stored keys.
`listDevices` and the sweep of a device's sessions read one key per step (`todo`,
`seen`). A handler's lock is held between the label that enters it and the operation
that leaves it, exactly where the code has its `runExclusive`; `setDeviceStatus`, the
count of active devices, the session sweep and `issueSession` are outside, as in the
code. A login or the ceremony of minting may be signed with any credential of the account
(`Credentials`), not just the session's, and the handler then looks whether it is active. A token or a ticket
may be read and found expired although its record is still there. `scenario` fixes, per
behaviour, which handlers are called and which devices are active at the start, so that one run
covers several small races.

### AuthInvites

`postRegisterVerify` from the challenge to the session, with its two ways to end badly:
an error returned as a value, which the handler rolls back or counts, and a store
operation that rejects, which it does not catch (`stranded`). Deleting the account in a
roll-back is two steps, the account and the list of its devices (`DeleteAccount`,
`DeleteDeviceList`). `revokeInviteById` and
`pruneInvites` run without the lock, as the scripts do.

### BrowserTasks

`lane` is the queue (its order is what `SerialLane` shows), `stage[t]` the operation of
the executor that the running call awaits: launching the context, closing a retained
page, opening a page, the handler, releasing. `ExecutionTimeout` may fall in any of
them; `Crash` closes the context at any time; `OpenPage` checks the abort again after
`newPage`, as the code does. A close that fails leaves its page to the browser (`"left"`), because
`closePage` swallows the failure; `PagesAccounted` exempts such a page.
`answer[t]` is what the caller got, first answer wins.

### Recovery and BrowserRecovery

In `Recovery` a token is named by the request it was issued to. An upgrade looks up its
session first (`session`), and only then, in one step, checks `active`, consumes the
token and attaches. `Destroy` leaves a socket in `closing`, whose `close` event comes
later (`CloseEvent`) and detaches only itself. `BrowserRecovery` adds the two messages
in flight: a task between `revoke` and its arrival (`sent`), and the service's report
between its look at the pages and the token (`report`).

### CronScheduler

`phase[p]` is where pass `p` is in `runJob`; what it has read (`seen`), the occurrence it
runs for (`target`) and the record it will write (`next`) stay with it across its
awaits. Passes come from the interval, chained through `inFlight`, or directly from the
test endpoint, where nothing chains them and only `running` keeps them apart. `record`
survives `Crash` and `Restart`; everything else is forgotten. `faults`, `done` and `failed` are
history: what went wrong, what succeeded, and what failed since the cursor got where it is.

### SseClient

`subscribers` are the callbacks added and not removed; `registered`, `connId`, `scheduled`,
`dirty` and `retry` are the variables of `makeSseManager`; a POST in flight is `sent` until
the server has handled it, then `handled` until the page hears of it. `serves` is the
registry. A POST may fail before or after the server handled it, the stream may break in
a way that `EventSource` repairs (`Blip`) or not (`FatalClose`). One thing the code does not
repair: if a POST that unsubscribes a key is handled but its answer is lost, the page goes
on believing the key is registered, and a subscription made before the retry is not sent.
The history `dropped` names such keys until the next connection, and `SettledIsServed`
excepts them; `extra` names the harmless opposite, keys that are served unknown to the page.

### StorageSync

`stored` is the value in Valkey, a list. A write goes from `sent` to `set` (Valkey has it and
the publication is queued behind earlier ones in `outbox`) to `done`; an append passes `read`
first and holds the key's lock until its event is published. A view goes from `asked` (its
GET is on its way) over `answered` to `on`, and may unsubscribe from any of them; the
server learns of it by `Register`, at any time before or after, and the events travel in `stream[v]`. `Apply` is the listener of
`reatom-storage.ts` with its change hook: a delivered value is not written back, the default
that stands for null is, an edit is. Values are objects, each different from every other;
`Words` adds values that are equal when they look the same. `bound` says which views write
back. `missed` names the views that an event did not reach.

### ClientSession

`request[r]` goes from `sent` over its answer to `done`; a 401 takes it to `recovering`, from
where the one recovery under way (`flow`) releases it for a single replay (`retried`). `Serve`
is where a request takes effect, `AnswerLost` where nobody learns of it. `flow` is also the
login or the registration of the activation page; the two documents share only `hint`, which
local storage keeps, and a navigation drops everything else. `runs` counts effects, and
`suspect` remembers that the stored hint has failed.

### JoinDevice and OwnerDevices

In both, `call` holds the calls in flight: each is sent, served or lost, and its continuation
runs when the answer is delivered, in any order with the others. `JoinDevice` has the modes of
the screen, the poller (`polling`, `ticks`), the single-flight guard `claiming` and, of the
server, codes, devices and tickets. `OwnerDevices` has the account model that dialog and modal
share, the modal's phases, and the events that tell of a new device. A call the modal started
carries a generation; `reset()` outdates it. `gap` names the states in which the list may
rightly lag: an event or a refresh was lost, or two refreshes overlapped, since the last
refresh that ran alone.

### BoardLayouts

`stored` has the two values, `boards` and `marks` the page's atoms, `loading` the first reads
that are out. `Reload` is a page load, `ReadBoards` and `ReadMarks` the ends of its first reads,
and the migration runs within the step that changes an atom (`Settle`), as the effect in
`board-storage.ts` does. Reads and writes fail each alone (`MaxFaults`), and `unread` remembers that
a first read of the marks has: its page then writes marks of its own over the stored ones, so the
boards it does not show lose theirs, and later pages may migrate them again too. A
layout is the height of every widget and the least height recorded for it; the floor of the
passport checker and the generic pass are both there, the desktop and the mobile layout too.

### OverlayHistory

`marks` is the browser's session history, of which only the depth each entry carries matters;
`pending` are the traversals in flight, each landing in a step of its own. `owed` is the
deferred traversal, whose timer is armed exactly while something is owed. Nothing waits for a
landing: a push, a drop, a dismissal and the timer may all fall over traversals in flight, and
go by the depth of the entry the browser still stands on. Two constraints that the source puts on
its callers are kept: nothing is opened during the flush's own traversal (`returning`,
`overlay-history.ts:222-234`), and a debt is claimed once per commit (`claimed`, 209-215). Of the
browser it is assumed that a traversal goes on from where the last one in flight will end, and
that one overtaken by a push or a reload goes nowhere; `Outside` stands for everything before the
application.

`doomed` are the overlays somebody asked to close. Two histories name what the properties exempt.
`stray` is set when the user goes forward onto an entry that no open overlay left, and cleared
when history is back at an unmarked one; in between, what the module takes for its own entries is
not. `crossed` is set when a push or a flush goes by a stale depth, over a traversal in flight, and
cleared when history has come to rest with every overlay closed: what such a step makes of the
history is not what it meant to (see "Seen while modelling"). `SettledAgree` needs only the first,
`NoFlash` and `StaysInApp` both.

### Duty and CommentThread

`ledger` has the last entry of every day, because everything is derived from it. A handler
decides from one read what it will append; the nightly run reads the ledger, drafts an entry
for every open day of its window, and before each append looks once more. `raced` and
`disturbed` tell the property which of its decisions somebody else came between.
`CommentThread` is the read-only mirror of a key that follows the viewed week: its first read,
its events, and the value that stays when a read fails. An event that cannot be parsed sets the error, as a
failed read does.

### PassportCheck and RecoveryViewer

`attempt[a]` is what attempt `a` waits for and whether its deadline has gone by; `transient`,
`errors` and `surface` are the model's. A result is known by the time it was observed at; the
stored one of each document is read once and followed by events, and until it is known the
page shows an optimistic one. In `RecoveryViewer` an attempt waits for access and for the
viewer's module, and `tries` is the counter that makes older attempts stale. When building the viewer
throws, the attempt ends showing "connecting" (`unbuilt`), and `OneViewer` exempts it.

### What the models take for granted

- A Valkey operation that rejects has had no effect (`Fail`, `Throw`, `WriteLost`).
- Expiry of a key is its absence, at any moment.
- Ceremonies verify or they do not; which, is chosen freely. A challenge is modelled only
  where its single use matters, in `AuthInvites`.
- Event publication after the last write of a handler is part of its end.
- The closure that ends a subscription to the stream (`sse-client.ts:183-190`) is called once. A
  second call, after the key's set of callbacks was replaced, would take the key away from newer
  subscribers; both callers (`reatom-storage.ts:79` and `184`) call it once.
- `disabled` on a device, which no code sets, is left out, and so are names and labels.
- In the client's models the server answers as its handlers do, one request at a time; the
  races inside a handler are those of `AuthDevices` and `StorageSync`.
- A job of the scheduler returns or fails; the registry's jobs do not influence each other.

## The runs

| Run | Question | Bounds |
|---|---|---|
| `lane` | Do promise chains make a lock, and does `whenIdle` wait? | 3 calls, a keyed and a plain lane, 1 observer; every assignment of keys and hung tasks |
| `devices` | Do overlapping requests on one account keep its records consistent? | 3 requests, 2 veterans, 1 device waiting, 2 newcomers, symmetric |
| `browser_tasks` | Are pages, answers and shutdown right under deadlines and crashes? | 3 calls for 2 widgets, any of them hung |
| `access` | Is access single, single-use and revocable, and are an invite's uses and failures counted exactly? | recovery: 2 token requests, 2 upgrades, 2 tasks, 1 widget; invites: 3 registrations, 2 challenges, 1 use, lock after 2 failures |
| `cron` | Is a job never run twice at once, never skipped, never lost? | 3 occurrences, 2 passes, 2 faults, give up after 2 failures, catch-up of 2 steps |
| `sse` | Does the stream end up serving just what the page wants? | 3 subscriptions for 2 keys, 2 connections, 1 failure |
| `storage` | Do views converge, and are appends and edits kept? | 3 writes of any kind, 1 view, bound or not, cap 2, 2 faults, symmetric in the writes |
| `client` | Do the pages keep their promises while answers, clicks, timers and navigations interleave? | session: 2 requests; overlays: 3, with 5 entries and 2 presses; viewer: 6 starts and teardowns; checks: 2 attempts, 2 documents, 2 observations; joining: 1 code, 2 calls, 2 ticks; owner: 1 device, 2 calls, 1 event; duty: 4 days, window 3, 1 handler, 3 events; boards: 2 boards, 2 widgets, 2 edits, 1 fault; comments: 3 weeks, 1 comment each |
| `last_active`, `denied`, `reaches_clients`, `resize_once` | Does the code do what its words say? | the smallest instance that shows it does not |

`access` and `client` are sums: models that share no state are put side by side, a behaviour
picks one as its `part`, and the others stay where they began. A state of the run is a state
of one model, so nothing is lost by it and nothing is multiplied; a property of a part that is
not picked holds trivially.

The bounds suffice for the cases the properties are about: every race named in the
hazards is between two actors, with a third to disturb them (a call behind the one that
rejects; a registration that shares both the invite and a challenge; a newer tunnel
while an old one closes; a newer attempt while an older one's answer is late; a second poll or
refresh while the first is answered). Two tunnels and two tokens are needed to mistake one for the
other, three calls to have one behind a hung one, three occurrences for a catch-up walk
that is cut short and goes on; three overlays to drop one under another while a third opens;
a window of three days to have one debt and two days that could repay it. Larger numbers repeat
these cases; where the question is whether numbers matter at all, there is a proof. In `cron` the clock stops at
`MaxTime`, and faults at `MaxFaults`; both are guards. Deadlock is not checked in
`lane`, `browser_tasks`, `access`, `storage`, `reaches_clients`, `client` and `resize_once`, where
all calls may have been made and answered, or the user may have left; `AuthDevices` has an explicit
`Terminated` step, and the scheduler and the stream never stop for good.

`SYMMETRY` is used in the runs of `AuthDevices`, where every scenario is closed under
exchanging the two veterans, and of `StorageSync`, where writes differ in name only; neither
checks liveness. One view is enough in `storage`, because views meet only through what is
stored, and other pages' writes are among the requests.

### What the runs show

The passing runs show that under all those interleavings: a lane is a fair lock; no
device-list update is lost; a login never brings back a revoked device; a session that
outlives a revocation admits nobody; a logged-out session stays out although a refresh
overlaps; invites count exactly; a page
is never left open without an owner, and one kept for an operator outlives other widgets'
tasks; a caller told "did not run" can rely on it;
everybody is answered; shutdown ends and leaves nothing; a late `close` event never
hides a newer tunnel; a revoked token stays revoked even for an upgrade that was already
waiting; a job never overlaps itself, its cursor is earned, it is
run again only if a fault lost the record, and what is due is dealt with; a page at rest is
served what it subscribed to; appends of a key are not lost to one another; and a view that
no event missed ends up with the stored value. In the pages: a request takes effect at most
once through any recovery (`EffectOnce`) and a hint that failed is not tried again
(`FailedHintDropped`); overlapping polls claim once (`OneClaim`); the device list catches up
(`ListCurrent`) and a closed modal shows nothing of what it had begun (`ModalIsHonest`);
overlays and history agree once nothing is owed (`SettledAgree`), and unless a push or a flush
crossed a traversal in flight, no overlay vanishes unasked and the deferred traversal does not
leave the application (`NoFlash`, `StaysInApp`); a check's result is applied in
order and never under a newer one (`AttemptsInOrder`), and the first read does not take back a
newer result (`HydrationKeeps`); a viewer always has an owner (`OneViewer`); an undisturbed
nightly run closes its days and settles a debt once (`NightlySettlesOnce`), and leaves decisions
alone but for the one await in which it cannot see them (`DecisionStands`); a thread's rows are of the
week it is turned to (`ThreadIsOfTheWeek`); and a load keeps the passport's floor, and the
resizes as long as no page has failed to read the applied migrations (`MigrationSound`).

Four runs end in a violation. Each checks one sentence of the repository against the code:

- `last_active`: "Cannot remove the last active device on an account". The count of
  active devices precedes the revocation without a common lock; two devices that revoke
  each other leave none.
- `denied`: "denying deletes the pending device". An approval that has read the record
  before writes it back as active.
- `reaches_clients`: "writes from any server instance reach every connected SSE client". A
  write between a view's first read and the registration of its key does not, nor does one
  while the stream is down; nothing reads the key again afterwards.
- `resize_once`: migrations "must never be re-applied after a later deliberate resize". A
  first read of the applied migrations that fails is not loading either and leaves none
  (`reatom-storage.ts:82-83`), so the load (`board-storage.ts:134`) applies the pass again.

### Seen while modelling

These are in the models, or fell out of them, and have no run of their own.

- A store operation that rejects in the middle of a registration leaves the invite's use counted
  (`Throw` in `AuthInvites`, `server/src/auth/handlers.ts:222`), although the comment above it says
  that any failure rolls the invite back.
- With `Words` not empty, `EditsAreSaved` fails: a bound view of a string that is changed and
  changed back before the first echo does not write the second change, because the hook takes
  it for an echo (`reatom-storage.ts:102`); the run keeps to objects, for which the comment there
  is right.
- Revoking before a task travels (`recovery/revoking-client.ts:5-15`) does not cover a token that
  is issued while the task travels: an operator may then be attached to a page the task takes over.
- A claim whose answer is lost has spent the ticket, contrary to `add-device-model.ts:320-322`, and
  `claiming` is not reset by a denied claim (326-329). Late answers of an earlier stage pull a
  page that waits back to registering (436, 466), and a poll's late answer clears the error a
  timeout has set (298).
- `account-model.ts:195-198` speaks of connecting when the menu opens; `AccountMenu.tsx:64-67`
  connects at mount. `MyDevicesDialog` never shows the model's error.
- After going forward onto an entry that a closed overlay left behind, a traversal can close
  overlays nobody asked to close, which `overlay-history.ts:191-194` excludes; hence `stray`.
- The flush (`overlay-history.ts:105-117`) is a timer that does not know of a Back in flight, and
  reads the depth the Back is about to take away, although the comment there (109-110) says that
  one which arrived first leaves nothing to do. The two add up: with two overlays open, drop the
  upper and press Back before the timer fires, and the lower one closes too, unasked; with one
  overlay, the same leaves the application. A push over a Back goes astray in the same way. The
  source documents the overshoot only for a dismissal and a drop in one task (216-221). Hence `crossed`.
- Two dismissals of the only overlay before the first has landed go back two entries and leave the
  application; `StaysInApp` counts each as going back.
- When `makeRfb` throws (`recovery-model.ts:99-102`), the canvas says "connecting" for good, and
  `Reconnect` is not offered in that state.
- An optimistic passport result that is flushed when the stored one arrives overwrites another
  page's newer result; so may the late answer of a model that was disposed and built anew
  (`check-model.ts:514-516`). `HydrationKeeps` is about what this page shows.
- `addBoard` (`board-model.ts:21`), before or without a successful read of `boards`, writes a list
  with just the new board over every stored one (`Header.tsx:48-58`). An edit of a board that
  another page has removed adds it again.
- After two empty weeks `loadedKey` stays the earlier week, so a failed read of an empty week
  shows the failure box (`CommentThread.tsx:60-63`). The success of an earlier comment clears a
  newer draft, so that a later failure loses it (compare 88-90). `retryLedger`
  (`ofelia-duty.ts:82-92`) can put an older ledger over a newer event's.

### Fairness

Safety runs assume none, `access` and `client` among them: in a page, answers may stay away and
users leave. Where liveness is checked:

- `lane`: promise reactions run, and a task not in `hung` settles. The JavaScript runtime
  guarantees the first; the second is what "hung" excludes.
- `browser_tasks`: timers fire (`QueueTimeout`, `ExecutionTimeout`), the browser answers
  the operation awaited, a handler that is not hung settles, the executor's close goes
  through. Calls, crashes and SIGTERM have no fairness.
- `sse`: microtasks run, the retry timer fires, a POST and an attempt to connect end, the
  server's `ready` arrives. Subscribing, breaking and failing have no fairness; failures and
  connections are bounded, and `SettlesInTheEnd` is about subscriptions that stop changing.
- `cron`: the interval fires while the process is up, Valkey answers in the end, a started
  job ends. `DueIsHandled` additionally assumes, in its statement, that the process stays
  up from some time on; `docker-compose.yml` has `restart: unless-stopped`. Writes may be lost, but
  only finitely often.

## The proofs

TLAPS checks these for every value of the constants that satisfies the modules'
assumptions (absent values are not members of the sets they are absent from; numbers are
natural; `wants` and `widget` are functions into the widgets; requests, devices of the three
kinds and their sessions are told apart). Every safety property and nearly every step property
that a passing run checks is a theorem; what is not is listed at the end.

- `SerialLane_proofs`. `LaneInv` is inductive. The code keeps one promise per key, so the
  invariant has to say what that promise stands for: the tail covers every unfinished
  call of its key (`TailCoversKey`), a waiting call's predecessor covers everything ahead
  of it (`ChainCoversAhead`), and a started call has nothing unfinished ahead
  (`StartedInTurn`). The history variable `ahead` records, when a call is made, which
  calls of its key were unfinished. From the invariant follow `LaneDrained` (`whenIdle` is
  right) and `LaneImplementsMutex`: the refinement mapping `CallerPhase` turns each
  step of the promises into a step of `KeyedMutex` or a stutter. `LaneIsExclusive` is proved of
  the lock and carried over by the refinement.
- `BrowserTasks_proofs`. `LaneOrdered` says that the lane holds each call under way once and that
  only its first was started; `Sound` says of each call what its stage allows of its answer, its
  abort and its page, and of each widget that what is kept for it is the page of a finished call
  of its own. The first is what lets the second speak of one call at a time: a page is opened,
  closed or kept by the head of the lane alone. From both follow `PagesHaveOwners` and
  `DenialsAreTrue`; `KeptForTheOperator` looks at the steps.
- `Recovery_proofs`. `AccessInv` is inductive for `AccessSpec`; beyond the properties it
  says that tokens come from issued requests and that a tunnel's token has left the store
  for good, without which `Issue` and `Accept` could reuse one. `ComposedImplementsAccess`
  shows that each step of `BrowserRecovery` is a step of `AccessSpec` or leaves its
  variables alone, so that the properties of access hold whatever the browser does:
  `TunnelIsTheStores`, `TokensAreSingleUse`, `RevocationHolds`.
  `InviteIsExact` is about the other part of `access`. `InvitesInv` says that the record in the
  store counts exactly the registrations that have spent a use and the failures that were
  counted, and that the record its lock's holder has read counts them too: `LockHolds`, with
  at most one holder. The counts are cardinalities; that a step moves one registration in or out is
  taken from the theorems on finite sets, and that only finitely many have begun is part of the
  invariant, so nothing is assumed of the set of registrations. `MaxUses` is a number
  (`UsesAssumption`); a failure limit is not assumed to be.
- `CronScheduler_proofs`. `CronInv` adds to the properties that a chained pass in the job is
  the first of the chain, that the record a running pass has read is still the stored
  one, and that the record about to be written is earned and not behind the stored one.
  The middle one is why a pass may hold state across awaits: only one is ever in the job.
  From it follow `JobsDoNotOverlap`, `CursorEarned` and `CursorNeverBack`.
  `Counted` adds that an occurrence the cursor has not reached, and for which no write is on its
  way, succeeded at most once per fault, and that neither the stored failures nor those about to
  be stored exceed the runs that failed since the cursor got where it is (the history `failed`):
  `OnceUnlessLost`. `ChainShape` says that the chain is just the passes under way, each once, and
  that `inFlight` is its last: `StopWaits`.
- `StorageSync_proofs`. `SyncInv` has three parts. Appends: whoever is in the lock after its read
  has read the list as it is, unless another kind of write came between (`AppendSound`), and the
  appends since then are the end of the list (`RecentSound`). The outbox: the last write in it is
  what is stored (`OutboxSound`), because a write is stored and queued in one step and
  published in order. Views: behind an empty outbox, the last event in the stream of a view that
  missed none is what is stored, or without one the answer it waits for, or what it was told last
  (`ViewSound`). Hence `AppendsAreKept` and `ViewsConverge`. `EditsGetSaved` needs `EditsInv`: no
  value anywhere ends with an entry that nobody has written yet (`AllWritten`), so an edit differs
  from the value last delivered and is sent (`EditsCarried`). That is so for objects, and the
  theorem says it: its hypothesis is that `Words` is empty. For strings the property is false
  (see "Seen while modelling").
- `Page_proofs`, for `SseClient`. `SseInv` says which connection the page, the server and a request
  in flight speak of (`StreamKnown`), that a request is the difference between what is
  registered and what will be (`RequestIsDifference`), that `Believed` (the keys registered,
  or those of a request that was handled) is what the server serves (`RegisteredIsServed`),
  and that a difference has a sync to come (`DifferenceIsDue`). The last two together are
  what a manager at rest needs: `RestIsServed`. `ClosedIsForgotten` is a part of it.
- `Page_proofs`, for `OverlayHistory`. `OverlayInv` has three layers. `Sound` always holds: within
  one visit the marks count up from an unmarked entry (`Rises`), a page that does not listen has
  no overlay and owes nothing, and unless `crossed` each traversal in flight ends one entry from
  where the one before it does. `Tracked` holds unless `stray`: depths rise along
  the stack and do not exceed history's (`Rising`, which gives `OverlaysAreBacked`);
  without a debt every entry of the visit backs the overlay of its depth, and with one the stack is
  full up to what is owed, and the place of the entry the next overlay will take over is free
  (`Owing`); and what is above a gap or above the entry a debt gives back has been asked to close
  (`Debts`). `Aimed` holds unless `stray` or `crossed`: the first traversal in flight goes one
  entry or stays within the visit (`Near`), and whatever the entry a traversal goes to does not back
  has been asked to close (`Asked`), which gives `NothingFlashes`. `Ahead`, that no entry of an
  earlier visit lies in front, is what `Asked` needs when the user goes forward. For `TheUserStays`,
  `Rises` puts the entry `Depth - owed` steps back inside the visit, `FirstUnmarked` has
  every overlay asked to close before a step back leaves it, and `WhatTravels` says which steps ask
  for a traversal out. The lemmas before them say what
  `InsertAt`, `RemoveAt`, `Max` and `Min` return; `TwiceIsOnce` that StrictMode's second mount
  changes nothing.
- `AuthDevices_proofs`. `DevicesInv` has five layers. `Typed` says that a request is only at its
  handler's labels, about a device, with a session that was issued, and that a stored session
  names the device it was issued to; it is what lets a request rely on what it carries.
  `Locked`: no two requests are inside a device's lock, or the list's, at once; who rewrites
  the list has read it as it is; and a sign count is written over a record that is there.
  `Listing` adds who is about to write a record, whose device must be listed or being removed
  by somebody. `LoggedOut` adds that nobody holds the lock of a session that was logged out.
  For revocation, `VeteranRecords` says that the record of a device active from the start is
  active or gone, and that an approval past its check is never about such a device;
  `RevokedGone` that behind a revocation the record is gone; `LetIn` that whoever was admitted
  had found it active. Each layer's step is proved from `Footprint`, which says once for all
  handlers what a step may change. From it follow `ListKeepsDevices`, `LoginMeetsRecord`,
  `LogoutStays` and `RevocationStays`.
- `Client_proofs` has an invariant for each of eight parts of `client`, those that are instances
  among them proved of `MCClient`'s own specification.
  `SessionInv` adds to `EffectOnce` that a request which took effect has
  an answer that no replay follows (`EffectIsAnswered`) and that the board runs no ceremony but the
  recovery (`FlowOfPage`), for otherwise a waiting request could be left behind; `HintTrusted`, that
  a page with a hint knows nothing against it, gives `HintNotRetried`.
  `ViewerInv` adds to `OneViewer` that attempts are numbered by the
  counter, and that while the newest of them waits there is no viewer yet and the canvas is there.
  `CheckInv`: an attempt still waited for was never applied, and one whose deadline has not passed
  is the latest, which is pending (`ResultsInOrder`); until the stored result is known the page
  shows the optimistic one (`HydrationKeepsResults`).
  `JoinInv`: a claim is in flight only while the guard is set, and then only one (`ClaimsAreSingle`).
  `ThreadInv`: the rows are of the week loaded last, and are of the viewed week once an event or
  a first read was heard for it, or else an error is shown (`ThreadsAreOfTheWeek`).
  `OwnerInv`: a modal's call carries the current generation only while the modal is open, and
  what it reports the server has approved (`ModalsAreHonest`); while `gap` is unset and no event is
  on its way, a refresh that has read the devices has read them as they are, and without a
  refresh the list shows them (`ListsCatchUp`).
  `LayoutsInv`: while a key is read no marks are written (`LoadingIsClean`); unless a read of them
  failed, the marks only grow from the store into the page and back, and a deliberate resize has
  the generic pass's mark behind it (`MarksAreKept`), so the pass that ends a load leaves it, and
  what the pass leaves is above the floor (`FloorHolds`): `LoadsAreSound`.
  `DutyInv`: between the second look and the append the day is open unless somebody wrote it
  (`DecisionsStand`); the credit follows from `CleanIsShown`, that draft and board derive one debtor.

Only model-checked: liveness (`EveryCallFinishes`, `EveryCallAnswered`, `ShutdownCompletes`,
`DueIsHandled`, `SettlesInTheEnd`), because fairness is beyond this prover; and `NightlySettlesOnce`,
because what the nightly run's fold over its days computes would take an induction over data.

## Not modelled, and what could follow

Left out for good: cryptography and WebAuthn ceremonies, cookies and audit lines, server
time, user-input detection, the user interface, code generation, the steps of the scripted
passport page. They have no protocol of their own.

Could follow:

1. The storage kept in the browser (Dexie and its channel) as another instance of what
   `StorageSync` says of a key; several server processes, whose publications may be reordered.
2. Operator scripts outside the lock, in `AuthDevices` and `AuthInvites`, read and write apart.
3. `JoinDevice` and `OwnerDevices` composed with each other and with `AuthDevices` through the
   records of the device that joins.
4. Widget-level composition: `Duty` and `PassportCheck` over `StorageSync` instead of the
   simpler storage each has.
5. Widths and positions of the board's layouts, as pure operators against a reference definition.
6. A nightly run told as steps over its days, whose debts an invariant could follow.
