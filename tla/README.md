# kbkb in TLA+

kbkb is Puyo Puyo on Kubernetes: nodes are columns, Pods are puyos, and groups
of equally coloured Pods are deleted. Nothing in it owns the game. Two
controllers, a scheduler and a browser each read a cache of the cluster that may
be old, decide, and then send several requests one after the other. The modules
here say what that adds up to: which promises of the code hold whatever the
order of those steps, which ones do not, and why.

- [Inventory](#inventory)
- [Modules](#modules)
- [Runs](#runs)
- [Where the code and its words part](#where-the-code-and-its-words-part)
- [Fairness](#fairness)
- [Proofs](#proofs)
- [Not modelled](#not-modelled)
- [Plan](#plan)

## Inventory

| Component | Source | State | Operations | Module |
|---|---|---|---|---|
| Field | `pkg/field` | none: built from Pods and nodes each time | `New`, `SelectNodes`, `Stable`, `Height`, `MaxHeight`, `Erasable`, `group` | `Field`, `EraseScan` |
| Erase controller | `internal/controller/kbkb_controller.go` | the Kbkb status (phase, chain, maxChain, totalErased, allClears) | `Reconcile`: `settle`, `erase`, `sendOjama` | `EraseController` |
| Spawn controller | `internal/controller/spawn_controller.go` | the phase `GameOver`, new Pods | `Reconcile` | `SpawnController` |
| Colour webhook | `internal/webhook` | none | `Default` | in `SpawnController` |
| Kbkb API | `api/v1beta1/kbkb_types.go` | spec and status | none | `Score`, `Cluster` |
| Scheduler | `internal/scheduler/scheduler.go` | mode, inflight set, subscribers, Pod cache | `Run`/`tick`, `Drop`, `bind`, `dropOjama`, `autoDrop`, `pruneInflight`, `SetMode` | `Scheduler`, `SchedulerHistory`, `PlayedGame` |
| HTTP server, event stream | `internal/scheduler/server.go`, `state.go` | one channel per subscriber | `handleDrop`, `handleMode`, `handleEvents`, `State`, `Subscribe`, `broadcast` | the first two in `Scheduler`; the rest `EventStream` |
| Web UI | `internal/scheduler/web/app.js` | the last state, the falling pair, `dropping`, the event log | movement, rotation, `syncPair`, `lock`; `connect`, `logTransitions` | `PairUI`; the last two `EventStream` |
| kubectl-kbkb | `internal/cli`, `pkg/printer` | lines of the last frame | `runOnce`, `runWatch`, `Overwriter.Print` | the last two `WatchView` |
| Metrics | `internal/metrics` | counters and gauges | set by the controllers | no |
| Versus mode | `kbkb_controller.go`, two namespaces | two games | `sendOjama` into the other namespace | each side, in `EraseController`, `GameLoop` and `Scheduler` |
| Commands | `cmd/` | none | wiring | their caches, in `Cluster` and `EventStream` |
| Manifests, recorder | `config/`, `hack/` | none | none | no |

**How they interact.** Everything goes through the API server. The spawn
controller creates Pods without a node; the webhook colours them; the scheduler
stamps each with a drop order and binds it to a node; the kubelet starts it; the
erase controller deletes the groups, and may create white *ojama* (garbage) Pods
in the opponent's namespace, where the opponent's scheduler drops them. Both
controllers write the same status. Every Pod event and every Kbkb event puts the
Kbkb on the work queue of both controllers; every Pod event wakes the scheduler
and pokes the browsers. Inside the scheduler the loop and the HTTP handlers share
the inflight set (under a lock) and the mode. A browser gets a frame for each
poke and every few seconds, keeps the pair to itself, and sends a drop when it is
locked. `kubectl kbkb --watch` has informers of its own and redraws a terminal
from their goroutines.

**What is hard.** Controllers and scheduler decide on caches that do not show
their own last writes; a reconcile or a drop is several requests, each of which
may fail, be applied with the answer lost, or be the last one before a crash;
two writers share the status; loop and handlers interleave between check and
bind; a frame is read bit by bit while the cache moves on; the browser operates a
pair over a field that is replaced under it. `PROJECT.json` lists each hazard at
its line.

**What makes each component correct.**

- *Field*: `Erasable` returns the Pods of the groups that are large enough, each
  once; what is erased, counted and paid for is the length of that list.
- *Erase controller*: the score never falls behind the deletions; the garbage
  never exceeds what was erased; what is erasable is erased; a chain ends.
- *Spawn controller*: a pair when nothing waits and the field has settled, and
  the next one comes.
- *Status*: that of one game, whoever writes it.
- *Scheduler*: a pair lands as it was sent and on top, what has landed does not
  move, no pair leaves the columns or grows one beyond the limit, garbage and
  playable pairs do not wait for ever.
- *The game*: it goes on until it is over.
- *Event stream*: no frame shows a Pod twice, no poke that matters is lost, and a
  browser ends with what is.
- *Pair*: it is drawn on free cells, it is sent as it was drawn, the scheduler
  accepts it if nothing has grown, and Down locks it.
- *Watch view*: the last frame stands whole at the bottom of the terminal, and in
  the end it is that of the current field.

## Modules

```
Field ─┬─ EraseScan ── EraseScanProofs
       ├─ FieldProofs (used by EraseScanProofs and GameLoopProofs)
       ├─ Cluster ─┬─ EraseController ─┬─ GameLoop ── GameLoopProofs
       │           └─ SpawnController ─┘    │   │
       │                          INSTANCE ─┤   └─ PlayedGame ── PlayedGameProofs
       │                                  Score
       └─ Scheduler ── SchedulerHistory ── SchedulerProofs
EventStream ── EventStreamProofs
PairUI ── PairUIProofs
WatchView ── WatchViewProofs
```

Lines are EXTENDS. The modules `MC...` give TLC the nodes and fields of a run.

**Field** translates `pkg/field` into operators. A field is the function from
Pods to cells `<<x, y>>`: `f.Columns[x].Pods[y]` read backwards. Names, creation
times and drop orders are integers. A group is defined as what it must be, the
smallest set closed under adjacency of one colour; `Erasable` takes those of at
least `threshold` members.

**EraseScan** is the code of `Erasable` and `group`, step by step: the scan over
cells, the stack, the visited table shared by all searches, the lists with their
lengths. Its specification is `Field!Erasable`. The search may pop any pending
cell; the code pops the last.

**Cluster** is what the controllers share: the store (`pods`, `kbkb`), a feed of
undelivered watch events for each kind, the caches, the work queue (a set, since
it merges), and the rest of the cluster as environment actions (`Bind`, `Run`,
`Remove`, `OjamaArrives`, `CleanUp`). `kbkb.rv` is the resource version;
`UpdateStatus` succeeds on the current version only. `Fault` is a request that
fails, with or without having been applied, or a crash.

**EraseController**, **SpawnController** cut each `Reconcile` at its requests:
one step reads the caches and decides, then one per request. So `ePc` is
`"update"` before `Status().Update`, `"delete"` in the loop of deletes, `"ojama"`
in `sendOjama`; `eKbkb` is the copy with the status about to be written; `eList`
and `eOjama` are what is left to delete and to send. `erased` and `garbage` are
history variables of the game in progress; nothing reads them. A reconcile that
fails goes back on the queue, where the code returns the error.

**GameLoop** joins the two with the cluster and a crash of the manager, and holds
the properties. **Score** is the abstract specification of the status: a game
played one step after the other (`Erase`, `EndChain`, `FirstIdle`, `GameOver`,
`NewGame`). `OneGame == ScoreBoard!Spec` says that the status implements it.

**PlayedGame** is GameLoop with somebody to play: where `GameLoop` binds any Pod
at any time, here the scheduler in auto mode plays a whole pair onto a settled
field if it fits (`PlayPair`), binds it Pod by Pod (`plan`), and gives the rest up
when a request fails (`misses`). `autoDrop` and `Drop` each read the Kbkb, and each
read may fail (`kb`, `again`): the pair is then chosen among, or checked against,
all nodes and the height of the flag, and with both reads failed it is bound to a
control-plane node. A drop counts as one miss, however many of its reads fail. Its
cache is up to date; what an old one does is the subject of `Scheduler`. `Bind` in
`Cluster` lets the players of `GameLoop` bind to any node too, so a step of the
played game is one of `GameLoop` (a lemma of `PlayedGameProofs`).

**Scheduler** is `scheduler.go` and the handlers of drops and modes. Each thread
(the loop, and each HTTP client) has a `pc` and the placements it has still to
bind (`todo`): `"list"` is between the list of the cache and the lock of the
inflight set in `pending()` (a client drops what `listed` says), `"patch"` before
the annotation is stamped, `"bind"` before the binding, `"check"` between
`autoDrop` and the `Drop` it calls, `"auto"` between `dropOjama` and `autoDrop`.
`kb = FALSE` in an action is a failed read of the Kbkb, which makes the scheduler
use all nodes and the height of its flag. `Arrive` creates Pods at any time: the
spawn controller waits until no Pod is unscheduled, but in a cache that may be as
old as the game (hazard at `spawn_controller.go:50`). Drop orders are ranks, 1 up to the
number of stamped Pods: only their order is read. `chosen` is history: which Pod
was asked to land below which.

**SchedulerHistory** adds `calm`, a history of how the Pods came: true until garbage
is created, a pair is begun while a Pod of another waits, or a request fails. It
constrains nothing; `RefusesWhileCalm` says what the scheduler keeps until then.

**EventStream** is how a browser learns the state. Of each Pod it keeps the place
(`absent`, `queued`, `placed`, `gone`), in the store, the cache and the undelivered
events. A subscriber's channel of capacity 1 is `token`. `pc` is what
`handleEvents` does next: `State` reads the Kbkb, the field, the list and the
inflight set one after the other (`"kbkb"`, `"field"`, `"list"`, `"lock"`), each
from what is then there, into `draft`; frames travel on `wire`; `shown` is what the
browser keeps. Connections end, the scheduler restarts (with an empty cache, and
serving before it is filled), a drop's request fails.

**PairUI** is the pair in the browser: `pair` with column, row, rotation and key,
and `drawn`, the pair as last rendered. A key, a frame or an answer is one action,
with the render that ends it where the code has one. `dropping` says what has
become of the request (`"sent"`, `"served"` and not answered yet). Row `Off` stands
for all rows from which the pair does not come back. `overfull` is history: a
column was above `maxHeight` when the pair was lifted. The scheduler's side is its
check of a drop.

**WatchView** has three goroutines (the main one, the Pod informer's and the node
informer's), each of which lists Pods, lists nodes, erases `lastLines` rows,
writes its frame and counts its lines; `screen` is what the terminal shows.

**FieldProofs**, **EraseScanProofs**, **GameLoopProofs**, **PlayedGameProofs**,
**SchedulerProofs**, **EventStreamProofs**, **PairUIProofs** and
**WatchViewProofs** hold the theorems ([Proofs](#proofs)).

Operators whose comment says *Mutant* are plausible bugs; no definition uses
them. `PROJECT.json` names for each property the one that breaks it.

## Runs

Two workers, times on a small machine.

| Run | Question | Bounds | States | Time |
|---|---|---|---|---|
| `erase_scan` | does the scan return what it should, and end? | all fields of 2 columns, up to 3 Pods each, 2 colours and white, threshold 3 | 19 k | 60 s |
| `game_faults` | score, garbage and one game, whatever fails | 3 Pods, 1 column, 1 fault, 2 undelivered events per feed, versus and opponent | 2.5 M | 90 s |
| `played_game` | is erasable erased, does a chain end, does the pair come, does the game go on? | 4 Pods, 1 column of 3 (4 by the flag) and a control-plane node, 1 fault, 1 undelivered event per feed | 137 k | 97 s |
| `drop_order` | does a pair land as sent, are columns kept to their height while pairs come one at a time? | one client, 4 Pods created at any time, 1 column of 2, 1 undelivered event when something is written | 1.5 M | 55 s |
| `drop_live` | does everything land on top and stay, on the columns, do garbage and pairs get down? | the loop alone, both modes, garbage, 3 Pods, 1 column of 2 (3 by the flag) and a control-plane node, 1 fault, 1 undelivered event when the cluster writes, 2 when the scheduler binds | 0.62 M | 98 s |
| `event_stream` | does the browser show what is? | 1 Pod, 1 change of the score, 2 undelivered events, 2 frames on the wire, 2 faults | 0.68 M | 40 s |
| `pair_ui` | is the pair drawn, sent and accepted as it should be, does Down lock it? | 2 columns of 2 (garbage up to 3), 2 pairs, 2 changes by others | 0.46 M | 38 s |
| `watch_view` | is there one whole frame, and the right one in the end? | up to 2 Pods in a column, 2 changes, a terminal of 4 rows | 0.87 M | 56 s |

*Why the bounds suffice.* A race needs one event that a cache lacks for each kind
of object, which `MaxLag` 1 or 2 gives; one fault reaches every "between two
requests"; three Pods give an erasable pair and a Pod that lands on it, four give
a second pair, a chain of two links with threshold 2, and the last free cell of a
column of three. Columns are independent except for groups, which `erase_scan`
covers with two columns, and for the walls and ledges a pair turns against, which
`pair_ui` covers. The Pods of a frame are independent of each other, so
`event_stream` has one, with a whole life. A terminal of four rows holds a frame
of three and a part of another one.
`MaxStaleRV` bounds how often a reconcile may read stale caches: up to that
version of the Kbkb any staleness is allowed, afterwards the reconcile waits for
its caches. Without it a stale erase controller could count for ever.
In `Scheduler` the cluster writes while fewer than `MaxLag` events are undelivered
and the scheduler binds while fewer than `MaxBindLag` are, so that a watch that is
late with a whole pair does not need a longer feed of everything else; the proofs
have any values of both. `game_faults` has no control-plane node: whether what is
bound is on a column matters to `played_game` and `drop_live`, which have one, and
`GameLoopProofs` has any nodes.
`MaxPods` also ends the game, hence `CHECK_DEADLOCK FALSE` in those runs; in
`erase_scan` the scan returns, and in the others the environment always has a step.

*What the properties leave open.* `GarbagePaidFor` is `<=`: a fault in `sendOjama`
loses garbage for good. `LandsAsChosen` and `RefusesWhileCalm` are of one thread
that drops; the second says nothing after the first garbage Pod, extra pair or
failed request ([below](#the-scheduler-one-dropper)), though the run goes on. A drop that is answered with an error, or dies
with the scheduler, promises nothing of the Pods it had still to bind, and takes back
what an earlier drop had promised of them: the pair that `drop_again` turns round is
such a case, so it counts against `PlaceIsFinal` and not against `LandsAsChosen`. `LoopPlaceIsFinal` ends at the first fault:
after a lost answer to a binding, or when an inflight entry expires although the
watch is only late, even the loop stamps a Pod that is on the field again.
`LoopStaysOnColumns` is of `autoDrop` and one failed request: garbage, and the drop
of a client, read the Kbkb once and may go to any node then. `OneGame` lets a
finished game erase, as the code does. `PairIsPlayed` is checked with one column,
where `autoDrop` only gives up when nothing fits, so its strong fairness does
little there.
`GoesOnUnlessStuck` names the one way in which a game halts without a fault (a
pair that does not fit), and lets a fault strand one Pod of a pair. The bounds give
it one round, from one pair to the next. `DownLocks`
assumes that the player stops steering: a turn on the ground floats the pair up.
`DrawnFits` excepts a pair that a column above `maxHeight` has lifted out of the
grid. `NoPokeIsLost` leaves out a queued Pod that was dropped without success.

## Where the code and its words part

Each is one run that TLC ends with a counterexample.

| Run | What is said | What happens |
|---|---|---|
| `total_is_exact` | `kbkb_types.go:107` "TotalErased is the total number of erased Pods." | The erase controller reads a Pod cache older than its own deletes: the same two Pods are erased twice, total 4, chain 2. |
| `drop_again` | `scheduler.go:93` inflight is "bound but not yet observed as scheduled"; `pod.go:19-21` Pods "stack in drop order, so a vertically rotated pair lands the way the player chose" | `pending()` lists the cache and then locks the inflight set. If the informer and the loop's prune come in between, a second drop of a pair that has landed is accepted, stamps it again, and turns it round in its column. |
| `stuck_game` | `README.md:48-49` "New pairs spawn automatically once every Pod on the field is Ready. The game ends when a column reaches the height limit" | One request of a pair fails, of the spawn controller or of the scheduler. One Pod waits: nobody spawns while it does, and nobody plays a single Pod. |
| `phantom_delete` | `README.md:9-10` "each `Running → Terminating → deleted` transition as it happens" | The queue leaves out the Pods in flight and the field has what the cache shows, so a Pod in flight whose binding has not reached the cache is in neither list of a frame, even when both reads come after the binding (nor is one whose binding comes between them); the browser logs a Pod as deleted that has just landed. |

Departures that have no run of their own:

- The first has a relative in the spawn controller, which does not see its own
  writes either: it may spawn a second pair.
- `ClearedIsCounted` and `OverUntilCleanedUp` in `GameLoop` are violated too.
  `kbkb_types.go:111` says "AllClears is the number of times the field was
  completely emptied"; the spawn controller does not wait for the phase to leave
  `Erasing`, and with its pair in the queue `settle` finds the field not empty.
  `kbkb_controller.go:73` "resets a finished game once the field has been cleaned
  up" and a test says "once over, the game stays frozen"; removing one Pod lets two
  of a colour meet, and `erase` does not look for `GameOver`. To see them, run
  `MCGameLoop` with `MCTotalIsExact.cfg`, `Colors = {red, green}`, and
  `PROPERTIES` with the one or the other instead of its INVARIANTS line.
- `kbkb_types.go:74` "The scheduler still refuses to drop onto full columns": it
  refuses by the heights in its cache. A second pair that waits with the first is
  dropped on a field that does not show the first; two drops of one pair check the
  same field and then bind in turn; in one tick a pair is played on heights that do
  not count the garbage just bound. To see it, give `MCDropOrder.cfg` the line
  `PROPERTIES RefusesFullColumns` instead of its own.
- In the browser: a pair lifted by a column above `maxHeight` is outside the grid
  and stays there; after an answer that comes before its frame the pair is
  operable and not drawn; `hardDrop` that does not lock moves the pair without a
  render.
- In the watch view, a redraw that overlaps another one erases `lastLines` of the
  wrong frame, so rows that nobody erases may stay above the last frame.
- The metrics are counted before the status is updated, so a conflict counts the
  same Pods again.

## Fairness

`GameLoop!FairSpec`: weak fairness of each controller as a whole, of the two
informers and of the kubelet. controller-runtime runs a queued request, requeues
a failed one, and serves both controllers; a watch delivers; a kubelet acts. No
fairness for players, opponents or faults: nobody has to drop, clean up or fail.

`PlayedGame!FairPlayedSpec` adds a player: weak fairness of `PlayPair` with no failed
read, and of the requests of a plan. It is what `PairIsPlayed` shows of `Scheduler`.

`Scheduler!FairSpec`: weak fairness of the loop (a ticker of two seconds wakes
it), of each thread that has something to bind, of the informer and the kubelet.
Strong fairness of `AutoPlays` with no failed read: `autoDrop` draws random columns and gives up after
ten draws that hit a column this pair has filled, so in each tick it may give up;
strong fairness is that its luck is not bad for ever. Expiry of an inflight
entry is not fair: nothing relies on it.

`EventStream!FairSpec`: weak fairness of the informer and its handler, of the
resync, of each step of `handleEvents`, and of the browser, which connects again
(`EventSource` does) and receives.

`PairUI!FairSpec`: the player keeps pressing Down. `WatchView!FairSpec`: each
goroutine runs and each informer resyncs. client-go resyncs the objects an informer
has; that of the Pods is of all namespaces, so it has some.

## Proofs

`tlapm` checks them for every value of the constants that meets the ASSUMEs of
the modules: any number of Pods, nodes, colours, events and faults.

- **FieldProofs**: lemmas about groups. `Linked` is symmetric; a group is the
  least closed set around its Pod; its members have its colour and the same
  group; if something is erasable, at least `threshold` Pods are.
- **EraseScanProofs**: `TypeCorrect`, `SearchesAreDisjoint`, `ErasableIsCorrect`.
  The invariant `Inv` has two parts. `SearchInv`: what the search has collected is
  part of the group it started in, and what is collected and not pending has all
  its neighbours collected; so with an empty stack it is the group. `ScanInv`: the
  visited Pods outside the search are closed, and the list holds those of them
  that are erasable. `FieldsAssumption` (finite fields) is needed for
  cardinalities.
- **GameLoopProofs**: `TypeCorrect`, `Invariant`, `ScoreCovers`, `GarbageIsPaid`,
  `ScoresAreConsistent`, `StatusIsOneGame`. The properties are not inductive: an
  accepted update could write anything, were it not for where the copy comes from.
  `IInv` adds that. `CopiesInv`: a copy with the current version *is* the current
  Kbkb, for the cache and every event on its way. `EraseInv`, `SpawnInv`: so a
  status about to be accepted is the one `erase`, `settle` or the spawn controller
  computes from the current one. `ScoreInv`: the Pods still to be deleted (`Owed`)
  and the garbage still to be sent are in the score already, since the status is
  written first; and a chain in progress has one group more than the all-clears
  account for. The lemma `InvStep` has one step per action. `StatusIsOneGame` maps
  each accepted update to an action of `Score` and the rest to stutters.
- **PlayedGameProofs**: `PlayedTypeCorrect` from `PlanInv` (a plan is never longer
  than a pair). The types of the game loop come over by the lemma
  `PlaysByTheRules`: `GameLoop` lets its players bind any Pod to any node, so each
  step of the played game is one of `GameLoop` or a stutter.
- **SchedulerProofs**: `TypeCorrect`, with any clients and faults; for the loop on
  its own `LoopLandsOnTop` and `LoopKeepsPlaces`; for one dropper
  `OneDropperLandsAsChosen`, `OneDropperLandsOnTop` and
  `OneDropperRefusesWhileCalm` ([below](#the-scheduler-one-dropper)); with any
  clients, garbage and faults `OneFaultStaysOnColumns`. The two about
  the loop assume `Players = {}`: with a client `PlaceIsFinal` does not hold
  (`drop_again`), nor does `LandsOnTop` if there is garbage too. For
  `LoopLandsOnTop`, `LInv` is the types, `OrderInv` (what is bound is stamped, ranks
  are distinct, names are given in order) and `TopInv`: between stamp and binding
  the loop's Pod has the newest order. For `LoopKeepsPlaces`, `PInv`: `FeedInv` (the
  watch delivers in order, and what is bound stays so while it lives), `CacheInv`
  (the cache is a past state), `LandInv` (what is bound and cached as waiting is in
  flight) and `TodoInv` (the Pods of a drop are distinct and not bound), all of it
  until a request has failed. A stamp goes to a Pod of `pending()`, which is not in
  flight, so it is not bound. For `OneFaultStaysOnColumns`, `ReadInv`: placements
  that are off the columns have cost a failed read by the time `autoDrop` calls
  `Drop`, and a second one by the time the first of them is stamped.
- **EventStreamProofs**: `TypeCorrect`, `FramesShowPodsOnce`, `PokesSuffice`.
  `OrderInv`: a Pod only moves on, and the cache is never ahead of the store.
  `OnceInv`: what the draft has on a column is no longer queued in the cache it
  lists afterwards. `FreshInv`: with no poke in the channel and none to come from the
  informer, what has been read of a frame is still what the cache says, and so is the
  last frame sent.
- **PairUIProofs**: `TypeCorrect`, `PairDrawnFits`, `SentDropAccepted`,
  `PairSentAsDrawn`, from `WorldInv` and `WireInv` (frames hold distinct queued
  Pods), `BrowserInv` with `PairOK` (an operable pair stands on free cells of the
  field shown), `DrawnInv` (what is drawn is the pair) and `RequestInv` (the placements of a
  request fit the frame it was made from). The step that carries it: a column
  of at most `MaxHeight` leaves room for a pair in the two rows of sky.
- **WatchViewProofs**: `TypeCorrect`, `LastFrameIsWhole`. `LastInv`: a frame is
  only ever taken off the bottom by a goroutine that then writes its own there, and
  the terminal has room for a frame.

Only model-checked: the termination of the scan, and liveness (fairness and
ENABLED are beyond the prover). Every invariant and every safety property that a
passing run checks is stated by a theorem.

### The scheduler: one dropper

The code has one player in mind: the loop in auto mode, or one browser in manual
mode while the loop rains garbage. `OneDropper` says that, and three theorems say
what the scheduler then keeps. Each condition is needed: without it TLC finds a
counterexample on one or two columns.

| Theorem | Assumes | Without it |
|---|---|---|
| `OneDropperLandsAsChosen` | one dropper | two clients interleave the stamps of two drops that share a Pod (seen when more than a pair waits) |
| `OneDropperLandsOnTop` | one dropper | the other thread stamps and binds between the stamp and the binding |
| | no garbage | so does the rain, and the client's Pod lands beneath the garbage |
| `OneDropperRefusesWhileCalm` | one dropper | two clients check the same field, then bind in turn; so do a client and the loop in auto mode |
| | a client's pair is of two Pods | the web UI sends two placements whatever `PairSize` is; the third Pod is dropped on a field that does not show them |

The last theorem is of every run of the scheduler with one dropper, with garbage,
faults and a spawn controller that begins pairs at any time. What these do to the
limit is in the property: it holds for as long as none has happened (`calm`).

| What ends `calm` | What then happens |
|---|---|
| a pair is begun while a Pod of another waits | both pairs wait at once, and the second is dropped on a field that does not show the first |
| garbage is created | a pair is played on heights that do not count what the rain has just bound |
| a request fails | a binding whose answer is lost is on the column and not in flight |

*As chosen, and on top.* `DInv` says how far a drop has come, whatever has failed.
`OrderInv` is as above; `BindInv`: a Pod about to be bound is stamped;
`DistinctInv`: a drop names a Pod once; `FirstInv`: the Pod the dropper has stamped
has the newest order of all that is not garbage; `ChosenInv`: of two Pods of a drop
the lower one has its turn first, and when both are bound it was stamped first. It
takes `KindInv` to make this inductive, since the rain is a thread of its own that
stamps too: what the cache, the events on their way, a client's list and the
placements hold of a Pod (garbage or not) is what it is, so the rain never touches
a pair nor the dropper garbage.

*Full columns.* `RInv` is about what an old cache can hide while it is calm
(`CalmInv`: until then no request has failed and there is no garbage). `ViewInv`: whoever has
heard of a Pod of a pair has heard that each Pod of an older pair was bound, and to
which node, or is gone (`OlderInv`; `HeardInv`, `AgeInv`, `FirstHeard`, `NodeInv` and
`GoneInv` say it of the events on their way). So a cache that lists the new pair
shows all that is on the field, and the heights counted in it are at least the true
ones. `ListedInv`, `CheckInv`, `LenInv`, `FullInv`, `WholeInv` and `HalfInv` say that a
drop is of the whole newest pair and that no other Pod waits, so that a column grows
by that drop only. `RoomInv` is the conclusion: on each column, what is there and
what the drop has still to put there fit. `WholeInv` and `RoomInv` are about a drop
whose next Pod still waits: that of a list older than the lock may be of Pods
that have landed (`drop_again`); it stamps one of them again, and the API server
refuses to bind it.

## Not modelled

- Metrics and events: nothing in the program reads them.
- Columns that appear or vanish under the pair; nodes that come, go or change
  labels otherwise (but for the node of `WatchView`); a change of the spec during a
  game; two Kbkbs in one namespace (the scheduler takes the first, both controllers
  act for each).
- Two games joined: all they share is the Pods one creates in the namespace of the
  other, and an opponent who sends at any time stands for the other game.
- The wall clock: drop orders are ranks in `Scheduler`, so a clock that steps back
  is left out, and so is the collision of nanoseconds between two drops.
- Names: creation order and name order of Pods agree.
- Broken reads of informer caches: lists from memory do not fail.
- `runOnce`, which lists and prints once; rendering, flags, character sets, the
  hash colours of `--demo`.
- The recorder, manifests and generated code.

## Plan

The project keeps to a dozen runs, so that all of them are run on every change; a
new component takes the place of a run whose question another one answers as well.
What is left, in order:

1. `PairUI` with columns that appear and vanish: the pair keeps a column number
   that may no longer exist.
2. `Versus`: two games joined by garbage; what one sends, the other receives.
3. `Metered`: the counters of `internal/metrics` beside the status they shadow.
4. Proofs: with garbage, how far beyond its limit a column can grow; with several
   droppers, what of the three promises remains.
