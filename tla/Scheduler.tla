----------------------------- MODULE Scheduler -----------------------------
(***************************************************************************)
(* The kbkb-scheduler (internal/scheduler/scheduler.go): the loop that     *)
(* rains garbage Pods and, in auto mode, plays; the HTTP handlers that     *)
(* drop what a player asks for, each in a goroutine of its own; and the    *)
(* set of Pods in flight that they share.  All of them read one informer   *)
(* cache, check, and then stamp and bind Pod by Pod, so that everything    *)
(* they checked may be old when they bind.                                 *)
(*                                                                         *)
(* The loop reads the queue and the field in one step: only it prunes the  *)
(* inflight set, so a cache that advances in between has only more Pods in *)
(* the field.  A drop of a client lists the cache first and reads inflight *)
(* and the field later, and the loop may prune in between.  The loop also  *)
(* runs on a ticker, so it may run at any time and its wake-up channel is  *)
(* left out.  A request that is served before the caches are filled is     *)
(* left out too (EventStream has the frames that are).                     *)
(*                                                                         *)
(* Names are the numbers 1 .. MaxPods in creation order.  Drop orders are  *)
(* ranks: a stamp is later than every stamp before it (a request takes     *)
(* longer than the nanoseconds that number the Pods of one drop), and only *)
(* their order is read.  The scheduler itself does not read them, so the   *)
(* cache does not hold them and a stamp has no event.                      *)
(***************************************************************************)
EXTENDS Field, SequencesExt

CONSTANTS
  Nodes, NodeSelector, ExcludeControlPlane,   \* as in Cluster
  PairSize,        \* Options.PairSize after its default
  SpawnMaxHeight,  \* SpawnSpec.MaxHeight of the Kbkb
  FlagMaxHeight,   \* Options.MaxHeight, when the Kbkb cannot be read
  Players,         \* HTTP clients that drop pairs
  Modes,           \* the modes that are ever set
  Opponent,        \* whether garbage Pods arrive
  MaxPods, MaxFaults,   \* bounds, as in Cluster
  MaxLag,          \* bound: undelivered events when the cluster writes,
  MaxBindLag       \* and when the scheduler binds

ASSUME SchedulerAssumption ==
  /\ NoNode \notin DOMAIN Nodes
  /\ PairSize \in Nat /\ PairSize >= 1
  /\ SpawnMaxHeight \in Nat /\ SpawnMaxHeight >= 1
  /\ FlagMaxHeight \in Nat /\ FlagMaxHeight >= 1
  /\ Modes \subseteq {"manual", "auto"} /\ Modes # {}
  /\ Opponent \in BOOLEAN
  /\ MaxPods \in Nat /\ MaxFaults \in Nat
  /\ MaxLag \in Nat /\ MaxBindLag \in Nat
  /\ "loop" \notin Players

VARIABLES
  pods, podFeed, podCache,   \* store, undelivered events, cache
  created,                   \* how many names are taken
  inflight,                  \* bound but not yet observed as scheduled
  mode,
  pc,                        \* what each thread does next
  listed,                    \* the list each client's drop took of the cache
  todo,                      \* placements each thread has still to bind
  raining,                   \* whether the loop is in dropOjama
  chosen,                    \* history: <<p, q>>, p asked to land below q
  faults

storeVars == << pods, podFeed >>
vars == << pods, podFeed, podCache, created, inflight, mode, pc, listed, todo,
           raining, chosen, faults >>

Names == 1 .. MaxPods

Threads == Players \cup {"loop"}

Gone == [node |-> NoNode, order |-> NoStamp, created |-> 0, phase |-> "Gone",
         ready |-> FALSE, deleting |-> FALSE, ojama |-> FALSE]

Pod == [node : {NoNode} \cup DOMAIN Nodes, order : Nat \cup {NoStamp},
        created : Nat, phase : {"Pending", "Running", "Gone"},
        ready : BOOLEAN, deleting : BOOLEAN, ojama : BOOLEAN]

Placement == [pod : Names, node : DOMAIN Nodes]

TypeOK ==
  /\ pods \in [Names -> Pod] /\ podCache \in [Names -> Pod]
  /\ podFeed \in Seq([pod : Names, now : Pod])
  /\ created \in 0 .. MaxPods
  /\ inflight \subseteq Names
  /\ mode \in Modes
  /\ pc \in [Threads -> {"idle", "list", "auto", "check", "patch", "bind"}]
  /\ listed \in [Players -> SUBSET Names]
  /\ todo \in [Threads -> Seq(Placement)]
  /\ \A c \in Threads : pc[c] \in {"check", "patch", "bind"} <=> todo[c] # << >>
  /\ raining \in BOOLEAN
  /\ chosen \subseteq Names \X Names
  /\ faults \in 0 .. MaxFaults

Init ==
  /\ pods = [p \in Names |-> Gone] /\ podFeed = << >> /\ podCache = pods
  /\ created = 0
  /\ inflight = {}
  /\ mode \in Modes
  /\ pc = [c \in Threads |-> "idle"]
  /\ listed = [c \in Players |-> {}]
  /\ todo = [c \in Threads |-> << >>]
  /\ raining = FALSE
  /\ chosen = {}
  /\ faults = 0

-----------------------------------------------------------------------------
(***************************************************************************)
(* Reads.  `kb` is whether the Kbkb could be read.                         *)
(***************************************************************************)
ColumnsFor(kb) ==
  IF kb THEN SelectNodes(Nodes, NodeSelector, ExcludeControlPlane) ELSE DOMAIN Nodes

MaxHeightFor(kb) == IF kb THEN SpawnMaxHeight ELSE FlagMaxHeight

BuildField(kb) == New(podCache, Nodes, ColumnsFor(kb))

HeightOn(kb, n) ==
  Height(BuildField(kb), Cardinality({ m \in ColumnsFor(kb) : LeftOf(Nodes, m, n) }))

\* The Pods pending() finds in the cache.
Unbound ==
  { p \in Names : /\ podCache[p].phase # "Gone" /\ podCache[p].node = NoNode
                  /\ ~podCache[p].deleting }

\* Mutant: what is in flight is queued still.
PendingInFlight == Unbound

\* pending(), the two lists as one set.
Pending == Unbound \ inflight

\* Its sort by creation.
Oldest(S) ==
  [i \in 1 .. Cardinality(S) |->
     CHOOSE p \in S : Cardinality({ q \in S : q < p }) = i - 1]

Queue == Oldest({ p \in Pending : ~podCache[p].ojama })

\* Mutant: garbage rains in manual mode only.
OjamaInManual ==
  Oldest({ p \in Pending : podCache[p].ojama /\ mode = "manual" })

Ojama == Oldest({ p \in Pending : podCache[p].ojama })

\* Mutant: each placement is checked against the field before the drop.
AcceptsEach(queue, kb, placements) ==
  /\ placements # << >>
  /\ \A i \in DOMAIN placements :
       LET n == placements[i].node
       IN  /\ placements[i].pod \in queue
           /\ n \in ColumnsFor(kb)
           /\ HeightOn(kb, n) < MaxHeightFor(kb)

\* The checks of Drop: every Pod is queued, every node is a column with room
\* for what this drop has put there before.
Accepts(queue, kb, placements) ==
  /\ placements # << >>
  /\ \A i \in DOMAIN placements :
       LET n == placements[i].node
       IN  /\ placements[i].pod \in queue
           /\ n \in ColumnsFor(kb)
           /\ HeightOn(kb, n) + Cardinality({ j \in 1 .. i : placements[j].node = n })
                <= MaxHeightFor(kb)

\* Any sequence of the first n Pods of a list onto columns.
Onto(list, n, columns) ==
  { [i \in 1 .. n |-> [pod |-> list[i], node |-> x[i]]] : x \in [1 .. n -> columns] }

-----------------------------------------------------------------------------
(***************************************************************************)
(* Requests to the API server.                                             *)
(***************************************************************************)
Unordered(pod) == [pod EXCEPT !.order = NoStamp]

Write(p, pod) ==
  /\ pods' = [pods EXCEPT ![p] = pod]
  /\ podFeed' = Append(podFeed, [pod |-> p, now |-> Unordered(pod)])

Fault == faults < MaxFaults /\ faults' = faults + 1

\* Reading the Kbkb may fail; the scheduler then does without it.
ReadsKbkb(kb) == IF kb THEN UNCHANGED faults ELSE Fault

\* The thread has bound a Pod, or failed to: what it does next.
Done(c) ==
  /\ todo' = [todo EXCEPT ![c] = << >>]
  /\ pc' = [pc EXCEPT ![c] = IF c = "loop" /\ raining THEN "auto" ELSE "idle"]
  /\ raining' = IF c = "loop" THEN FALSE ELSE raining

\* What the threads have still to bind is not promised.
Forget(threads) ==
  LET asked == UNION { { x.pod : x \in ToSet(todo[c]) } : c \in threads }
  IN  chosen' = { pq \in chosen : {pq[1], pq[2]} \cap asked = {} }

\* The request is answered with an error.
Fails(c) == Done(c) /\ Forget({c})

\* Mutant: the last placement is not the end of the drop.
AdvancePastEnd(c) ==
  IF todo[c] = << >>
  THEN Done(c)
  ELSE /\ todo' = [todo EXCEPT ![c] = Tail(@)]
       /\ pc' = [pc EXCEPT ![c] = "patch"]
       /\ UNCHANGED raining

Advance(c) ==
  IF Len(todo[c]) = 1
  THEN Done(c)
  ELSE /\ todo' = [todo EXCEPT ![c] = Tail(@)]
       /\ pc' = [pc EXCEPT ![c] = "patch"]
       /\ UNCHANGED raining

\* Mutant: a stamp in seconds, the same for all the Pods of a drop.
StampSeconds(p) ==
  pods' = [pods EXCEPT ![p].order = Max({ pods[q].order : q \in Names } \cup {0})]

\* Mutant: a Pod that a failed drop has stamped keeps its stamp.
StampOnce(p) ==
  pods' = [pods EXCEPT ![p].order =
             IF @ # NoStamp THEN @
             ELSE 1 + Max({ pods[q].order : q \in Names \ {p} } \cup {0})]

\* The newest drop order.  The ranks above an older stamp of the Pod close up.
Stamp(p) ==
  LET old == pods[p].order
      orders == { pods[q].order : q \in Names \ {p} }
      shift(o) == IF old # NoStamp /\ o > old THEN o - 1 ELSE o
  IN  pods' = [q \in Names |->
                 [pods[q] EXCEPT !.order =
                    IF q = p THEN 1 + Max({ shift(o) : o \in orders } \cup {0})
                    ELSE shift(@)]]

\* bind(), first half: stamp the drop order.
StampPod(c) ==
  /\ pc[c] = "patch"
  /\ LET p == Head(todo[c]).pod
     IN  IF pods[p].phase # "Gone"
         THEN /\ Stamp(p)
              /\ pc' = [pc EXCEPT ![c] = "bind"]
              /\ UNCHANGED << todo, raining, chosen >>
         ELSE Fails(c) /\ UNCHANGED pods
  /\ UNCHANGED << listed, podFeed, podCache, created, inflight, mode, faults >>

\* A request to stamp that fails may have been applied.
StampFault(c) ==
  /\ pc[c] = "patch"
  /\ Fault
  /\ \/ UNCHANGED pods
     \/ pods[Head(todo[c]).pod].phase # "Gone" /\ Stamp(Head(todo[c]).pod)
  /\ Fails(c)
  /\ UNCHANGED << listed, podFeed, podCache, created, inflight, mode >>

MayBind(p) == pods[p].phase # "Gone" /\ pods[p].node = NoNode /\ ~pods[p].deleting

\* bind(), second half.  Between the answer to the request and the entry in
\* `inflight` another thread sees what it saw just before the request.
BindPod(c) ==
  /\ pc[c] = "bind"
  /\ LET p == Head(todo[c]).pod
     IN  IF MayBind(p)
         THEN /\ Len(podFeed) < MaxBindLag
              /\ Write(p, [pods[p] EXCEPT !.node = Head(todo[c]).node])
              /\ inflight' = inflight \cup {p}
              /\ Advance(c)
              /\ UNCHANGED chosen
         ELSE Fails(c) /\ UNCHANGED << storeVars, inflight >>
  /\ UNCHANGED << listed, podCache, created, mode, faults >>

BindFault(c) ==
  /\ pc[c] = "bind"
  /\ Fault
  /\ \/ UNCHANGED storeVars
     \/ LET p == Head(todo[c]).pod
        IN  /\ MayBind(p) /\ Len(podFeed) < MaxBindLag
            /\ Write(p, [pods[p] EXCEPT !.node = Head(todo[c]).node])
  /\ Fails(c)
  /\ UNCHANGED << listed, podCache, created, inflight, mode >>

-----------------------------------------------------------------------------
(***************************************************************************)
(* Drop.                                                                   *)
(***************************************************************************)
\* What the drop asks for replaces what was asked for its Pods before.
Remember(placements) ==
  LET dropped == { placements[i].pod : i \in DOMAIN placements }
  IN  { pq \in chosen : {pq[1], pq[2]} \cap dropped = {} }
      \cup { << placements[ij[1]].pod, placements[ij[2]].pod >> :
               ij \in { ij \in (DOMAIN placements) \X (DOMAIN placements) :
                          /\ ij[1] < ij[2]
                          /\ placements[ij[1]].node = placements[ij[2]].node } }

\* handleDrop: pending() lists the cache, and locks `mu` only then.
PlayerLists(c) ==
  /\ pc[c] = "idle"
  /\ listed' = [listed EXCEPT ![c] = { p \in Unbound : ~podCache[p].ojama }]
  /\ listed'[c] # {}
  /\ pc' = [pc EXCEPT ![c] = "list"]
  /\ UNCHANGED << storeVars, podCache, created, inflight, mode, todo, raining,
                  chosen, faults >>

\* The rest of the checks, on a request that they accept.  The web UI sends
\* pairs of different Pods.
PlayerDrops(c, placements) ==
  /\ pc[c] = "list"
  /\ \E kb \in BOOLEAN :
       Accepts(listed[c] \ inflight, kb, placements) /\ ReadsKbkb(kb)
  /\ pc' = [pc EXCEPT ![c] = "patch"]
  /\ listed' = [listed EXCEPT ![c] = {}]
  /\ todo' = [todo EXCEPT ![c] = placements]
  /\ chosen' = Remember(placements)
  /\ UNCHANGED << storeVars, podCache, created, inflight, mode, raining >>

\* Or on one that they do not: any request may name a Pod that is not queued.
PlayerRefused(c) ==
  /\ pc[c] = "list"
  /\ pc' = [pc EXCEPT ![c] = "idle"]
  /\ listed' = [listed EXCEPT ![c] = {}]
  /\ UNCHANGED << storeVars, podCache, created, inflight, mode, todo, raining,
                  chosen, faults >>

\* Mutant: autoDrop binds what it has chosen without the checks of Drop.
LoopDropsUnchecked ==
  /\ pc["loop"] = "check"
  /\ pc' = [pc EXCEPT !["loop"] = "patch"]
  /\ chosen' = Remember(todo["loop"])
  /\ UNCHANGED << listed, storeVars, podCache, created, inflight, mode, todo,
                  raining, faults >>

\* autoDrop calls Drop, which reads the cache again.
LoopDrops ==
  /\ pc["loop"] = "check"
  /\ \E kb \in BOOLEAN :
       /\ ReadsKbkb(kb)
       /\ IF Accepts(ToSet(Queue), kb, todo["loop"])
          THEN /\ pc' = [pc EXCEPT !["loop"] = "patch"]
               /\ chosen' = Remember(todo["loop"])
               /\ UNCHANGED << todo, raining >>
          ELSE Done("loop") /\ UNCHANGED chosen
  /\ UNCHANGED << listed, storeVars, podCache, created, inflight, mode >>

-----------------------------------------------------------------------------
(***************************************************************************)
(* The loop: tick().                                                       *)
(***************************************************************************)
\* pruneInflight forgets what the cache shows bound or gone.
Observed == { p \in inflight : podCache[p].phase = "Gone" \/ podCache[p].node # NoNode }

\* tick: prune, then dropOjama; each garbage Pod gets a random column, full or
\* not.
Tick ==
  /\ pc["loop"] = "idle"
  /\ inflight' = inflight \ Observed
  /\ IF Ojama = << >>
     THEN /\ pc' = [pc EXCEPT !["loop"] = "auto"]
          /\ UNCHANGED << todo, raining, faults >>
     ELSE \E kb \in BOOLEAN :
            /\ ReadsKbkb(kb)
            /\ IF ColumnsFor(kb) = {}
               THEN /\ pc' = [pc EXCEPT !["loop"] = "auto"]
                    /\ UNCHANGED << todo, raining >>
               ELSE \E placements \in Onto(Ojama, Len(Ojama), ColumnsFor(kb)) :
                      /\ pc' = [pc EXCEPT !["loop"] = "patch"]
                      /\ todo' = [todo EXCEPT !["loop"] = placements]
                      /\ raining' = TRUE
  /\ UNCHANGED << listed, storeVars, podCache, created, mode, chosen >>

\* An entry older than 30 seconds is forgotten too: the watch is behind.
Expire(p) ==
  /\ pc["loop"] = "idle"
  /\ p \in inflight \ Observed
  /\ Fault
  /\ inflight' = inflight \ {p}
  /\ UNCHANGED << listed, storeVars, podCache, created, mode, pc, todo, raining, chosen >>

\* autoDrop may play: auto mode, a pair in the queue, a settled field.
AutoReady(kb) ==
  /\ mode = "auto"
  /\ Len(Queue) >= PairSize
  /\ Stable(podCache, BuildField(kb))

\* The random placements autoDrop may come up with.
AutoPlacements(kb) ==
  { x \in Onto(Queue, PairSize, ColumnsFor(kb)) : Accepts(ToSet(Queue), kb, x) }

\* Mutant: a pair is played when there is more than a pair.
AutoPlaysSpare ==
  /\ pc["loop"] = "auto"
  /\ \E kb \in BOOLEAN :
       /\ ReadsKbkb(kb)
       /\ AutoReady(kb) /\ Len(Queue) > PairSize
       /\ \E placements \in AutoPlacements(kb) :
            todo' = [todo EXCEPT !["loop"] = placements]
  /\ pc' = [pc EXCEPT !["loop"] = "check"]
  /\ UNCHANGED << listed, storeVars, podCache, created, inflight, mode, raining, chosen >>

AutoPlays ==
  /\ pc["loop"] = "auto"
  /\ \E kb \in BOOLEAN :
       /\ ReadsKbkb(kb)
       /\ AutoReady(kb)
       /\ \E placements \in AutoPlacements(kb) :
            todo' = [todo EXCEPT !["loop"] = placements]
  /\ pc' = [pc EXCEPT !["loop"] = "check"]
  /\ UNCHANGED << listed, storeVars, podCache, created, inflight, mode, raining, chosen >>

\* No room, or ten random tries that all hit a column this pair has filled.
AutoGivesUp(kb) ==
  LET open == { n \in ColumnsFor(kb) : HeightOn(kb, n) < MaxHeightFor(kb) }
  IN  open = {} \/ \E n \in open : HeightOn(kb, n) + PairSize - 1 >= MaxHeightFor(kb)

AutoWaits ==
  /\ pc["loop"] = "auto"
  /\ \E kb \in BOOLEAN : ReadsKbkb(kb) /\ (AutoReady(kb) => AutoGivesUp(kb))
  /\ pc' = [pc EXCEPT !["loop"] = "idle"]
  /\ UNCHANGED << listed, storeVars, podCache, created, inflight, mode, todo, raining,
                  chosen >>

SetMode(m) ==
  /\ m # mode
  /\ mode' = m
  /\ UNCHANGED << listed, storeVars, podCache, created, inflight, pc, todo, raining,
                  chosen, faults >>

Loop == Tick \/ AutoPlays \/ AutoWaits \/ LoopDrops

Binder(c) == StampPod(c) \/ BindPod(c)

\* The scheduler is killed and started again; its threads die with it, and no
\* request in progress is answered.
Restart ==
  /\ Fault
  /\ podCache' = [p \in Names |-> Unordered(pods[p])] /\ podFeed' = << >>
  /\ inflight' = {}
  /\ mode' \in Modes
  /\ pc' = [c \in Threads |-> "idle"]
  /\ listed' = [c \in Players |-> {}]
  /\ todo' = [c \in Threads |-> << >>]
  /\ raining' = FALSE
  /\ Forget(Threads)
  /\ UNCHANGED << pods, created >>

-----------------------------------------------------------------------------
(***************************************************************************)
(* The informer and the rest of the cluster.                               *)
(***************************************************************************)
threadVars == << inflight, mode, pc, listed, todo, raining, chosen, faults >>

SyncPods ==
  /\ podFeed # << >>
  /\ podCache' = [podCache EXCEPT ![Head(podFeed).pod] = Head(podFeed).now]
  /\ podFeed' = Tail(podFeed)
  /\ UNCHANGED << pods, created, threadVars >>

QueuedInStore ==
  { p \in Names : pods[p].phase # "Gone" /\ pods[p].node = NoNode /\ ~pods[p].ojama }

\* The spawn controller or the opponent creates a Pod.  The spawn controller waits
\* until it sees no Pod unscheduled, in a cache that may be as old as the game: it
\* may begin the next pair at any time.
Arrive(ojama) ==
  /\ Len(podFeed) < MaxLag
  /\ created < MaxPods
  /\ ojama => Opponent
  /\ created' = created + 1
  /\ Write(created + 1, [node |-> NoNode, order |-> NoStamp, created |-> created + 1,
                         phase |-> "Pending", ready |-> FALSE, deleting |-> FALSE,
                         ojama |-> ojama])
  /\ UNCHANGED << podCache, threadVars >>

Run(p) ==
  /\ Len(podFeed) < MaxLag
  /\ pods[p].phase = "Pending" /\ pods[p].node # NoNode /\ ~pods[p].deleting
  /\ Write(p, [pods[p] EXCEPT !.phase = "Running", !.ready = TRUE])
  /\ UNCHANGED << podCache, created, threadVars >>

\* The erase controller, or the player cleaning up: an unbound Pod is gone at
\* once, the kubelet removes a bound one later.
Delete(p) ==
  /\ Len(podFeed) < MaxLag
  /\ pods[p].phase # "Gone" /\ ~pods[p].deleting
  /\ Write(p, IF pods[p].node = NoNode THEN Gone ELSE [pods[p] EXCEPT !.deleting = TRUE])
  /\ UNCHANGED << podCache, created, threadVars >>

Removed(p) ==
  /\ Len(podFeed) < MaxLag
  /\ pods[p].deleting
  /\ Write(p, Gone)
  /\ UNCHANGED << podCache, created, threadVars >>

-----------------------------------------------------------------------------
\* Requests of the players: pairs, in both orders, onto any columns.
Requests == { x \in UNION { Onto(pq, 2, DOMAIN Nodes) : pq \in Names \X Names } :
                x[1].pod # x[2].pod }

Next ==
  \/ \E c \in Players : \/ PlayerLists(c) \/ PlayerRefused(c)
                        \/ \E x \in Requests : PlayerDrops(c, x)
  \/ \E c \in Threads : StampPod(c) \/ BindPod(c) \/ StampFault(c) \/ BindFault(c)
  \/ Loop
  \/ \E p \in Names : Expire(p)
  \/ \E m \in Modes : SetMode(m)
  \/ Restart
  \/ SyncPods
  \/ \E ojama \in BOOLEAN : Arrive(ojama)
  \/ \E p \in Names : Run(p) \/ Delete(p) \/ Removed(p)

Spec == Init /\ [][Next]_vars

\* The loop runs at least on every tick, an accepted drop goes on, the watch
\* delivers, kubelets start and remove Pods, and autoDrop does not have bad luck
\* for ever.
Fairness ==
  /\ WF_vars(Loop)
  /\ \A c \in Threads : WF_vars(Binder(c))
  /\ WF_vars(SyncPods)
  /\ WF_vars(\E p \in Names : Run(p) \/ Removed(p))
  /\ SF_vars(AutoPlays /\ UNCHANGED faults)

FairSpec == Spec /\ Fairness

-----------------------------------------------------------------------------
(***************************************************************************)
(* Safety.                                                                 *)
(***************************************************************************)
Bound(p) == pods[p].phase # "Gone" /\ pods[p].node # NoNode

\* Two Pods that have landed stay the way they are stacked.
KeepsPlaces ==
  \A p, q \in Names :
    Bound(p) /\ Bound(q) /\ Bound(p)' /\ Bound(q)'
      => (Below(pods, p, q) <=> Below(pods', p, q))

\* Nothing stamps a bound Pod again, however old the cache is ("bound but not yet
\* observed as scheduled").  A drop of a client can slip past the inflight set.
PlaceIsFinal == [][KeepsPlaces]_vars

\* The loop on its own cannot, however late the watch is and whatever is created,
\* bound, started, deleted or switched meanwhile, until a request fails (a
\* binding that is made and reported as failed is not in the set).
LoopPlaceIsFinal == [][faults' = 0 => KeepsPlaces]_vars

\* "Earlier placements land lower" (Drop); "a vertically rotated pair lands the
\* way the player chose" (DropOrderAnnotation).
\* A Pod that a drop has still to bind may be on the field already (see
\* PlaceIsFinal): it counts when that drop is through, and not when it fails.
LandsAsChosen ==
  \A pq \in chosen :
    LET p == pq[1]  q == pq[2]
    IN  (/\ Bound(p) /\ Bound(q) /\ pods[p].node = pods[q].node
         /\ \A c \in Threads : q \notin { x.pod : x \in ToSet(todo[c]) })
          => Below(pods, p, q)

\* A Pod lands on top of its column.
LandsOnTop ==
  [][\A p \in Names :
       ~Bound(p) /\ Bound(p)' =>
         \A q \in Names \ {p} :
           (Bound(q) /\ pods[q].node = pods'[p].node) => Below(pods', q, p)]_vars

\* A Pod of a pair is bound to a column that holds MaxHeight Pods.
Overfills(p) ==
  /\ ~Bound(p) /\ Bound(p)' /\ ~pods[p].ojama
  /\ Cardinality({ q \in Names : pods[q].node = pods'[p].node }) >= SpawnMaxHeight

\* "The scheduler still refuses to drop onto full columns" (SpawnSpec).  It does
\* for the heights it has in its cache (see SchedulerHistory).
RefusesFullColumns == [][\A p \in Names : ~Overfills(p)]_vars

\* The loop binds p, which is not garbage.
LoopBinds(p) ==
  /\ pc["loop"] = "bind" /\ pc'["loop"] # "bind"
  /\ ~raining /\ p = Head(todo["loop"]).pod
  /\ ~Bound(p) /\ Bound(p)'

\* autoDrop and the Drop it calls read the Kbkb one after the other: one failed
\* read does not put a pair on a node that is no column.
LoopStaysOnColumns ==
  [][faults' <= 1 =>
       \A p \in Names : LoopBinds(p) => pods'[p].node \in ColumnsFor(TRUE)]_vars

-----------------------------------------------------------------------------
(***************************************************************************)
(* Liveness.                                                               *)
(***************************************************************************)
\* A garbage Pod does not wait for ever.
OjamaLands ==
  \A p \in Names : []<>~(pods[p].ojama /\ pods[p].node = NoNode)

\* In auto mode a pair that fits somewhere does not wait for ever on a settled
\* field.
PairIsPlayed ==
  []<>~(AutoReady(TRUE) /\ AutoPlacements(TRUE) # {})
=============================================================================
