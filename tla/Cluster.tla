------------------------------ MODULE Cluster ------------------------------
(***************************************************************************)
(* What the two controllers of the manager share: the API server with its  *)
(* Pods and the status of the one Kbkb, the informer caches they read it   *)
(* through, their work queue, and the rest of the cluster acting on the    *)
(* same Pods (scheduler, kubelet, the opponent, the player cleaning up).   *)
(*                                                                         *)
(* A write appends an event to the watch feed of its kind; an informer     *)
(* applies the events of a feed in order, at any later time, and puts both *)
(* controllers on the work queue.  The feeds of Pods and Kbkbs are         *)
(* independent of each other.                                              *)
(*                                                                         *)
(* Names are the numbers 1 .. MaxPods in creation order and are not used   *)
(* again, so name and creation time of a Pod agree.                        *)
(***************************************************************************)
EXTENDS Field, Sequences

CONSTANTS
  Colors,               \* the palette of the webhook
  Nodes,                \* the nodes, [created, labels] each
  NodeSelector, ExcludeControlPlane,   \* of the KbkbSpec
  Kokeshi,              \* of the KbkbSpec, after its default
  MaxPods,              \* bound: Pods ever created in the namespace
  MaxLag,               \* bound: events of a feed not yet in the cache
  MaxFaults             \* bound: failed requests, webhook calls, and crashes

ASSUME ClusterAssumption ==
  /\ Kokeshi \in Nat /\ Kokeshi >= 2
  /\ MaxPods \in Nat /\ MaxLag \in Nat /\ MaxFaults \in Nat
  /\ ColorWhite \notin Colors

VARIABLES
  pods, podFeed, podCache,
  kbkb, kbkbFeed, kbkbCache,
  queue,                \* the controllers with a request waiting
  created,              \* how many names are taken
  stamp,                \* the last drop order stamped
  faults                \* how many faults have happened

clusterVars == << pods, podFeed, podCache, kbkb, kbkbFeed, kbkbCache,
                  queue, created, stamp, faults >>

Names == 1 .. MaxPods

Columns == SelectNodes(Nodes, NodeSelector, ExcludeControlPlane)

Controllers == {"erase", "spawn"}

\* PhaseIdle, PhaseErasing, PhaseGameOver, and "" of a Kbkb just created.
Phases == {"", "Idle", "Erasing", "GameOver"}

Gone == [node |-> NoNode, order |-> NoStamp, created |-> 0,
         color |-> ColorWhite, phase |-> "Gone", ready |-> FALSE,
         deleting |-> FALSE]

Pod == [node : {NoNode} \cup DOMAIN Nodes, order : Nat \cup {NoStamp},
        created : Nat, color : Colors \cup {ColorWhite},
        phase : {"Pending", "Running", "Gone"}, ready : BOOLEAN,
        deleting : BOOLEAN]

Kbkb == [phase : Phases, chain : Nat, maxChain : Nat, totalErased : Nat,
         allClears : Nat, rv : Nat]

ClusterTypeOK ==
  /\ pods \in [Names -> Pod] /\ podCache \in [Names -> Pod]
  /\ podFeed \in Seq([pod : Names, now : Pod])
  /\ kbkb \in Kbkb /\ kbkbCache \in Kbkb /\ kbkbFeed \in Seq(Kbkb)
  /\ queue \subseteq Controllers
  /\ created \in 0 .. MaxPods /\ stamp \in Nat
  /\ faults \in 0 .. MaxFaults

ClusterInit ==
  /\ pods = [p \in Names |-> Gone]
  /\ kbkb = [phase |-> "", chain |-> 0, maxChain |-> 0, totalErased |-> 0,
             allClears |-> 0, rv |-> 0]
  /\ podFeed = << >> /\ podCache = pods
  /\ kbkbFeed = << >> /\ kbkbCache = kbkb
  /\ queue = Controllers
  /\ created = 0 /\ stamp = 0
  /\ faults = 0

-----------------------------------------------------------------------------
(***************************************************************************)
(* buildField, over what a view (the store or the cache) holds of the Pods *)
(* of the namespace.                                                       *)
(***************************************************************************)
Live(view) == { p \in Names : view[p].phase # "Gone" }

FieldOf(view) == New(view, Nodes, Columns)

Unscheduled(view) == { p \in Live(view) : view[p].node = NoNode }

StableField(view) == Stable(view, FieldOf(view))

ErasableOf(view, kokeshi) ==
  LET at == FieldOf(view) IN Erasable(at, ColorsOf(view, at), kokeshi)

Empty(view) == DOMAIN FieldOf(view) = {} /\ Unscheduled(view) = {}

-----------------------------------------------------------------------------
(***************************************************************************)
(* Requests to the API server.                                             *)
(***************************************************************************)
Write(p, pod) ==
  /\ Len(podFeed) < MaxLag
  /\ pods' = [pods EXCEPT ![p] = pod]
  /\ podFeed' = Append(podFeed, [pod |-> p, now |-> pod])

NoWrite == UNCHANGED << pods, podFeed >>

\* Deleting a Pod that no kubelet runs removes it at once; otherwise it is
\* marked and the kubelet removes it.  Deleting a deleted Pod is no change.
Delete(p) ==
  IF p \notin Live(pods) \/ pods[p].deleting
  THEN NoWrite
  ELSE IF pods[p].node = NoNode
       THEN Write(p, Gone)
       ELSE Write(p, [pods[p] EXCEPT !.deleting = TRUE])

\* newKbkbPod and Create: the Pod waits for the kbkb-scheduler.  On its way in
\* the webhook gives a Pod that has no colour one of the palette; an ojama Pod
\* has ColorWhite already.
Create(color) ==
  /\ created < MaxPods
  /\ created' = created + 1
  /\ Write(created + 1,
           [node |-> NoNode, order |-> NoStamp, created |-> created + 1,
            color |-> color, phase |-> "Pending", ready |-> FALSE,
            deleting |-> FALSE])

\* Status().Update succeeds on the version that was read.
Fresh(copy) == copy.rv = kbkb.rv

UpdateStatus(copy) ==
  /\ Len(kbkbFeed) < MaxLag
  /\ Fresh(copy)
  /\ kbkb' = [copy EXCEPT !.rv = copy.rv + 1]
  /\ kbkbFeed' = Append(kbkbFeed, kbkb')

NoUpdate == UNCHANGED << kbkb, kbkbFeed >>

\* A request that fails, or a crash.
Fault == faults < MaxFaults /\ faults' = faults + 1

-----------------------------------------------------------------------------
(***************************************************************************)
(* Informers.  SetupWithManager: every Kbkb event, and through podToKbkbs  *)
(* every Pod event, puts the Kbkb on the queue of both controllers.        *)
(***************************************************************************)
SyncPods ==
  /\ podFeed # << >>
  /\ podCache' = [podCache EXCEPT ![Head(podFeed).pod] = Head(podFeed).now]
  /\ podFeed' = Tail(podFeed)
  /\ queue' = Controllers
  /\ UNCHANGED << pods, kbkb, kbkbFeed, kbkbCache, created, stamp,
                  faults >>

\* Mutant of SyncKbkb: the erase controller does not watch the Kbkb.
SyncKbkbUnwatched ==
  /\ kbkbFeed # << >>
  /\ kbkbCache' = Head(kbkbFeed)
  /\ kbkbFeed' = Tail(kbkbFeed)
  /\ queue' = queue \cup {"spawn"}
  /\ UNCHANGED << pods, podFeed, podCache, kbkb, created, stamp, faults >>

SyncKbkb ==
  /\ kbkbFeed # << >>
  /\ kbkbCache' = Head(kbkbFeed)
  /\ kbkbFeed' = Tail(kbkbFeed)
  /\ queue' = Controllers
  /\ UNCHANGED << pods, podFeed, podCache, kbkb, created, stamp, faults >>

\* A restarted manager lists everything before its controllers start.
Relist ==
  /\ podCache' = pods /\ podFeed' = << >>
  /\ kbkbCache' = kbkb /\ kbkbFeed' = << >>
  /\ queue' = Controllers

-----------------------------------------------------------------------------
(***************************************************************************)
(* The rest of the cluster.                                                *)
(***************************************************************************)
othersUnchanged == << podCache, kbkb, kbkbFeed, kbkbCache, queue, faults >>

\* The scheduler stamps a Pod with a drop order above all the others and binds
\* it, to any node (which it may, and how high, is modelled with the scheduler).
Bind(p, n) ==
  /\ p \in Unscheduled(pods)
  /\ stamp' = stamp + 1
  /\ Write(p, [pods[p] EXCEPT !.node = n, !.order = stamp'])
  /\ UNCHANGED << othersUnchanged, created >>

\* The kubelet starts a bound Pod, and removes a deleted one.
Run(p) ==
  /\ pods[p].phase = "Pending" /\ pods[p].node # NoNode /\ ~pods[p].deleting
  /\ Write(p, [pods[p] EXCEPT !.phase = "Running", !.ready = TRUE])
  /\ UNCHANGED << othersUnchanged, created, stamp >>

Remove(p) ==
  /\ pods[p].deleting
  /\ Write(p, Gone)
  /\ UNCHANGED << othersUnchanged, created, stamp >>

\* A garbage Pod created by the opponent's erase controller.
OjamaArrives ==
  /\ Create(ColorWhite)
  /\ UNCHANGED << othersUnchanged, stamp >>

\* kubectl delete pods: the player cleans up a finished game, one Pod at a time.
CleanUp(p) ==
  /\ kbkb.phase = "GameOver"
  /\ p \in Live(pods) /\ ~pods[p].deleting
  /\ Delete(p)
  /\ UNCHANGED << othersUnchanged, created, stamp >>
=============================================================================
