----------------------------- MODULE GameLoop ------------------------------
(***************************************************************************)
(* The game loop of one namespace: the erase and the spawn controller of   *)
(* the manager, writing the same status and reading the same caches, with  *)
(* the rest of the cluster.                                                *)
(***************************************************************************)
EXTENDS EraseController, SpawnController

CONSTANT Opponent   \* whether an opponent sends garbage to this namespace

ASSUME OpponentAssumption == Opponent \in BOOLEAN

vars == << clusterVars, eraseVars, spawnVars >>

TypeOK == ClusterTypeOK /\ EraseTypeOK /\ SpawnTypeOK

Init == ClusterInit /\ EraseInit /\ SpawnInit

\* The manager is killed and started again.
Crash ==
  /\ Fault
  /\ EraseCrash /\ SpawnCrash /\ Relist
  /\ UNCHANGED << pods, kbkb, created, stamp >>

Informers == SyncPods \/ SyncKbkb

Kubelet == \E p \in Names : Run(p) \/ Remove(p)

\* A scheduler that could not read the Kbkb plays on all nodes.
Players == \/ \E p \in Names : (\E n \in DOMAIN Nodes : Bind(p, n)) \/ CleanUp(p)
           \/ Opponent /\ OjamaArrives

Next ==
  \/ EraseNext /\ UNCHANGED spawnVars
  \/ SpawnNext /\ UNCHANGED eraseVars
  \/ (Informers \/ Kubelet \/ Players) /\ UNCHANGED << eraseVars, spawnVars >>
  \/ Crash

Spec == Init /\ [][Next]_vars

\* Controllers, informers and kubelets keep running.  Nobody has to drop a
\* Pod, clean up or send garbage, and nothing has to fail.
Fairness ==
  /\ WF_vars(EraseNext /\ UNCHANGED spawnVars)
  /\ WF_vars(SpawnNext /\ UNCHANGED eraseVars)
  /\ WF_vars(SyncPods /\ UNCHANGED << eraseVars, spawnVars >>)
  /\ WF_vars(SyncKbkb /\ UNCHANGED << eraseVars, spawnVars >>)
  /\ WF_vars(Kubelet /\ UNCHANGED << eraseVars, spawnVars >>)

FairSpec == Spec /\ Fairness

-----------------------------------------------------------------------------
(***************************************************************************)
(* Safety.                                                                 *)
(***************************************************************************)
\* No erased Pod is missing from TotalErased: not when the two controllers
\* write the status from copies of different ages, nor when a request fails
\* or the manager dies between the update and the deletes.
ScoreCoversErasures == Cardinality(erased) <= kbkb.totalErased

\* The opponent never gets more garbage than the erased Pods pay for.
GarbagePaidFor == GarbageRate * garbage <= kbkb.totalErased

\* Every link of the longest chain erased a group, every all-clear ended a
\* chain, and the chain in progress is not longer than the longest one.
ScoresConsistent ==
  /\ kbkb.chain <= kbkb.maxChain
  /\ Kokeshi * kbkb.maxChain <= kbkb.totalErased
  /\ Kokeshi * kbkb.allClears <= kbkb.totalErased
  /\ kbkb.phase = "Erasing" => kbkb.chain >= 1

\* What is written to the status is one game (see Score).
ScoreBoard == INSTANCE Score WITH
  phase <- kbkb.phase, chain <- kbkb.chain, maxChain <- kbkb.maxChain,
  totalErased <- kbkb.totalErased, allClears <- kbkb.allClears

OneGame == ScoreBoard!Spec

-----------------------------------------------------------------------------
(***************************************************************************)
(* The inductive invariant behind the safety properties.                   *)
(***************************************************************************)
\* A copy of the Kbkb that has the current version is the current Kbkb.
Copy(k) == k.rv <= kbkb.rv /\ (k.rv = kbkb.rv => k = kbkb)

CopiesInv ==
  /\ Copy(kbkbCache)
  /\ \A i \in DOMAIN kbkbFeed : Copy(kbkbFeed[i])

\* A status about to be written, if its version is still the current one, is
\* computed from the current status.
EraseInv ==
  /\ ePc \in {"idle", "ojama"} => eList = {}
  /\ ePc \in {"idle", "update"} => eOjama = 0
  /\ ePc = "ojama" => eOjama > 0
  /\ ePc = "update" =>
       /\ eKbkb.rv <= kbkb.rv
       /\ eList # {} => Cardinality(eList) >= Kokeshi
       /\ Fresh(eKbkb) =>
            \/ eList # {} /\ eKbkb = Erasing(kbkb, Cardinality(eList))
            \/ /\ eList = {}
               /\ \E empty \in BOOLEAN : /\ ~NothingToSettle(kbkb, empty)
                                         /\ eKbkb = Settled(kbkb, empty)

SpawnInv ==
  /\ sPc = "create" <=> sLeft > 0
  /\ sPc = "update" =>
       /\ sKbkb.rv <= kbkb.rv
       /\ Fresh(sKbkb) => /\ kbkb.phase # "GameOver"
                          /\ sKbkb = [kbkb EXCEPT !.phase = "GameOver"]

\* The Pods about to be deleted are in the score already, and so is what the
\* garbage about to be sent costs.
Owed == IF ePc = "delete" THEN erased \cup eList ELSE erased

ScoreInv ==
  /\ Cardinality(Owed) <= kbkb.totalErased
  /\ GarbageRate * (garbage + eOjama) <= kbkb.totalErased
  /\ ScoresConsistent
  /\ kbkb.phase = "Erasing" => Kokeshi * (kbkb.allClears + 1) <= kbkb.totalErased

IInv == TypeOK /\ CopiesInv /\ EraseInv /\ SpawnInv /\ ScoreInv

-----------------------------------------------------------------------------
(***************************************************************************)
(* Liveness.                                                               *)
(***************************************************************************)
\* No Pod stays erasable on a stable field.
ErasableIsErased ==
  \A p \in Names :
    []<>~(StableField(pods) /\ p \in ErasableOf(pods, Kokeshi))

\* No chain stays open.
ChainEnds == []<>(kbkb.phase # "Erasing")

\* A settled field gets its next pair, or is declared over, for as long as
\* the model has names left.
PairArrives ==
  []<>(SpawnDecision(kbkb, pods) = "wait" \/ created + Pair > MaxPods)

-----------------------------------------------------------------------------
(***************************************************************************)
(* What the repository says of the game loop and the code does not keep:   *)
(* the first is the property of the run total_is_exact, the README says    *)
(* how to see the other two violated.                                      *)
(***************************************************************************)
\* kbkb_types.go: "TotalErased is the total number of erased Pods."
TotalIsExact == ePc = "idle" => kbkb.totalErased = Cardinality(erased)

\* kbkb_types.go: "AllClears is the number of times the field was completely
\* emptied": a chain that ends on a field with no Pod counts as one, at least
\* when the reconcile that ends it has seen the field empty.
EndsChainOnEmptyField ==
  /\ ePc = "idle" /\ ePc' = "update"
  /\ kbkb.phase = "Erasing" /\ kbkbCache = kbkb
  /\ DOMAIN FieldOf(podCache) = {}

ClearedIsCounted ==
  [][EndsChainOnEmptyField => eKbkb'.allClears = kbkb.allClears + 1]_vars

\* kbkb_controller.go: a finished game is reset "once the field has been
\* cleaned up"; its test: "once over, the game stays frozen".
OverUntilCleanedUp ==
  [][kbkb.phase = "GameOver" /\ kbkb'.phase # "GameOver"
       => kbkb'.phase = "Idle" /\ kbkb'.totalErased = 0]_vars
=============================================================================
