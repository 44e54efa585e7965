-------------------------- MODULE SpawnController --------------------------
(***************************************************************************)
(* The spawn controller (internal/controller/spawn_controller.go), with    *)
(* the same grain as the erase controller: a reconcile reads the caches    *)
(* and decides, then writes the status or creates the Pods of a pair one   *)
(* by one.                                                                 *)
(***************************************************************************)
EXTENDS Cluster

CONSTANTS
  MaxHeight,        \* SpawnSpec.MaxHeight after its default
  DisableGameOver,  \* SpawnSpec.DisableGameOver
  Pair              \* SpawnSpec.Pair after its default

ASSUME SpawnAssumption ==
  /\ MaxHeight \in Nat /\ MaxHeight >= 1
  /\ DisableGameOver \in BOOLEAN
  /\ Pair \in Nat /\ Pair >= 1

VARIABLES
  sPc,              \* what the reconcile does next; "idle" between two
  sKbkb,            \* its copy of the Kbkb
  sLeft             \* Pods of the pair not created yet

spawnVars == << sPc, sKbkb, sLeft >>

SpawnTypeOK ==
  /\ sPc \in {"idle", "update", "create"}
  /\ sKbkb \in Kbkb
  /\ sLeft \in 0 .. Pair

SpawnInit == sPc = "idle" /\ sKbkb = kbkb /\ sLeft = 0

-----------------------------------------------------------------------------
\* The decision of Reconcile, from the Kbkb and the Pods it reads.
SpawnDecision(k, view) ==
  LET at == FieldOf(view)
  IN  IF \/ k.phase = "GameOver"
         \/ Unscheduled(view) # {}
         \/ ~Stable(view, at)
         \/ Erasable(at, ColorsOf(view, at), Kokeshi) # {}
      THEN "wait"
      ELSE IF ~DisableGameOver /\ ReachesHeight(at, MaxHeight)
           THEN "gameover" ELSE "spawn"

SpawnReconcile ==
  /\ sPc = "idle" /\ "spawn" \in queue
  /\ queue' = queue \ {"spawn"}
  /\ LET decision == SpawnDecision(kbkbCache, podCache)
     IN  \/ decision = "wait" /\ UNCHANGED spawnVars
         \/ /\ decision = "gameover"
            /\ sPc' = "update"
            /\ sKbkb' = [kbkbCache EXCEPT !.phase = "GameOver"]
            /\ UNCHANGED sLeft
         \/ /\ decision = "spawn"
            /\ sPc' = "create"
            /\ sLeft' = Pair
            /\ UNCHANGED sKbkb
  /\ UNCHANGED << pods, podFeed, podCache, kbkb, kbkbFeed, kbkbCache, created,
                  stamp, faults >>

\* Mutant of SpawnFails: the error is dropped.
SpawnFailsSilently ==
  /\ sPc' = "idle" /\ sLeft' = 0
  /\ UNCHANGED << sKbkb, queue >>

SpawnFails ==
  /\ sPc' = "idle" /\ sLeft' = 0
  /\ queue' = queue \cup {"spawn"}
  /\ UNCHANGED sKbkb

SpawnUpdate ==
  /\ sPc = "update"
  /\ UpdateStatus(sKbkb)
  /\ sPc' = "idle"
  /\ UNCHANGED << pods, podFeed, podCache, kbkbCache, queue, created, stamp,
                  faults,
                  sKbkb, sLeft >>

SpawnConflict ==
  /\ sPc = "update"
  /\ ~Fresh(sKbkb)
  /\ SpawnFails
  /\ UNCHANGED << pods, podFeed, podCache, kbkb, kbkbFeed, kbkbCache, created,
                  stamp, faults >>

SpawnUpdateFault ==
  /\ sPc = "update"
  /\ Fault
  /\ NoUpdate \/ UpdateStatus(sKbkb)
  /\ SpawnFails
  /\ UNCHANGED << pods, podFeed, podCache, kbkbCache, created, stamp >>

AfterCreate ==
  /\ sLeft' = sLeft - 1
  /\ sPc' = IF sLeft' = 0 THEN "idle" ELSE "create"
  /\ UNCHANGED << podCache, kbkb, kbkbFeed, kbkbCache, queue, stamp, sKbkb >>

SpawnPod(color) ==
  /\ sPc = "create" /\ sLeft > 0
  /\ Create(color)
  /\ AfterCreate
  /\ UNCHANGED faults

\* The call to the webhook fails (failurePolicy=ignore): the Pod is admitted
\* without a colour, which is white.
SpawnPodUncolored ==
  /\ sPc = "create" /\ sLeft > 0
  /\ Fault
  /\ Create(ColorWhite)
  /\ AfterCreate

SpawnPodFault ==
  /\ sPc = "create"
  /\ Fault
  /\ \/ NoWrite /\ UNCHANGED created
     \/ \E c \in Colors : Create(c)
  /\ SpawnFails
  /\ UNCHANGED << podCache, kbkb, kbkbFeed, kbkbCache, stamp >>

SpawnNext ==
  \/ SpawnReconcile \/ SpawnUpdate \/ SpawnConflict \/ SpawnUpdateFault
  \/ \E c \in Colors : SpawnPod(c)
  \/ SpawnPodUncolored \/ SpawnPodFault

SpawnCrash == sPc' = "idle" /\ sLeft' = 0 /\ UNCHANGED sKbkb
=============================================================================
