-------------------------- MODULE EraseController --------------------------
(***************************************************************************)
(* The erase controller (internal/controller/kbkb_controller.go).  One     *)
(* reconcile reads the caches and decides, writes the status, deletes the  *)
(* Pods one by one and creates the garbage Pods one by one; each of these  *)
(* requests is a step of its own.  The work queue runs one reconcile of a  *)
(* Kbkb at a time.                                                         *)
(*                                                                         *)
(* The reads of Kbkb, Pods and Nodes are one step: a cache that advances   *)
(* between them is one that advanced just before or just after.  Reads are *)
(* from memory and do not fail.                                            *)
(***************************************************************************)
EXTENDS Cluster

CONSTANTS
  Versus,        \* whether garbage has an opponent namespace to go to
  GarbageRate,   \* VersusSpec.GarbageRate after its default
  MaxStaleRV     \* bound: up to this version reconciles may read stale caches

ASSUME EraseAssumption ==
  /\ Versus \in BOOLEAN
  /\ GarbageRate \in Nat /\ GarbageRate >= 1
  /\ MaxStaleRV \in Nat

VARIABLES
  ePc,           \* what the reconcile does next; "idle" between two
  eKbkb,         \* its copy of the Kbkb, with the status it will write
  eList,         \* erasable Pods not deleted yet
  eOjama,        \* garbage Pods not created yet
  erased,        \* history: Pods whose deletion it caused in this game
  garbage        \* history: garbage Pods it created in this game

eraseVars == << ePc, eKbkb, eList, eOjama, erased, garbage >>

EraseTypeOK ==
  /\ ePc \in {"idle", "update", "delete", "ojama"}
  /\ eKbkb \in Kbkb
  /\ eList \subseteq Names
  /\ eOjama \in Nat
  /\ erased \subseteq Names
  /\ garbage \in Nat

EraseInit ==
  /\ ePc = "idle" /\ eKbkb = kbkb /\ eList = {} /\ eOjama = 0
  /\ erased = {} /\ garbage = 0

-----------------------------------------------------------------------------
\* Mutant: TotalErased counts groups.
ErasingCountsGroups(k, n) ==
  LET chain == IF k.phase = "Erasing" THEN k.chain + 1 ELSE 1
  IN  [k EXCEPT !.phase = "Erasing", !.chain = chain,
                !.maxChain = IF k.maxChain < chain THEN chain ELSE k.maxChain,
                !.totalErased = k.totalErased + 1]

\* The status erase() computes for n erasable Pods.
Erasing(k, n) ==
  LET chain == IF k.phase = "Erasing" THEN k.chain + 1 ELSE 1
  IN  [k EXCEPT !.phase = "Erasing", !.chain = chain,
                !.maxChain = IF k.maxChain < chain THEN chain ELSE k.maxChain,
                !.totalErased = k.totalErased + n]

\* Mutant: a finished game keeps its scores.
SettledKeepsScores(k, empty) ==
  [k EXCEPT !.phase = "Idle", !.chain = 0,
            !.allClears = IF k.phase = "Erasing" /\ empty THEN @ + 1 ELSE @]

\* The status settle() computes, and when it writes none.
Settled(k, empty) ==
  LET over == k.phase = "GameOver"
  IN  [phase       |-> "Idle",
       chain       |-> 0,
       maxChain    |-> IF over THEN 0 ELSE k.maxChain,
       totalErased |-> IF over THEN 0 ELSE k.totalErased,
       allClears   |-> IF over THEN 0
                       ELSE IF k.phase = "Erasing" /\ empty
                            THEN k.allClears + 1 ELSE k.allClears,
       rv          |-> k.rv]

NothingToSettle(k, empty) == k.phase = "Idle" \/ (k.phase = "GameOver" /\ ~empty)

\* How far the caches a reconcile reads may be behind (a bound of the model).
MayRead == kbkb.rv < MaxStaleRV \/ (podFeed = << >> /\ kbkbFeed = << >>)

EraseReconcile ==
  /\ ePc = "idle" /\ "erase" \in queue /\ MayRead
  /\ queue' = queue \ {"erase"}
  /\ LET stable == StableField(podCache)
         list   == IF stable THEN ErasableOf(podCache, Kokeshi) ELSE {}
         empty  == Empty(podCache)
     IN  \/ /\ ~stable \/ (list = {} /\ NothingToSettle(kbkbCache, empty))
            /\ UNCHANGED << ePc, eKbkb, eList >>
         \/ /\ stable /\ list = {} /\ ~NothingToSettle(kbkbCache, empty)
            /\ ePc' = "update"
            /\ eKbkb' = Settled(kbkbCache, empty)
            /\ UNCHANGED eList
         \/ /\ list # {}
            /\ ePc' = "update"
            /\ eKbkb' = Erasing(kbkbCache, Cardinality(list))
            /\ eList' = list
  /\ UNCHANGED << pods, podFeed, podCache, kbkb, kbkbFeed, kbkbCache, created,
                  stamp, faults, eOjama, erased, garbage >>

\* Mutant of EraseFails: the error is dropped.
EraseFailsSilently ==
  /\ ePc' = "idle" /\ eList' = {} /\ eOjama' = 0
  /\ UNCHANGED << eKbkb, queue >>

\* Reconcile returns an error: the request goes back on the queue.
EraseFails ==
  /\ ePc' = "idle" /\ eList' = {} /\ eOjama' = 0
  /\ queue' = queue \cup {"erase"}
  /\ UNCHANGED eKbkb

\* Mutants of Garbage: one Pod is kept back; the division rounds up.
GarbageLessOne(n) == IF Versus THEN (n \div GarbageRate) - 1 ELSE 0

GarbageRoundedUp(n) ==
  IF Versus THEN (n + GarbageRate - 1) \div GarbageRate ELSE 0

\* What sendOjama will create for n erased Pods.
Garbage(n) == IF Versus THEN n \div GarbageRate ELSE 0

\* A new game: settle() has reset the scores.
ResetsScore == eKbkb.totalErased = 0

EraseUpdate ==
  /\ ePc = "update"
  /\ UpdateStatus(eKbkb)
  /\ ePc' = IF eList = {} THEN "idle" ELSE "delete"
  /\ eOjama' = Garbage(Cardinality(eList))
  /\ erased' = IF ResetsScore THEN {} ELSE erased
  /\ garbage' = IF ResetsScore THEN 0 ELSE garbage
  /\ UNCHANGED << pods, podFeed, podCache, kbkbCache, queue, created, stamp,
                  faults,
                  eKbkb, eList >>

\* Mutant of EraseConflict: the error is logged and passed over.
EraseConflictIgnored ==
  /\ ePc = "update"
  /\ ~Fresh(eKbkb)
  /\ ePc' = IF eList = {} THEN "idle" ELSE "delete"
  /\ eOjama' = Garbage(Cardinality(eList))
  /\ UNCHANGED << clusterVars, eKbkb, eList, erased, garbage >>

EraseConflict ==
  /\ ePc = "update"
  /\ ~Fresh(eKbkb)
  /\ EraseFails
  /\ UNCHANGED << pods, podFeed, podCache, kbkb, kbkbFeed, kbkbCache, created,
                  stamp, faults, erased, garbage >>

\* The update fails; it may have been applied before the answer was lost.
EraseUpdateFault ==
  /\ ePc = "update"
  /\ Fault
  /\ \/ NoUpdate /\ UNCHANGED << erased, garbage >>
     \/ /\ UpdateStatus(eKbkb)
        /\ erased' = IF ResetsScore THEN {} ELSE erased
        /\ garbage' = IF ResetsScore THEN 0 ELSE garbage
  /\ EraseFails
  /\ UNCHANGED << pods, podFeed, podCache, kbkbCache, created, stamp >>

\* The rest of the reconcile once a Pod of the list has been dealt with.
AfterDelete(p) ==
  /\ eList' = eList \ {p}
  /\ ePc' = IF eList' # {} THEN "delete" ELSE IF eOjama > 0 THEN "ojama" ELSE "idle"
  /\ UNCHANGED << podCache, kbkb, kbkbFeed, kbkbCache, queue, created, stamp,
                  eKbkb, eOjama, garbage >>

ErasePod(p) ==
  /\ ePc = "delete" /\ p \in eList
  /\ Delete(p)
  /\ erased' = IF p \in Live(pods) /\ ~pods[p].deleting
               THEN erased \cup {p} ELSE erased
  /\ AfterDelete(p)
  /\ UNCHANGED faults

\* A delete that fails is logged and passed over.
ErasePodFault(p) ==
  /\ ePc = "delete" /\ p \in eList
  /\ Fault
  /\ NoWrite
  /\ AfterDelete(p)
  /\ UNCHANGED erased

\* The garbage Pod is created in the opponent's namespace.
SendOjama ==
  /\ ePc = "ojama" /\ eOjama > 0
  /\ garbage' = garbage + 1
  /\ eOjama' = eOjama - 1
  /\ ePc' = IF eOjama' = 0 THEN "idle" ELSE "ojama"
  /\ UNCHANGED << clusterVars, eKbkb, eList, erased >>

SendOjamaFault ==
  /\ ePc = "ojama"
  /\ Fault
  /\ garbage' \in {garbage, garbage + 1}
  /\ EraseFails
  /\ UNCHANGED << pods, podFeed, podCache, kbkb, kbkbFeed, kbkbCache, created,
                  stamp, erased >>

EraseNext ==
  \/ EraseReconcile \/ EraseUpdate \/ EraseConflict \/ EraseUpdateFault
  \/ \E p \in Names : ErasePod(p) \/ ErasePodFault(p)
  \/ SendOjama \/ SendOjamaFault

EraseCrash == ePc' = "idle" /\ eList' = {} /\ eOjama' = 0
              /\ UNCHANGED << eKbkb, erased, garbage >>
=============================================================================
