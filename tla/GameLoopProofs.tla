--------------------------- MODULE GameLoopProofs ---------------------------
(***************************************************************************)
(* Proofs about the game loop: the scores cover every erasure, garbage is  *)
(* paid for, and the status is that of one game, for any number of Pods,   *)
(* columns, colours, faults and undelivered events.                        *)
(***************************************************************************)
EXTENDS GameLoop, FieldProofs, SequenceTheorems

USE DEF Names

-----------------------------------------------------------------------------
(***************************************************************************)
(* Types.                                                                  *)
(***************************************************************************)
\* The requests to the API server keep the store and the feeds well formed.
LEMMA GoneType == Gone \in Pod
BY DEF Gone, Pod, NoNode, NoStamp

LEMMA WriteType ==
  ASSUME ClusterTypeOK, NEW p \in Names, NEW pod \in Pod, Write(p, pod)
  PROVE  /\ pods' \in [Names -> Pod]
         /\ podFeed' \in Seq([pod : Names, now : Pod])
BY DEF ClusterTypeOK, Write

LEMMA NoWriteType ==
  ASSUME ClusterTypeOK, NoWrite
  PROVE  /\ pods' \in [Names -> Pod]
         /\ podFeed' \in Seq([pod : Names, now : Pod])
BY DEF ClusterTypeOK, NoWrite

LEMMA DeleteType ==
  ASSUME ClusterTypeOK, NEW p \in Names, Delete(p)
  PROVE  /\ pods' \in [Names -> Pod]
         /\ podFeed' \in Seq([pod : Names, now : Pod])
<1>1. ASSUME NEW pod \in Pod PROVE [pod EXCEPT !.deleting = TRUE] \in Pod
  BY DEF Pod
<1>2. [pods[p] EXCEPT !.deleting = TRUE] \in Pod
  BY <1>1 DEF ClusterTypeOK
<1> QED
  BY <1>2, GoneType, WriteType, NoWriteType DEF Delete

LEMMA CreateType ==
  ASSUME ClusterTypeOK, NEW c \in Colors \cup {ColorWhite}, Create(c)
  PROVE  /\ pods' \in [Names -> Pod]
         /\ podFeed' \in Seq([pod : Names, now : Pod])
         /\ created' \in 0 .. MaxPods
<1> DEFINE new == [node |-> NoNode, order |-> NoStamp, created |-> created + 1,
                   color |-> c, phase |-> "Pending", ready |-> FALSE,
                   deleting |-> FALSE]
<1>1. created + 1 \in Names /\ created + 1 \in Nat
  BY ClusterAssumption DEF ClusterTypeOK, Create
<1>2. new \in Pod
  BY <1>1 DEF Pod, NoNode, NoStamp
<1>3. Write(created + 1, new)
  BY DEF Create
<1>4. created' \in 0 .. MaxPods
  BY <1>1 DEF Create
<1> HIDE DEF new
<1> QED
  BY <1>1, <1>2, <1>3, <1>4, WriteType

LEMMA UpdateType ==
  ASSUME ClusterTypeOK, NEW k \in Kbkb, UpdateStatus(k)
  PROVE  kbkb' \in Kbkb /\ kbkbFeed' \in Seq(Kbkb)
<1>1. kbkb' \in Kbkb
  BY DEF UpdateStatus, Kbkb
<1> QED
  BY <1>1 DEF UpdateStatus, ClusterTypeOK

LEMMA FaultType ==
  ASSUME ClusterTypeOK, Fault
  PROVE  faults' \in 0 .. MaxFaults
BY ClusterAssumption DEF ClusterTypeOK, Fault

\* What the controllers compute.
LEMMA StatusType ==
  ASSUME NEW k \in Kbkb, NEW n \in Nat, NEW empty \in BOOLEAN
  PROVE  Erasing(k, n) \in Kbkb /\ Settled(k, empty) \in Kbkb
<1>1. Erasing(k, n) \in Kbkb
  <2> DEFINE chain == IF k.phase = "Erasing" THEN k.chain + 1 ELSE 1
             longest == IF k.maxChain < chain THEN chain ELSE k.maxChain
             total == k.totalErased + n
  <2>1. chain \in Nat /\ longest \in Nat /\ total \in Nat
    BY DEF Kbkb
  <2>2. Erasing(k, n) = [k EXCEPT !.phase = "Erasing", !.chain = chain,
                                  !.maxChain = longest, !.totalErased = total]
    BY DEF Erasing
  <2> HIDE DEF chain, longest, total
  <2> QED
    BY <2>1, <2>2 DEF Kbkb, Phases
<1>2. Settled(k, empty) \in Kbkb
  <2> DEFINE over == k.phase = "GameOver"
             longest == IF over THEN 0 ELSE k.maxChain
             total == IF over THEN 0 ELSE k.totalErased
             clears == IF over THEN 0
                       ELSE IF k.phase = "Erasing" /\ empty
                            THEN k.allClears + 1 ELSE k.allClears
  <2>1. longest \in Nat /\ total \in Nat /\ clears \in Nat /\ k.rv \in Nat
    BY DEF Kbkb
  <2>2. Settled(k, empty) = [phase |-> "Idle", chain |-> 0, maxChain |-> longest,
                             totalErased |-> total, allClears |-> clears,
                             rv |-> k.rv]
    BY DEF Settled
  <2>3. [phase |-> "Idle", chain |-> 0, maxChain |-> longest,
         totalErased |-> total, allClears |-> clears, rv |-> k.rv] \in Kbkb
    <3> HIDE DEF over, longest, total, clears
    <3> QED
      BY <2>1 DEF Kbkb, Phases
  <2> HIDE DEF over, longest, total, clears
  <2> QED
    BY <2>2, <2>3
<1> QED
  BY <1>1, <1>2

LEMMA ErasableType ==
  ASSUME NEW view \in [Names -> Pod]
  PROVE  /\ ErasableOf(view, Kokeshi) \subseteq Names
         /\ IsFiniteSet(DOMAIN FieldOf(view))
         /\ IsFiniteSet(ErasableOf(view, Kokeshi))
         /\ Cardinality(ErasableOf(view, Kokeshi)) \in Nat
         /\ ErasableOf(view, Kokeshi) # {}
              => Cardinality(ErasableOf(view, Kokeshi)) >= Kokeshi
<1>1. DOMAIN FieldOf(view) \subseteq Names
  BY DEF FieldOf, New
<1>2. IsFiniteSet(Names)
  BY ClusterAssumption, FS_Interval
<1>3. IsFiniteSet(DOMAIN FieldOf(view))
  BY <1>1, <1>2, FS_Subset
<1>4. ErasableOf(view, Kokeshi) \subseteq DOMAIN FieldOf(view)
  BY ErasableOnField DEF ErasableOf
<1>5. IsFiniteSet(ErasableOf(view, Kokeshi))
  BY <1>3, <1>4, FS_Subset
<1>6. ErasableOf(view, Kokeshi) # {}
        => Cardinality(ErasableOf(view, Kokeshi)) >= Kokeshi
  BY <1>3, ErasableIsEnough, ClusterAssumption DEF ErasableOf
<1>7. Cardinality(ErasableOf(view, Kokeshi)) \in Nat
  BY <1>5, FS_CardinalityType
<1>8. ErasableOf(view, Kokeshi) \subseteq Names
  BY <1>1, <1>4
<1> QED
  BY <1>3, <1>5, <1>6, <1>7, <1>8

LEMMA ListFinite ==
  ASSUME NEW S \in SUBSET Names
  PROVE  IsFiniteSet(S) /\ Cardinality(S) \in Nat
<1>1. IsFiniteSet(Names)
  BY ClusterAssumption, FS_Interval
<1>2. IsFiniteSet(S)
  BY <1>1, FS_Subset
<1> QED
  BY <1>2, FS_CardinalityType

LEMMA GarbageType ==
  ASSUME NEW n \in Nat
  PROVE  Garbage(n) \in Nat /\ GarbageRate * Garbage(n) <= n
<1>1. GarbageRate \in Nat /\ GarbageRate >= 1 /\ Versus \in BOOLEAN
  BY EraseAssumption
<1>2. n \div GarbageRate \in Nat /\ GarbageRate * (n \div GarbageRate) <= n
  BY <1>1, SMT
<1> QED
  BY <1>1, <1>2 DEF Garbage

LEMMA InitType == Init => TypeOK
<1> SUFFICES ASSUME Init PROVE TypeOK
  OBVIOUS
<1>1. kbkb \in Kbkb
  BY DEF Init, ClusterInit, Kbkb, Phases
<1>2. ClusterTypeOK
  <2>1. pods \in [Names -> Pod] /\ podCache \in [Names -> Pod]
    BY GoneType, ClusterAssumption DEF Init, ClusterInit
  <2>2. podFeed \in Seq([pod : Names, now : Pod]) /\ kbkbFeed \in Seq(Kbkb)
    BY EmptySeq DEF Init, ClusterInit
  <2>3. queue \subseteq Controllers /\ created \in 0 .. MaxPods /\ stamp \in Nat
        /\ faults \in 0 .. MaxFaults
    <3>1. queue = Controllers /\ created = 0 /\ stamp = 0 /\ faults = 0
      BY DEF Init, ClusterInit
    <3> QED
      BY <3>1, ClusterAssumption
  <2>4. kbkbCache = kbkb
    BY DEF Init, ClusterInit
  <2> QED
    BY <1>1, <2>1, <2>2, <2>3, <2>4 DEF ClusterTypeOK
<1>3. EraseTypeOK
  BY <1>1 DEF Init, EraseInit, EraseTypeOK
<1>4. SpawnTypeOK
  BY <1>1, SpawnAssumption DEF Init, SpawnInit, SpawnTypeOK
<1> QED
  BY <1>2, <1>3, <1>4 DEF TypeOK

\* Steps of the erase controller.
LEMMA EraseTypeStep ==
  ASSUME TypeOK, EraseNext, UNCHANGED spawnVars
  PROVE  TypeOK'
<1> USE DEF TypeOK
<1>0. SpawnTypeOK'
  BY DEF spawnVars, SpawnTypeOK
<1>1. CASE EraseReconcile
  <2> DEFINE list == IF StableField(podCache)
                     THEN ErasableOf(podCache, Kokeshi) ELSE {}
             empty == Empty(podCache)
  <2>1. list \subseteq Names /\ Cardinality(list) \in Nat
    BY ErasableType, FS_EmptySet DEF ClusterTypeOK
  <2>2. empty \in BOOLEAN
    BY DEF Empty
  <2>3. Erasing(kbkbCache, Cardinality(list)) \in Kbkb /\ Settled(kbkbCache, empty) \in Kbkb
    BY <2>1, <2>2, StatusType DEF ClusterTypeOK
  <2>4. /\ ePc' \in {ePc, "update"}
        /\ eKbkb' \in {eKbkb, Erasing(kbkbCache, Cardinality(list)),
                       Settled(kbkbCache, empty)}
        /\ eList' \in {eList, list}
    BY <1>1 DEF EraseReconcile
  <2> HIDE DEF list, empty
  <2>5. EraseTypeOK'
    BY <1>1, <2>1, <2>3, <2>4 DEF EraseReconcile, EraseTypeOK
  <2>6. ClusterTypeOK'
    BY <1>1 DEF EraseReconcile, ClusterTypeOK
  <2> QED
    BY <1>0, <2>5, <2>6
<1>2. CASE EraseUpdate
  <2>1. kbkb' \in Kbkb /\ kbkbFeed' \in Seq(Kbkb)
    BY <1>2, UpdateType DEF EraseUpdate, EraseTypeOK
  <2>2. eOjama' \in Nat
    BY <1>2, ListFinite, GarbageType DEF EraseUpdate, EraseTypeOK
  <2> QED
    BY <1>0, <1>2, <2>1, <2>2 DEF EraseUpdate, EraseTypeOK, ClusterTypeOK
<1>3. CASE EraseConflict
  BY <1>0, <1>3 DEF EraseConflict, EraseFails, EraseTypeOK, ClusterTypeOK, Controllers
<1>4. CASE EraseUpdateFault
  <2>1. kbkb' \in Kbkb /\ kbkbFeed' \in Seq(Kbkb)
    BY <1>4, UpdateType DEF EraseUpdateFault, EraseTypeOK, NoUpdate, ClusterTypeOK
  <2>2. faults' \in 0 .. MaxFaults
    BY <1>4, FaultType DEF EraseUpdateFault
  <2>3. erased' \subseteq Names /\ garbage' \in Nat
    <3>1. CASE UNCHANGED << erased, garbage >>
      BY <3>1 DEF EraseTypeOK
    <3>2. CASE /\ erased' = IF ResetsScore THEN {} ELSE erased
               /\ garbage' = IF ResetsScore THEN 0 ELSE garbage
      BY <3>2 DEF EraseTypeOK, ResetsScore
    <3> QED
      BY <1>4, <3>1, <3>2 DEF EraseUpdateFault
  <2>4. EraseTypeOK'
    BY <1>4, <2>3 DEF EraseUpdateFault, EraseFails, EraseTypeOK
  <2>5. ClusterTypeOK'
    BY <1>4, <2>1, <2>2 DEF EraseUpdateFault, EraseFails, ClusterTypeOK, Controllers
  <2> QED
    BY <1>0, <2>4, <2>5
<1>5. ASSUME NEW p \in Names, ErasePod(p) PROVE TypeOK'
  <2>1. pods' \in [Names -> Pod] /\ podFeed' \in Seq([pod : Names, now : Pod])
    BY <1>5, DeleteType DEF ErasePod
  <2> QED
    BY <1>0, <1>5, <2>1 DEF ErasePod, AfterDelete, EraseTypeOK, ClusterTypeOK
<1>6. ASSUME NEW p \in Names, ErasePodFault(p) PROVE TypeOK'
  <2>1. faults' \in 0 .. MaxFaults
    BY <1>6, FaultType DEF ErasePodFault
  <2> QED
    BY <1>0, <1>6, <2>1 DEF ErasePodFault, NoWrite, AfterDelete, EraseTypeOK, ClusterTypeOK
<1>7. CASE SendOjama
  BY <1>0, <1>7 DEF SendOjama, EraseTypeOK, ClusterTypeOK, clusterVars
<1>8. CASE SendOjamaFault
  <2>1. faults' \in 0 .. MaxFaults
    BY <1>8, FaultType DEF SendOjamaFault
  <2> QED
    BY <1>0, <1>8, <2>1
       DEF SendOjamaFault, EraseFails, EraseTypeOK, ClusterTypeOK, Controllers
<1> QED
  BY <1>1, <1>2, <1>3, <1>4, <1>5, <1>6, <1>7, <1>8 DEF EraseNext

\* Steps of the spawn controller.
LEMMA SpawnTypeStep ==
  ASSUME TypeOK, SpawnNext, UNCHANGED eraseVars
  PROVE  TypeOK'
<1> USE DEF TypeOK
<1>0. EraseTypeOK'
  BY DEF eraseVars, EraseTypeOK
<1>1. CASE SpawnReconcile
  <2>1. [kbkbCache EXCEPT !.phase = "GameOver"] \in Kbkb
    BY DEF ClusterTypeOK, Kbkb, Phases
  <2>2. Pair \in 0 .. Pair
    BY SpawnAssumption
  <2>3. SpawnTypeOK'
    BY <1>1, <2>1, <2>2 DEF SpawnReconcile, SpawnTypeOK, spawnVars
  <2>4. ClusterTypeOK'
    BY <1>1 DEF SpawnReconcile, ClusterTypeOK
  <2> QED
    BY <1>0, <2>3, <2>4
<1>2. CASE SpawnUpdate
  <2>1. kbkb' \in Kbkb /\ kbkbFeed' \in Seq(Kbkb)
    BY <1>2, UpdateType DEF SpawnUpdate, SpawnTypeOK
  <2> QED
    BY <1>0, <1>2, <2>1 DEF SpawnUpdate, SpawnTypeOK, ClusterTypeOK
<1>3. CASE SpawnConflict
  BY <1>0, <1>3, SpawnAssumption
     DEF SpawnConflict, SpawnFails, SpawnTypeOK, ClusterTypeOK, Controllers
<1>4. CASE SpawnUpdateFault
  <2>1. kbkb' \in Kbkb /\ kbkbFeed' \in Seq(Kbkb)
    BY <1>4, UpdateType DEF SpawnUpdateFault, SpawnTypeOK, NoUpdate, ClusterTypeOK
  <2>2. faults' \in 0 .. MaxFaults
    BY <1>4, FaultType DEF SpawnUpdateFault
  <2>3. SpawnTypeOK'
    BY <1>4, SpawnAssumption DEF SpawnUpdateFault, SpawnFails, SpawnTypeOK
  <2>4. ClusterTypeOK'
    BY <1>4, <2>1, <2>2 DEF SpawnUpdateFault, SpawnFails, ClusterTypeOK, Controllers
  <2> QED
    BY <1>0, <2>3, <2>4
<1>5. ASSUME NEW c \in Colors, SpawnPod(c) PROVE TypeOK'
  <2>1. /\ pods' \in [Names -> Pod] /\ podFeed' \in Seq([pod : Names, now : Pod])
        /\ created' \in 0 .. MaxPods
    BY <1>5, CreateType DEF SpawnPod
  <2>2. SpawnTypeOK'
    BY <1>5, SpawnAssumption DEF SpawnPod, AfterCreate, SpawnTypeOK
  <2>3. ClusterTypeOK'
    BY <1>5, <2>1 DEF SpawnPod, AfterCreate, ClusterTypeOK
  <2> QED
    BY <1>0, <2>2, <2>3
<1>6. CASE SpawnPodUncolored
  <2>1. /\ pods' \in [Names -> Pod] /\ podFeed' \in Seq([pod : Names, now : Pod])
        /\ created' \in 0 .. MaxPods
    BY <1>6, CreateType DEF SpawnPodUncolored
  <2>2. faults' \in 0 .. MaxFaults
    BY <1>6, FaultType DEF SpawnPodUncolored
  <2>3. SpawnTypeOK'
    BY <1>6, SpawnAssumption DEF SpawnPodUncolored, AfterCreate, SpawnTypeOK
  <2>4. ClusterTypeOK'
    BY <1>6, <2>1, <2>2 DEF SpawnPodUncolored, AfterCreate, ClusterTypeOK
  <2> QED
    BY <1>0, <2>3, <2>4
<1>7. CASE SpawnPodFault
  <2>1. /\ pods' \in [Names -> Pod] /\ podFeed' \in Seq([pod : Names, now : Pod])
        /\ created' \in 0 .. MaxPods
    <3>1. CASE NoWrite /\ UNCHANGED created
      BY <3>1, NoWriteType DEF ClusterTypeOK
    <3>2. CASE \E c \in Colors : Create(c)
      BY <3>2, CreateType
    <3> QED
      BY <1>7, <3>1, <3>2 DEF SpawnPodFault
  <2>2. faults' \in 0 .. MaxFaults
    BY <1>7, FaultType DEF SpawnPodFault
  <2>3. SpawnTypeOK'
    BY <1>7, SpawnAssumption DEF SpawnPodFault, SpawnFails, SpawnTypeOK
  <2>4. ClusterTypeOK'
    BY <1>7, <2>1, <2>2 DEF SpawnPodFault, SpawnFails, ClusterTypeOK, Controllers
  <2> QED
    BY <1>0, <2>3, <2>4
<1> QED
  BY <1>1, <1>2, <1>3, <1>4, <1>5, <1>6, <1>7 DEF SpawnNext

\* Steps of the informers and of the rest of the cluster.
LEMMA OtherTypeStep ==
  ASSUME TypeOK, Informers \/ Kubelet \/ Players,
         UNCHANGED << eraseVars, spawnVars >>
  PROVE  TypeOK'
<1> USE DEF TypeOK
<1>0. EraseTypeOK' /\ SpawnTypeOK'
  BY DEF eraseVars, spawnVars, EraseTypeOK, SpawnTypeOK
<1> DEFINE Stored == /\ pods' \in [Names -> Pod]
                     /\ podFeed' \in Seq([pod : Names, now : Pod])
<1>1. CASE SyncPods
  <2>1. Head(podFeed) \in [pod : Names, now : Pod]
        /\ podFeed' \in Seq([pod : Names, now : Pod])
    BY <1>1, HeadTailProperties DEF SyncPods, ClusterTypeOK
  <2> QED
    BY <1>0, <1>1, <2>1 DEF SyncPods, ClusterTypeOK
<1>2. CASE SyncKbkb
  <2>1. Head(kbkbFeed) \in Kbkb /\ kbkbFeed' \in Seq(Kbkb)
    BY <1>2, HeadTailProperties DEF SyncKbkb, ClusterTypeOK
  <2> QED
    BY <1>0, <1>2, <2>1 DEF SyncKbkb, ClusterTypeOK
<1>3. ASSUME NEW p \in Names, Run(p) PROVE TypeOK'
  <2>0. pods[p] \in Pod
    BY DEF ClusterTypeOK
  <2>1. [pods[p] EXCEPT !.phase = "Running", !.ready = TRUE] \in Pod
    BY <2>0 DEF Pod
  <2>2. Stored
    BY <1>3, <2>1, WriteType DEF Run
  <2> QED
    BY <1>0, <1>3, <2>2 DEF Run, othersUnchanged, ClusterTypeOK
<1>4. ASSUME NEW p \in Names, Remove(p) PROVE TypeOK'
  <2>1. Stored
    BY <1>4, GoneType, WriteType DEF Remove
  <2> QED
    BY <1>0, <1>4, <2>1 DEF Remove, othersUnchanged, ClusterTypeOK
<1>5. ASSUME NEW p \in Names, NEW n \in DOMAIN Nodes, Bind(p, n) PROVE TypeOK'
  <2>1. stamp' \in Nat /\ n \in DOMAIN Nodes
    BY <1>5 DEF Bind, ClusterTypeOK
  <2>0. pods[p] \in Pod
    BY DEF ClusterTypeOK
  <2>2. [pods[p] EXCEPT !.node = n, !.order = stamp'] \in Pod
    BY <2>0, <2>1 DEF Pod
  <2>3. Stored
    BY <1>5, <2>2, WriteType DEF Bind
  <2> QED
    BY <1>0, <1>5, <2>1, <2>3 DEF Bind, othersUnchanged, ClusterTypeOK
<1>6. ASSUME NEW p \in Names, CleanUp(p) PROVE TypeOK'
  <2>1. Stored
    BY <1>6, DeleteType DEF CleanUp
  <2> QED
    BY <1>0, <1>6, <2>1 DEF CleanUp, othersUnchanged, ClusterTypeOK
<1>7. CASE OjamaArrives
  <2>1. Stored /\ created' \in 0 .. MaxPods
    BY <1>7, CreateType DEF OjamaArrives
  <2> QED
    BY <1>0, <1>7, <2>1 DEF OjamaArrives, othersUnchanged, ClusterTypeOK
<1> QED
  BY <1>1, <1>2, <1>3, <1>4, <1>5, <1>6, <1>7 DEF Informers, Kubelet, Players

LEMMA TypeStep == TypeOK /\ [Next]_vars => TypeOK'
<1> SUFFICES ASSUME TypeOK, [Next]_vars PROVE TypeOK'
  OBVIOUS
<1>1. CASE Crash
  <2>1. faults' \in 0 .. MaxFaults
    BY <1>1, FaultType DEF Crash, TypeOK
  <2>2. ClusterTypeOK'
    BY <1>1, <2>1 DEF Crash, Relist, TypeOK, ClusterTypeOK
  <2>3. EraseTypeOK' /\ SpawnTypeOK'
    BY <1>1, SpawnAssumption
       DEF Crash, EraseCrash, SpawnCrash, TypeOK, EraseTypeOK, SpawnTypeOK
  <2> QED
    BY <2>2, <2>3 DEF TypeOK
<1>2. CASE UNCHANGED vars
  BY <1>2 DEF vars, clusterVars, eraseVars, spawnVars, TypeOK, ClusterTypeOK,
              EraseTypeOK, SpawnTypeOK
<1> QED
  BY <1>1, <1>2, EraseTypeStep, SpawnTypeStep, OtherTypeStep DEF Next

\* The variables of the game loop keep their types: in particular a score is
\* never negative and a controller only deletes and creates Pods of the model.
THEOREM TypeCorrect == Spec => []TypeOK
BY InitType, TypeStep, PTL DEF Spec

-----------------------------------------------------------------------------
(***************************************************************************)
(* Copies of the Kbkb.                                                     *)
(***************************************************************************)
\* What a step may do to the Kbkb, its feed and its cache.
LEMMA KbkbSteps ==
  ASSUME [Next]_vars
  PROVE  \/ UNCHANGED << kbkb, kbkbFeed, kbkbCache >>
         \/ kbkbCache' = kbkbCache /\ \E k \in {eKbkb, sKbkb} : UpdateStatus(k)
         \/ SyncKbkb
         \/ kbkb' = kbkb /\ Relist
<1> USE DEF NoUpdate
<1>1. CASE EraseNext
  BY <1>1 DEF EraseNext, EraseReconcile, EraseUpdate, EraseConflict,
              EraseUpdateFault, ErasePod, ErasePodFault, AfterDelete, SendOjama,
              SendOjamaFault, clusterVars
<1>2. CASE SpawnNext
  BY <1>2 DEF SpawnNext, SpawnReconcile, SpawnUpdate, SpawnConflict,
              SpawnUpdateFault, SpawnPod, SpawnPodUncolored, SpawnPodFault,
              AfterCreate
<1>3. CASE Informers
  BY <1>3 DEF Informers, SyncPods
<1>4. CASE Kubelet \/ Players
  BY <1>4 DEF Kubelet, Players, Run, Remove, Bind, CleanUp, OjamaArrives,
              othersUnchanged
<1>5. CASE Crash
  BY <1>5 DEF Crash
<1>6. CASE UNCHANGED vars
  BY <1>6 DEF vars, clusterVars
<1> QED
  BY <1>1, <1>2, <1>3, <1>4, <1>5, <1>6 DEF Next

LEMMA UpdateRaisesVersion ==
  ASSUME NEW k \in Kbkb, UpdateStatus(k), kbkb \in Kbkb
  PROVE  /\ kbkb' = [k EXCEPT !.rv = kbkb.rv + 1]
         /\ kbkb'.rv = kbkb.rv + 1
         /\ kbkb.rv \in Nat
BY DEF UpdateStatus, Fresh, Kbkb

LEMMA CopiesStep == TypeOK /\ CopiesInv /\ [Next]_vars => CopiesInv'
<1> SUFFICES ASSUME TypeOK, CopiesInv, [Next]_vars PROVE CopiesInv'
  OBVIOUS
<1>0. /\ kbkb \in Kbkb /\ kbkbCache \in Kbkb /\ kbkbFeed \in Seq(Kbkb)
      /\ eKbkb \in Kbkb /\ sKbkb \in Kbkb
  BY DEF TypeOK, ClusterTypeOK, EraseTypeOK, SpawnTypeOK
<1>1. CASE UNCHANGED << kbkb, kbkbFeed, kbkbCache >>
  BY <1>1 DEF CopiesInv, Copy
<1>2. ASSUME kbkbCache' = kbkbCache, NEW k \in Kbkb, UpdateStatus(k)
      PROVE  CopiesInv'
  <2>1. kbkb'.rv = kbkb.rv + 1 /\ kbkb.rv \in Nat
    BY <1>0, <1>2, UpdateRaisesVersion
  <2>4. ASSUME NEW i \in DOMAIN kbkbFeed'
        PROVE  /\ kbkbFeed'[i].rv <= kbkb'.rv
               /\ kbkbFeed'[i].rv = kbkb'.rv => kbkbFeed'[i] = kbkb'
    <3>1. kbkbFeed' = Append(kbkbFeed, kbkb')
      BY <1>2 DEF UpdateStatus
    <3>2. CASE i \in DOMAIN kbkbFeed
      <4>1. kbkbFeed'[i] = kbkbFeed[i] /\ kbkbFeed[i] \in Kbkb
        BY <1>0, <3>1, <3>2
      <4>2. kbkbFeed[i].rv <= kbkb.rv /\ kbkbFeed[i].rv \in Nat
        BY <3>2, <4>1 DEF CopiesInv, Copy, Kbkb
      <4> QED
        BY <2>1, <4>1, <4>2
    <3>3. CASE i \notin DOMAIN kbkbFeed
      <4>1. kbkbFeed'[i] = kbkb'
        BY <1>0, <3>1, <3>3
      <4> QED
        BY <2>1, <4>1
    <3> QED
      BY <3>2, <3>3
  <2>5. Copy(kbkbCache)'
    <3>1. kbkbCache.rv <= kbkb.rv /\ kbkbCache.rv \in Nat
      BY <1>0 DEF CopiesInv, Copy, Kbkb
    <3> QED
      BY <1>2, <2>1, <3>1 DEF Copy
  <2> QED
    BY <2>4, <2>5 DEF CopiesInv, Copy
<1>3. CASE SyncKbkb
  <2>1. /\ kbkb' = kbkb /\ kbkbFeed # << >> /\ kbkbCache' = Head(kbkbFeed)
        /\ kbkbFeed' = Tail(kbkbFeed)
    BY <1>3 DEF SyncKbkb
  <2>2. 1 \in DOMAIN kbkbFeed /\ Head(kbkbFeed) = kbkbFeed[1]
    BY <1>0, <2>1
  <2>3. ASSUME NEW i \in DOMAIN kbkbFeed'
        PROVE  i + 1 \in DOMAIN kbkbFeed /\ kbkbFeed'[i] = kbkbFeed[i + 1]
    BY <1>0, <2>1
  <2> QED
    BY <2>1, <2>2, <2>3 DEF CopiesInv, Copy
<1>4. CASE kbkb' = kbkb /\ Relist
  BY <1>0, <1>4 DEF Relist, CopiesInv, Copy, Kbkb
<1> QED
  BY <1>0, <1>1, <1>2, <1>3, <1>4, KbkbSteps

-----------------------------------------------------------------------------
(***************************************************************************)
(* The statuses the two controllers are about to write.                    *)
(***************************************************************************)
\* A step leaves the Kbkb alone or raises its version.
LEMMA KbkbRises ==
  ASSUME TypeOK, [Next]_vars
  PROVE  /\ kbkb.rv \in Nat
         /\ kbkb' = kbkb \/ kbkb'.rv = kbkb.rv + 1
<1>0. kbkb \in Kbkb /\ eKbkb \in Kbkb /\ sKbkb \in Kbkb
  BY DEF TypeOK, ClusterTypeOK, EraseTypeOK, SpawnTypeOK
<1>1. kbkb.rv \in Nat
  BY <1>0 DEF Kbkb
<1>2. ASSUME NEW k \in {eKbkb, sKbkb}, UpdateStatus(k)
      PROVE  kbkb'.rv = kbkb.rv + 1
  BY <1>0, <1>2, UpdateRaisesVersion
<1> QED
  BY <1>1, <1>2, KbkbSteps DEF SyncKbkb

\* A computed status keeps the version of the copy it is computed from.
LEMMA StatusVersion ==
  ASSUME NEW k \in Kbkb, NEW n \in Nat, NEW empty \in BOOLEAN
  PROVE  Erasing(k, n).rv = k.rv /\ Settled(k, empty).rv = k.rv
<1>1. Settled(k, empty).rv = k.rv
  BY DEF Settled
<1>2. Erasing(k, n).rv = k.rv
  BY DEF Erasing, Kbkb
<1> QED
  BY <1>1, <1>2

\* Nothing erased, nothing to send.
LEMMA NoGarbage == Garbage(0) = 0
<1>1. GarbageRate \in Nat /\ GarbageRate >= 1
  BY EraseAssumption
<1>2. 0 \div GarbageRate = 0
  BY <1>1, SMT
<1> QED
  BY <1>2 DEF Garbage

\* The erase controller computes its status from the Kbkb it read.
LEMMA EraseReconcileInv ==
  ASSUME TypeOK, CopiesInv, EraseInv, EraseReconcile
  PROVE  EraseInv'
<1> DEFINE list == IF StableField(podCache)
                   THEN ErasableOf(podCache, Kokeshi) ELSE {}
           empty == Empty(podCache)
<1>0. kbkb' = kbkb /\ kbkb \in Kbkb /\ kbkbCache \in Kbkb /\ eOjama' = eOjama
      /\ podCache \in [Names -> Pod]
  BY DEF EraseReconcile, TypeOK, ClusterTypeOK
<1>1. /\ eList = {} /\ eOjama = 0
  BY DEF EraseReconcile, EraseInv
<1>2. /\ Cardinality(list) \in Nat /\ empty \in BOOLEAN
      /\ list # {} => Cardinality(list) >= Kokeshi
  <2>1. Cardinality({}) \in Nat
    BY FS_EmptySet
  <2>2. empty \in BOOLEAN
    BY DEF Empty
  <2> QED
    BY <1>0, <2>1, <2>2, ErasableType
<1>3. kbkbCache.rv <= kbkb.rv /\ (kbkbCache.rv = kbkb.rv => kbkbCache = kbkb)
  BY DEF CopiesInv, Copy
<1>4. Erasing(kbkbCache, Cardinality(list)).rv = kbkbCache.rv
      /\ Settled(kbkbCache, empty).rv = kbkbCache.rv
  BY <1>0, <1>2, StatusVersion
<1>5. \/ ePc' = "idle" /\ eList' = {}
      \/ /\ ePc' = "update" /\ eList' = {} /\ ~NothingToSettle(kbkbCache, empty)
         /\ eKbkb' = Settled(kbkbCache, empty)
      \/ /\ ePc' = "update" /\ eList' = list /\ list # {}
         /\ eKbkb' = Erasing(kbkbCache, Cardinality(list))
  BY <1>1 DEF EraseReconcile
<1> HIDE DEF list, empty
<1>6. CASE ePc' = "idle" /\ eList' = {}
  BY <1>0, <1>1, <1>6 DEF EraseInv
<1>7. CASE /\ ePc' = "update" /\ eList' = {}
           /\ ~NothingToSettle(kbkbCache, empty)
           /\ eKbkb' = Settled(kbkbCache, empty)
  <2>1. eKbkb'.rv <= kbkb'.rv
    BY <1>0, <1>3, <1>4, <1>7
  <2>2. eKbkb'.rv = kbkb'.rv =>
          ~NothingToSettle(kbkb', empty) /\ eKbkb' = Settled(kbkb', empty)
    BY <1>0, <1>3, <1>4, <1>7
  <2> QED
    BY <1>0, <1>1, <1>2, <1>7, <2>1, <2>2 DEF EraseInv, Fresh, NothingToSettle, Settled
<1>8. CASE /\ ePc' = "update" /\ eList' = list /\ list # {}
           /\ eKbkb' = Erasing(kbkbCache, Cardinality(list))
  <2>1. eKbkb'.rv <= kbkb'.rv
    BY <1>0, <1>3, <1>4, <1>8
  <2>2. eKbkb'.rv = kbkb'.rv => eKbkb' = Erasing(kbkb', Cardinality(eList'))
    BY <1>0, <1>3, <1>4, <1>8
  <2> QED
    BY <1>0, <1>1, <1>2, <1>8, <2>1, <2>2 DEF EraseInv, Fresh, Erasing
<1> QED
  BY <1>5, <1>6, <1>7, <1>8

LEMMA EraseStep == TypeOK /\ CopiesInv /\ EraseInv /\ [Next]_vars => EraseInv'
<1> SUFFICES ASSUME TypeOK, CopiesInv, EraseInv, [Next]_vars PROVE EraseInv'
  OBVIOUS
<1>1. CASE EraseReconcile
  BY <1>1, EraseReconcileInv
<1>2. CASE EraseUpdate
  <2>1. eList = {} => eOjama' = 0
    BY <1>2, NoGarbage, FS_EmptySet DEF EraseUpdate
  <2>2. ePc' = (IF eList = {} THEN "idle" ELSE "delete") /\ eList' = eList
    BY <1>2 DEF EraseUpdate
  <2> QED
    BY <2>1, <2>2 DEF EraseInv
<1>3. CASE EraseConflict \/ EraseUpdateFault \/ SendOjamaFault
  BY <1>3 DEF EraseConflict, EraseUpdateFault, SendOjamaFault, EraseFails, EraseInv
<1>4. ASSUME NEW p \in Names, ErasePod(p) \/ ErasePodFault(p) PROVE EraseInv'
  BY <1>4 DEF ErasePod, ErasePodFault, AfterDelete, EraseInv, TypeOK, EraseTypeOK
<1>5. CASE SendOjama
  BY <1>5 DEF SendOjama, EraseInv, TypeOK, EraseTypeOK
<1>6. CASE UNCHANGED eraseVars
  <2>1. CASE kbkb' = kbkb
    BY <1>6, <2>1 DEF EraseInv, eraseVars, Fresh, NothingToSettle, Settled, Erasing
  <2>2. CASE kbkb'.rv = kbkb.rv + 1
    <3>1. kbkb.rv \in Nat
      BY KbkbRises
    <3>2. ePc = "update" => eKbkb.rv <= kbkb.rv /\ eKbkb.rv \in Nat
      BY DEF EraseInv, TypeOK, EraseTypeOK, Kbkb
    <3>3. ePc = "update" => eKbkb.rv <= kbkb'.rv /\ eKbkb.rv # kbkb'.rv
      BY <2>2, <3>1, <3>2
    <3> QED
      BY <1>6, <3>3 DEF EraseInv, eraseVars, Fresh
  <2> QED
    BY <2>1, <2>2, KbkbRises
<1>7. CASE Crash
  BY <1>7 DEF Crash, EraseCrash, EraseInv
<1> QED
  BY <1>1, <1>2, <1>3, <1>4, <1>5, <1>6, <1>7 DEF Next, EraseNext, vars

LEMMA SpawnStep == TypeOK /\ CopiesInv /\ SpawnInv /\ [Next]_vars => SpawnInv'
<1> SUFFICES ASSUME TypeOK, CopiesInv, SpawnInv, [Next]_vars PROVE SpawnInv'
  OBVIOUS
<1>0. sLeft \in Nat /\ Pair \in Nat /\ Pair >= 1
  BY SpawnAssumption DEF TypeOK, SpawnTypeOK
<1>1. CASE SpawnReconcile
  <2>1. kbkb' = kbkb /\ sLeft = 0 /\ kbkbCache \in Kbkb
    BY <1>0, <1>1 DEF SpawnReconcile, SpawnInv, TypeOK, ClusterTypeOK
  <2>2. kbkbCache.rv <= kbkb.rv /\ (kbkbCache.rv = kbkb.rv => kbkbCache = kbkb)
    BY DEF CopiesInv, Copy
  <2>3. \/ sPc' = "idle" /\ sLeft' = 0
        \/ sPc' = "create" /\ sLeft' = Pair
        \/ /\ sPc' = "update" /\ sLeft' = 0 /\ kbkbCache.phase # "GameOver"
           /\ sKbkb' = [kbkbCache EXCEPT !.phase = "GameOver"]
    BY <1>1, <2>1 DEF SpawnReconcile, SpawnDecision, spawnVars
  <2>4. [kbkbCache EXCEPT !.phase = "GameOver"].rv = kbkbCache.rv
    BY <2>1 DEF Kbkb
  <2>5. CASE sPc' # "update"
    BY <1>0, <2>3, <2>5 DEF SpawnInv
  <2>6. CASE sPc' = "update"
    <3>1. sLeft' = 0 /\ sKbkb' = [kbkbCache EXCEPT !.phase = "GameOver"]
          /\ kbkbCache.phase # "GameOver"
      BY <2>3, <2>6
    <3>2. sKbkb'.rv <= kbkb'.rv
      BY <2>1, <2>2, <2>4, <3>1
    <3>3. sKbkb'.rv = kbkb'.rv =>
            kbkb'.phase # "GameOver" /\ sKbkb' = [kbkb' EXCEPT !.phase = "GameOver"]
      BY <2>1, <2>2, <2>4, <3>1
    <3> QED
      BY <2>6, <3>1, <3>2, <3>3 DEF SpawnInv, Fresh
  <2> QED
    BY <2>5, <2>6
<1>2. CASE SpawnUpdate
  BY <1>2 DEF SpawnUpdate, SpawnInv
<1>3. CASE SpawnConflict \/ SpawnUpdateFault \/ SpawnPodFault
  BY <1>3 DEF SpawnConflict, SpawnUpdateFault, SpawnPodFault, SpawnFails, SpawnInv
<1>4. CASE (\E c \in Colors : SpawnPod(c)) \/ SpawnPodUncolored
  BY <1>0, <1>4 DEF SpawnPod, SpawnPodUncolored, AfterCreate, SpawnInv
<1>5. CASE UNCHANGED spawnVars
  <2>1. CASE kbkb' = kbkb
    BY <1>5, <2>1 DEF SpawnInv, spawnVars, Fresh
  <2>2. CASE kbkb'.rv = kbkb.rv + 1
    <3>1. kbkb.rv \in Nat
      BY KbkbRises
    <3>2. sPc = "update" => sKbkb.rv <= kbkb.rv /\ sKbkb.rv \in Nat
      BY DEF SpawnInv, TypeOK, SpawnTypeOK, Kbkb
    <3>3. sPc = "update" => sKbkb.rv <= kbkb'.rv /\ sKbkb.rv # kbkb'.rv
      BY <2>2, <3>1, <3>2
    <3> QED
      BY <1>5, <3>3 DEF SpawnInv, spawnVars, Fresh
  <2> QED
    BY <2>1, <2>2, KbkbRises
<1>6. CASE Crash
  BY <1>6 DEF Crash, SpawnCrash, SpawnInv
<1> QED
  BY <1>1, <1>2, <1>3, <1>4, <1>5, <1>6 DEF Next, SpawnNext, vars

-----------------------------------------------------------------------------
(***************************************************************************)
(* What the two controllers write, field by field.                         *)
(***************************************************************************)
\* A link of a chain of n Pods, the end of a chain or of a game, game over.
WritesErase(n) ==
  /\ kbkb'.phase = "Erasing"
  /\ kbkb'.chain = IF kbkb.phase = "Erasing" THEN kbkb.chain + 1 ELSE 1
  /\ kbkb'.maxChain = IF kbkb.maxChain < kbkb'.chain THEN kbkb'.chain ELSE kbkb.maxChain
  /\ kbkb'.totalErased = kbkb.totalErased + n
  /\ kbkb'.allClears = kbkb.allClears

WritesIdle ==
  /\ kbkb.phase \notin {"Idle", "GameOver"}
  /\ kbkb'.phase = "Idle" /\ kbkb'.chain = 0
  /\ kbkb'.maxChain = kbkb.maxChain /\ kbkb'.totalErased = kbkb.totalErased
  /\ \/ kbkb'.allClears = kbkb.allClears
     \/ kbkb.phase = "Erasing" /\ kbkb'.allClears = kbkb.allClears + 1

WritesNewGame ==
  /\ kbkb.phase = "GameOver"
  /\ kbkb'.phase = "Idle" /\ kbkb'.chain = 0
  /\ kbkb'.maxChain = 0 /\ kbkb'.totalErased = 0 /\ kbkb'.allClears = 0

WritesGameOver ==
  /\ kbkb.phase # "GameOver"
  /\ kbkb'.phase = "GameOver"
  /\ kbkb'.chain = kbkb.chain /\ kbkb'.maxChain = kbkb.maxChain
  /\ kbkb'.totalErased = kbkb.totalErased /\ kbkb'.allClears = kbkb.allClears

\* The erase controller writes a link of a chain when it is about to delete
\* Pods, and otherwise ends a chain or starts a new game.
LEMMA EraseWrites ==
  ASSUME TypeOK, EraseInv, ePc = "update", UpdateStatus(eKbkb)
  PROVE  /\ kbkb'.totalErased = eKbkb.totalErased
         /\ \/ /\ eList # {} /\ Cardinality(eList) >= Kokeshi
               /\ WritesErase(Cardinality(eList))
            \/ eList = {} /\ (WritesIdle \/ WritesNewGame)
<1>0. eKbkb \in Kbkb /\ kbkb \in Kbkb /\ Cardinality(eList) \in Nat
  BY ListFinite DEF TypeOK, ClusterTypeOK, EraseTypeOK
<1>1. kbkb' = [eKbkb EXCEPT !.rv = eKbkb.rv + 1] /\ Fresh(eKbkb)
  BY DEF UpdateStatus
<1>2. /\ kbkb'.phase = eKbkb.phase /\ kbkb'.chain = eKbkb.chain
      /\ kbkb'.maxChain = eKbkb.maxChain /\ kbkb'.totalErased = eKbkb.totalErased
      /\ kbkb'.allClears = eKbkb.allClears
  BY <1>0, <1>1 DEF Kbkb
<1>3. CASE eList # {} /\ eKbkb = Erasing(kbkb, Cardinality(eList))
  <2>1. Cardinality(eList) >= Kokeshi
    BY <1>3 DEF EraseInv
  <2>2. /\ eKbkb.phase = "Erasing"
        /\ eKbkb.chain = IF kbkb.phase = "Erasing" THEN kbkb.chain + 1 ELSE 1
        /\ eKbkb.maxChain = IF kbkb.maxChain < eKbkb.chain
                            THEN eKbkb.chain ELSE kbkb.maxChain
        /\ eKbkb.totalErased = kbkb.totalErased + Cardinality(eList)
        /\ eKbkb.allClears = kbkb.allClears
    BY <1>0, <1>3 DEF Erasing, Kbkb
  <2> QED
    BY <1>2, <1>3, <2>1, <2>2 DEF WritesErase
<1>4. ASSUME eList = {}, NEW empty \in BOOLEAN, ~NothingToSettle(kbkb, empty),
             eKbkb = Settled(kbkb, empty)
      PROVE  WritesIdle \/ WritesNewGame
  <2>1. CASE kbkb.phase = "GameOver"
    <3>1. /\ eKbkb.phase = "Idle" /\ eKbkb.chain = 0
          /\ eKbkb.maxChain = 0 /\ eKbkb.totalErased = 0 /\ eKbkb.allClears = 0
      BY <1>4, <2>1 DEF Settled
    <3> QED
      BY <1>2, <2>1, <3>1 DEF WritesNewGame
  <2>2. CASE kbkb.phase # "GameOver"
    <3>1. /\ eKbkb.phase = "Idle" /\ eKbkb.chain = 0
          /\ eKbkb.maxChain = kbkb.maxChain
          /\ eKbkb.totalErased = kbkb.totalErased
      BY <1>4, <2>2 DEF Settled
    <3>2. \/ eKbkb.allClears = kbkb.allClears
          \/ kbkb.phase = "Erasing" /\ eKbkb.allClears = kbkb.allClears + 1
      BY <1>4, <2>2 DEF Settled
    <3>3. kbkb.phase # "Idle"
      BY <1>4 DEF NothingToSettle
    <3> QED
      BY <1>2, <2>2, <3>1, <3>2, <3>3 DEF WritesIdle
  <2> QED
    BY <2>1, <2>2
<1> QED
  BY <1>1, <1>2, <1>3, <1>4 DEF EraseInv

LEMMA SpawnWrites ==
  ASSUME TypeOK, SpawnInv, sPc = "update", UpdateStatus(sKbkb)
  PROVE  WritesGameOver
<1>0. sKbkb \in Kbkb /\ kbkb \in Kbkb
  BY DEF TypeOK, ClusterTypeOK, SpawnTypeOK
<1>1. /\ kbkb' = [sKbkb EXCEPT !.rv = sKbkb.rv + 1]
      /\ kbkb.phase # "GameOver" /\ sKbkb = [kbkb EXCEPT !.phase = "GameOver"]
  BY DEF UpdateStatus, SpawnInv
<1> QED
  BY <1>0, <1>1 DEF WritesGameOver, Kbkb

-----------------------------------------------------------------------------
(***************************************************************************)
(* The scores.                                                             *)
(***************************************************************************)
\* The scores stay consistent with each other, whatever is written.
Sums ==
  /\ ScoresConsistent
  /\ kbkb.phase = "Erasing" => Kokeshi * (kbkb.allClears + 1) <= kbkb.totalErased

LEMMA SumsStep ==
  ASSUME kbkb \in Kbkb, Sums,
         \/ kbkb' = kbkb
         \/ \E n \in Nat : n >= Kokeshi /\ WritesErase(n)
         \/ WritesIdle \/ WritesNewGame \/ WritesGameOver
  PROVE  Sums'
<1>0. /\ Kokeshi \in Nat /\ Kokeshi >= 2 /\ kbkb.chain \in Nat
      /\ kbkb.maxChain \in Nat /\ kbkb.totalErased \in Nat /\ kbkb.allClears \in Nat
  BY ClusterAssumption DEF Kbkb
<1>1. CASE kbkb' = kbkb
  BY <1>1 DEF Sums, ScoresConsistent
<1>2. ASSUME NEW n \in Nat, n >= Kokeshi, WritesErase(n) PROVE Sums'
  <2>1. kbkb'.chain <= kbkb.maxChain + 1 /\ kbkb'.chain \in Nat /\ kbkb'.chain >= 1
    BY <1>0, <1>2 DEF WritesErase, Sums, ScoresConsistent
  <2>2. kbkb'.maxChain \in {kbkb.maxChain, kbkb.maxChain + 1}
        /\ kbkb'.chain <= kbkb'.maxChain
    BY <1>0, <1>2, <2>1 DEF WritesErase
  <2>3. Kokeshi * (kbkb.maxChain + 1) <= kbkb.totalErased + n
    <3>1. Kokeshi * (kbkb.maxChain + 1) = Kokeshi * kbkb.maxChain + Kokeshi
      BY <1>0
    <3> QED
      BY <1>0, <1>2, <3>1 DEF Sums, ScoresConsistent
  <2>4. Kokeshi * (kbkb.allClears + 1) <= kbkb.totalErased + n
    <3>1. Kokeshi * (kbkb.allClears + 1) = Kokeshi * kbkb.allClears + Kokeshi
      BY <1>0
    <3> QED
      BY <1>0, <1>2, <3>1 DEF Sums, ScoresConsistent
  <2>5. kbkb'.totalErased = kbkb.totalErased + n /\ kbkb'.allClears = kbkb.allClears
    BY <1>2 DEF WritesErase
  <2>6. Kokeshi * kbkb.maxChain <= kbkb.totalErased + n
        /\ Kokeshi * kbkb.allClears <= kbkb.totalErased + n
    BY <1>0 DEF Sums, ScoresConsistent
  <2> QED
    BY <2>1, <2>2, <2>3, <2>4, <2>5, <2>6 DEF Sums, ScoresConsistent
<1>3. CASE WritesIdle
  BY <1>0, <1>3 DEF WritesIdle, Sums, ScoresConsistent
<1>4. CASE WritesNewGame
  BY <1>0, <1>4 DEF WritesNewGame, Sums, ScoresConsistent
<1>5. CASE WritesGameOver
  BY <1>0, <1>5 DEF WritesGameOver, Sums, ScoresConsistent
<1> QED
  BY <1>1, <1>2, <1>3, <1>4, <1>5

\* Every step leaves the Kbkb alone or is one of these writes.
LEMMA WriteSteps ==
  ASSUME TypeOK, EraseInv, SpawnInv, [Next]_vars
  PROVE  \/ kbkb' = kbkb
         \/ \E n \in Nat : n >= Kokeshi /\ WritesErase(n)
         \/ WritesIdle \/ WritesNewGame \/ WritesGameOver
<1> USE DEF NoUpdate
<1>0. Cardinality(eList) \in Nat
  BY ListFinite DEF TypeOK, EraseTypeOK
<1>1. CASE ePc = "update" /\ UpdateStatus(eKbkb)
  BY <1>0, <1>1, EraseWrites
<1>2. CASE sPc = "update" /\ UpdateStatus(sKbkb)
  BY <1>2, SpawnWrites
<1>3. \/ kbkb' = kbkb
      \/ ePc = "update" /\ UpdateStatus(eKbkb)
      \/ sPc = "update" /\ UpdateStatus(sKbkb)
  <2>1. CASE EraseNext
    BY <2>1 DEF EraseNext, EraseReconcile, EraseUpdate, EraseConflict,
                EraseUpdateFault, ErasePod, ErasePodFault, AfterDelete, SendOjama,
                SendOjamaFault, clusterVars
  <2>2. CASE SpawnNext
    BY <2>2 DEF SpawnNext, SpawnReconcile, SpawnUpdate, SpawnConflict,
                SpawnUpdateFault, SpawnPod, SpawnPodUncolored, SpawnPodFault,
                AfterCreate
  <2>3. CASE Informers \/ Crash
    BY <2>3 DEF Informers, SyncPods, SyncKbkb, Crash
  <2>4. CASE Kubelet \/ Players
    BY <2>4 DEF Kubelet, Players, Run, Remove, Bind, CleanUp, OjamaArrives,
                othersUnchanged
  <2>5. CASE UNCHANGED vars
    BY <2>5 DEF vars, clusterVars
  <2> QED
    BY <2>1, <2>2, <2>3, <2>4, <2>5 DEF Next
<1> QED
  BY <1>1, <1>2, <1>3

\* What has been deleted, or is about to be, and the garbage sent for it are
\* in the score.
Debts ==
  /\ Cardinality(Owed) <= kbkb.totalErased
  /\ GarbageRate * (garbage + eOjama) <= kbkb.totalErased

\* Multiplication by a constant.
LEMMA ScaledNat ==
  ASSUME NEW a \in Nat, NEW b \in Nat
  PROVE  a * b \in Nat
OBVIOUS

LEMMA Scaled ==
  ASSUME NEW a \in Nat, NEW b \in Nat, NEW c \in Nat
  PROVE  a * (b + c) = a * b + a * c
OBVIOUS

LEMMA ScaledLeq ==
  ASSUME NEW a \in Nat, NEW b \in Nat, NEW c \in Nat, b <= c
  PROVE  a * b <= a * c
<1>1. c - b \in Nat /\ c = b + (c - b)
  OBVIOUS
<1>2. a * c = a * b + a * (c - b)
  BY <1>1, Scaled, Z3
<1>3. a * b \in Int /\ a * c \in Int /\ a * (c - b) \in Nat
  BY <1>1, ScaledNat
<1> QED
  BY <1>2, <1>3

LEMMA StillPaid ==
  ASSUME NEW r \in Nat, NEW a \in Nat, NEW b \in Nat, NEW t \in Nat,
         r * (a + b) <= t,
         NEW g \in Nat, NEW o \in Nat, NEW u \in Nat, g + o <= a + b, t <= u
  PROVE  r * (g + o) <= u
<1>1. g + o \in Nat /\ a + b \in Nat
  OBVIOUS
<1>2. r * (g + o) <= r * (a + b)
  BY <1>1, ScaledLeq
<1>3. r * (g + o) \in Nat /\ r * (a + b) \in Nat
  BY <1>1, ScaledNat
<1> QED
  BY <1>2, <1>3

LEMMA ScoreInvParts == ScoreInv <=> Debts /\ Sums
BY DEF ScoreInv, Debts, Sums

\* The debts do not grow and the score does not shrink.
LEMMA DebtsCarried ==
  ASSUME TypeOK, Debts, kbkb'.totalErased >= kbkb.totalErased,
         kbkb'.totalErased \in Nat, Owed' \subseteq Owed,
         NEW g \in Nat, g = garbage', NEW o \in Nat, o = eOjama',
         g + o <= garbage + eOjama
  PROVE  Debts'
<1>0. kbkb.totalErased \in Nat /\ GarbageRate \in Nat /\ garbage \in Nat /\ eOjama \in Nat
  BY EraseAssumption DEF TypeOK, ClusterTypeOK, EraseTypeOK, Kbkb
<1>1. Owed \subseteq Names /\ Owed' \subseteq Names
  BY DEF TypeOK, EraseTypeOK, Owed
<1>2. Cardinality(Owed') <= Cardinality(Owed)
  BY <1>1, ListFinite, FS_Subset
<1>3. Cardinality(Owed') \in Nat /\ Cardinality(Owed) \in Nat
  BY <1>1, ListFinite
<1>4. Cardinality(Owed') <= kbkb'.totalErased
  BY <1>0, <1>2, <1>3 DEF Debts
<1>5. GarbageRate * (garbage + eOjama) <= kbkb.totalErased
  BY DEF Debts
<1>6. GarbageRate * (g + o) <= kbkb'.totalErased
  BY <1>0, <1>5, StillPaid
<1> QED
  BY <1>4, <1>6 DEF Debts

\* A status update of the erase controller, answered (eOjama becomes what
\* there is to send) or not (it does not).
LEMMA DebtsWritten ==
  ASSUME TypeOK, TypeOK', EraseInv, Debts, ePc = "update", UpdateStatus(eKbkb),
         erased' = (IF ResetsScore THEN {} ELSE erased),
         garbage' = (IF ResetsScore THEN 0 ELSE garbage),
         NEW o \in {0, Garbage(Cardinality(eList))}, eOjama' = o,
         Owed' \subseteq erased' \cup eList
  PROVE  Debts'
<1>0. /\ kbkb.totalErased \in Nat /\ kbkb'.totalErased \in Nat
      /\ GarbageRate \in Nat /\ garbage \in Nat /\ eList \subseteq Names
      /\ erased \subseteq Names /\ Cardinality(eList) \in Nat /\ eOjama' \in Nat
  BY EraseAssumption, ListFinite DEF TypeOK, ClusterTypeOK, EraseTypeOK, Kbkb
<1>1. eOjama = 0 /\ Owed = erased
  BY DEF EraseInv, Owed
<1>2. kbkb'.totalErased = eKbkb.totalErased
  BY EraseWrites
<1>3. CASE eList = {}
  <2>1. eOjama' = 0
    BY <1>3, NoGarbage, FS_EmptySet
  <2>2. CASE ResetsScore
    <3>1. Owed' = {} /\ garbage' = 0 /\ Cardinality({}) = 0
      BY <1>3, <2>2, FS_EmptySet
    <3>2. GarbageRate * (0 + 0) = 0
      BY <1>0
    <3> QED
      BY <1>0, <2>1, <3>1, <3>2 DEF Debts
  <2>3. CASE ~ResetsScore
    <3>1. Owed' \subseteq Owed /\ garbage' = garbage
      BY <1>1, <1>3, <2>3
    <3>2. kbkb'.totalErased = kbkb.totalErased
      <4>1. WritesIdle \/ WritesNewGame
        BY <1>3, EraseWrites
      <4>2. ~WritesNewGame
        BY <1>2, <2>3 DEF ResetsScore, WritesNewGame
      <4> QED
        BY <4>1, <4>2 DEF WritesIdle
    <3> QED
      BY <1>0, <1>1, <2>1, <3>1, <3>2, DebtsCarried
  <2> QED
    BY <2>2, <2>3
<1>4. CASE eList # {}
  <2>1. kbkb'.totalErased = kbkb.totalErased + Cardinality(eList)
        /\ Cardinality(eList) >= Kokeshi
    BY <1>4, EraseWrites DEF WritesErase
  <2>2. ~ResetsScore
    BY <1>0, <1>2, <2>1, ClusterAssumption DEF ResetsScore
  <2>3. garbage' = garbage /\ Owed' \subseteq erased \cup eList
    BY <2>2
  <2>4. Cardinality(Owed') <= kbkb'.totalErased
    <3>1. IsFiniteSet(erased) /\ IsFiniteSet(eList) /\ IsFiniteSet(erased \cup eList)
      <4>1. erased \cup eList \subseteq Names
        BY <1>0
      <4> QED
        BY <1>0, <4>1, ListFinite
    <3>2. Cardinality(erased \cup eList)
            = Cardinality(erased) + Cardinality(eList) - Cardinality(erased \cap eList)
      BY <3>1, FS_Union
    <3>3. Cardinality(erased \cap eList) \in Nat /\ Cardinality(erased) \in Nat
      BY <1>0, ListFinite
    <3>4. Cardinality(erased) <= kbkb.totalErased
      BY <1>1 DEF Debts
    <3>5. Cardinality(Owed') <= Cardinality(erased \cup eList)
      BY <2>3, <3>1, FS_Subset
    <3>6. Cardinality(Owed') \in Nat
      BY <2>3, <3>1, FS_Subset, FS_CardinalityType
    <3>7. Cardinality(erased \cup eList) <= kbkb.totalErased + Cardinality(eList)
      BY <1>0, <3>2, <3>3, <3>4
    <3>8. Cardinality(erased \cup eList) \in Nat
      BY <3>1, FS_CardinalityType
    <3> QED
      BY <1>0, <2>1, <3>5, <3>6, <3>7, <3>8
  <2>5. GarbageRate * (garbage + o) <= kbkb'.totalErased
    <3>1. o \in Nat /\ GarbageRate * o <= Cardinality(eList)
      BY <1>0, GarbageType
    <3>2. GarbageRate * (garbage + o) = GarbageRate * garbage + GarbageRate * o
      BY <1>0, <3>1, Scaled
    <3>3. GarbageRate * garbage <= kbkb.totalErased
      <4>1. garbage + eOjama = garbage
        BY <1>0, <1>1
      <4> QED
        BY <4>1 DEF Debts
    <3>4. GarbageRate * garbage \in Nat /\ GarbageRate * o \in Nat
      BY <1>0, <3>1, ScaledNat
    <3> QED
      BY <1>0, <2>1, <3>1, <3>2, <3>3, <3>4
  <2>6. garbage' = garbage /\ eOjama' = o
    BY <2>2
  <2> QED
    BY <2>4, <2>5, <2>6 DEF Debts
<1> QED
  BY <1>3, <1>4

\* Each step keeps the debts covered.
LEMMA DebtsStep ==
  ASSUME TypeOK, TypeOK', EraseInv, SpawnInv, Debts, [Next]_vars
  PROVE  Debts'
<1>0. /\ kbkb.totalErased \in Nat /\ kbkb'.totalErased \in Nat
      /\ garbage \in Nat /\ eOjama \in Nat /\ garbage' \in Nat /\ eOjama' \in Nat
  BY DEF TypeOK, ClusterTypeOK, EraseTypeOK, Kbkb
<1>1. CASE EraseReconcile
  <2>1. kbkb' = kbkb /\ Owed' = Owed /\ UNCHANGED << garbage, eOjama >>
    BY <1>1 DEF EraseReconcile, Owed
  <2> QED
    BY <1>0, <2>1, DebtsCarried
<1>2. CASE EraseUpdate
  <2>1. Owed' \subseteq erased' \cup eList
    BY <1>2 DEF EraseUpdate, Owed
  <2> QED
    BY <1>2, <2>1, DebtsWritten DEF EraseUpdate
<1>3. CASE EraseConflict
  <2>1. kbkb' = kbkb /\ Owed' \subseteq Owed /\ garbage' = garbage /\ eOjama' = 0
    BY <1>3 DEF EraseConflict, EraseFails, Owed
  <2> QED
    BY <1>0, <2>1, DebtsCarried
<1>4. CASE EraseUpdateFault
  <2>1. eOjama' = 0 /\ Owed' = erased'
    BY <1>4 DEF EraseUpdateFault, EraseFails, Owed
  <2>2. CASE NoUpdate /\ UNCHANGED << erased, garbage >>
    <3>1. kbkb' = kbkb /\ Owed' \subseteq Owed
      BY <2>1, <2>2 DEF NoUpdate, Owed
    <3> QED
      BY <1>0, <2>1, <2>2, <3>1, DebtsCarried
  <2>3. CASE /\ UpdateStatus(eKbkb)
             /\ erased' = IF ResetsScore THEN {} ELSE erased
             /\ garbage' = IF ResetsScore THEN 0 ELSE garbage
    <3>1. ePc = "update"
      BY <1>4 DEF EraseUpdateFault
    <3> QED
      BY <2>1, <2>3, <3>1, DebtsWritten
  <2> QED
    BY <1>4, <2>2, <2>3 DEF EraseUpdateFault
<1>5. ASSUME NEW p \in Names, ErasePod(p) \/ ErasePodFault(p) PROVE Debts'
  <2>1. /\ kbkb' = kbkb /\ UNCHANGED << garbage, eOjama >> /\ ePc = "delete"
        /\ eList' \subseteq eList /\ p \in eList /\ erased' \subseteq erased \cup {p}
    BY <1>5 DEF ErasePod, ErasePodFault, AfterDelete
  <2>2. Owed' \subseteq Owed
    BY <2>1 DEF Owed
  <2> QED
    BY <1>0, <2>1, <2>2, DebtsCarried
<1>6. CASE SendOjama
  <2>1. kbkb' = kbkb /\ Owed' \subseteq Owed
    BY <1>6 DEF SendOjama, Owed, clusterVars
  <2>2. garbage' = garbage + 1 /\ eOjama' = eOjama - 1
    BY <1>6 DEF SendOjama
  <2>3. garbage + 1 \in Nat /\ eOjama - 1 \in Nat
        /\ (garbage + 1) + (eOjama - 1) <= garbage + eOjama
    BY <1>0, <2>2
  <2>4. kbkb'.totalErased >= kbkb.totalErased
    BY <1>0, <2>1
  <2> DEFINE g == garbage + 1
             o == eOjama - 1
  <2>5. g \in Nat /\ o \in Nat /\ g = garbage' /\ o = eOjama'
        /\ g + o <= garbage + eOjama
    BY <2>2, <2>3
  <2> HIDE DEF g, o
  <2> QED
    BY <1>0, <2>1, <2>4, <2>5, DebtsCarried, Zenon
<1>7. CASE SendOjamaFault
  <2>1. kbkb' = kbkb /\ Owed' \subseteq Owed /\ eOjama > 0
    BY <1>7 DEF SendOjamaFault, EraseFails, Owed, EraseInv
  <2>2. PICK g \in {garbage, garbage + 1} : garbage' = g
    BY <1>7 DEF SendOjamaFault
  <2>3. eOjama' = 0 /\ g \in Nat /\ g + 0 <= garbage + eOjama
    BY <1>0, <1>7, <2>1, <2>2 DEF SendOjamaFault, EraseFails
  <2>4. kbkb'.totalErased >= kbkb.totalErased
    BY <1>0, <2>1
  <2>5. g = garbage' /\ 0 = eOjama' /\ 0 \in Nat
    BY <2>2, <2>3
  <2> QED
    BY <1>0, <2>1, <2>3, <2>4, <2>5, DebtsCarried, Zenon
<1>8. CASE UNCHANGED eraseVars /\ (kbkb' = kbkb \/ SpawnNext)
  <2>1. Owed' = Owed /\ UNCHANGED << garbage, eOjama >>
    BY <1>8 DEF eraseVars, Owed
  <2>2. kbkb'.totalErased = kbkb.totalErased
    <3>1. \/ kbkb' = kbkb
          \/ sPc = "update" /\ UpdateStatus(sKbkb)
      BY <1>8 DEF SpawnNext, SpawnReconcile, SpawnUpdate, SpawnConflict,
                  SpawnUpdateFault, SpawnPod, SpawnPodUncolored, SpawnPodFault,
                  AfterCreate, NoUpdate
    <3> QED
      BY <3>1, SpawnWrites DEF WritesGameOver
  <2> QED
    BY <1>0, <2>1, <2>2, DebtsCarried
<1>9. CASE (Informers \/ Kubelet \/ Players) /\ UNCHANGED << eraseVars, spawnVars >>
  <2>1. kbkb' = kbkb /\ UNCHANGED eraseVars
    BY <1>9 DEF Informers, SyncPods, SyncKbkb, Kubelet, Players, Run, Remove, Bind,
                CleanUp, OjamaArrives, othersUnchanged
  <2> QED
    BY <1>8, <2>1
<1>10. CASE Crash
  <2>1. kbkb' = kbkb /\ Owed' \subseteq Owed /\ garbage' = garbage /\ eOjama' = 0
    BY <1>10 DEF Crash, EraseCrash, Owed
  <2> QED
    BY <1>0, <2>1, DebtsCarried
<1>11. CASE UNCHANGED vars
  <2>1. kbkb' = kbkb /\ UNCHANGED eraseVars
    BY <1>11 DEF vars, clusterVars
  <2> QED
    BY <1>8, <2>1
<1> QED
  BY <1>1, <1>2, <1>3, <1>4, <1>5, <1>6, <1>7, <1>8, <1>9, <1>10, <1>11
     DEF Next, EraseNext

-----------------------------------------------------------------------------
(***************************************************************************)
(* The theorems.                                                           *)
(***************************************************************************)
\* A Kbkb just created has an empty status.
LEMMA NewKbkb ==
  ASSUME Init
  PROVE  /\ kbkb.phase = "" /\ kbkb.chain = 0 /\ kbkb.maxChain = 0
         /\ kbkb.totalErased = 0 /\ kbkb.allClears = 0
BY DEF Init, ClusterInit

LEMMA InitInv == Init => IInv
<1> SUFFICES ASSUME Init PROVE IInv
  OBVIOUS
<1>1. TypeOK
  BY InitType
<1>2. /\ kbkb.phase = "" /\ kbkb.chain = 0 /\ kbkb.maxChain = 0
      /\ kbkb.totalErased = 0 /\ kbkb.allClears = 0
  BY NewKbkb
<1>3. CopiesInv
  <2>1. kbkbCache = kbkb /\ kbkbFeed = << >>
    BY DEF Init, ClusterInit
  <2>2. kbkb.rv \in Nat
    BY <1>1 DEF TypeOK, ClusterTypeOK, Kbkb
  <2>3. DOMAIN kbkbFeed = {}
    BY <2>1
  <2>4. Copy(kbkbCache)
    BY <2>1, <2>2 DEF Copy
  <2> QED
    BY <2>3, <2>4 DEF CopiesInv
<1>4. EraseInv /\ SpawnInv
  <2>1. ePc = "idle" /\ eList = {} /\ eOjama = 0 /\ sPc = "idle" /\ sLeft = 0
    BY DEF Init, EraseInit, SpawnInit
  <2>2. EraseInv
    BY <2>1 DEF EraseInv
  <2>3. SpawnInv
    BY <2>1 DEF SpawnInv
  <2> QED
    BY <2>2, <2>3
<1>5. Debts
  <2>1. Owed = {} /\ garbage = 0 /\ eOjama = 0
    BY DEF Init, EraseInit, Owed
  <2>2. GarbageRate * (0 + 0) = 0
    BY EraseAssumption
  <2>3. Cardinality(Owed) = 0
    BY <2>1, FS_EmptySet
  <2>4. GarbageRate * (garbage + eOjama) = 0
    BY <2>1, <2>2
  <2>5. 0 <= 0
    OBVIOUS
  <2> QED
    BY <1>2, <2>3, <2>4, <2>5, Zenon DEF Debts
<1>6. Sums
  <2>1. Kokeshi * 0 = 0 /\ 0 <= 0
    BY ClusterAssumption
  <2>2. kbkb.phase # "Erasing"
    BY <1>2
  <2>3. ScoresConsistent
    BY <1>2, <2>1, <2>2, Zenon DEF ScoresConsistent
  <2> QED
    BY <2>2, <2>3 DEF Sums
<1> QED
  BY <1>1, <1>3, <1>4, <1>5, <1>6, ScoreInvParts DEF IInv

LEMMA InvStep == IInv /\ [Next]_vars => IInv'
<1> SUFFICES ASSUME IInv, [Next]_vars PROVE IInv'
  OBVIOUS
<1> USE DEF IInv
<1>1. TypeOK'
  BY TypeStep
<1>2. CopiesInv' /\ EraseInv' /\ SpawnInv'
  BY CopiesStep, EraseStep, SpawnStep
<1>3. Debts /\ Sums
  BY ScoreInvParts
<1>4. Debts'
  BY <1>1, <1>3, DebtsStep
<1>5. Sums'
  <2>1. kbkb \in Kbkb
    BY DEF TypeOK, ClusterTypeOK
  <2> QED
    BY <1>3, <2>1, WriteSteps, SumsStep
<1>6. ScoreInv'
  BY <1>4, <1>5 DEF ScoreInv, Debts, Sums
<1> QED
  BY <1>1, <1>2, <1>6

\* The inductive invariant: every computed status is computed from the version
\* it will be accepted on, and the score is ahead of the deletes and the garbage.
THEOREM Invariant == Spec => []IInv
BY InitInv, InvStep, PTL DEF Spec

\* No erased Pod is missing from TotalErased (kbkb_controller.go, erase: the
\* status is written before the deletes).
THEOREM ScoreCovers == Spec => []ScoreCoversErasures
<1>1. IInv => ScoreCoversErasures
  <2> SUFFICES ASSUME IInv PROVE ScoreCoversErasures
    OBVIOUS
  <2>1. /\ erased \subseteq Owed /\ Owed \subseteq Names /\ kbkb.totalErased \in Nat
        /\ Cardinality(Owed) <= kbkb.totalErased
    BY DEF IInv, TypeOK, ClusterTypeOK, EraseTypeOK, Kbkb, ScoreInv, Owed
  <2>2. Cardinality(erased) <= Cardinality(Owed) /\ Cardinality(Owed) \in Nat
        /\ Cardinality(erased) \in Nat
    BY <2>1, ListFinite, FS_Subset, FS_CardinalityType
  <2> QED
    BY <2>1, <2>2 DEF ScoreCoversErasures
<1> QED
  BY <1>1, Invariant, PTL

\* The opponent never gets more garbage than the erased Pods pay for
\* (kbkb_controller.go, sendOjama).
THEOREM GarbageIsPaid == Spec => []GarbagePaidFor
<1>1. IInv => GarbagePaidFor
  <2> SUFFICES ASSUME IInv PROVE GarbagePaidFor
    OBVIOUS
  <2>1. /\ GarbageRate \in Nat /\ garbage \in Nat /\ eOjama \in Nat
        /\ kbkb.totalErased \in Nat
        /\ GarbageRate * (garbage + eOjama) <= kbkb.totalErased
    BY EraseAssumption
       DEF IInv, TypeOK, ClusterTypeOK, EraseTypeOK, Kbkb, ScoreInv
  <2>2. /\ GarbageRate * (garbage + eOjama)
             = GarbageRate * garbage + GarbageRate * eOjama
        /\ GarbageRate * garbage \in Nat /\ GarbageRate * eOjama \in Nat
    BY <2>1, Scaled, ScaledNat
  <2> QED
    BY <2>1, <2>2 DEF GarbagePaidFor
<1> QED
  BY <1>1, Invariant, PTL

\* Every link of the longest chain erased a group and every all-clear ended a
\* chain, with two controllers writing the status.
THEOREM ScoresAreConsistent == Spec => []ScoresConsistent
<1>1. IInv => ScoresConsistent
  BY DEF IInv, ScoreInv
<1> QED
  BY <1>1, Invariant, PTL

\* A step of the game loop is a step of the score board, or leaves it alone.
LEMMA ScoreBoardStep ==
  ASSUME IInv, IInv', [Next]_vars
  PROVE  [ScoreBoard!Next]_<< kbkb.phase, kbkb.chain, ScoreBoard!scores >>
<1>0. kbkb.totalErased \in Nat /\ kbkb'.totalErased \in Nat /\ Kokeshi \in Nat
      /\ kbkb \in Kbkb
  BY ClusterAssumption DEF IInv, TypeOK, ClusterTypeOK, Kbkb
<1>1. CASE kbkb' = kbkb
  BY <1>1 DEF ScoreBoard!scores
<1>2. ASSUME NEW n \in Nat, n >= Kokeshi, WritesErase(n)
      PROVE  ScoreBoard!Erase
  BY <1>0, <1>2 DEF WritesErase, ScoreBoard!Erase
<1>3. CASE WritesIdle
  <2>1. kbkb.phase \in {"", "Erasing"}
    BY <1>0, <1>3 DEF WritesIdle, Kbkb, Phases
  <2>2. CASE kbkb.phase = "Erasing"
    BY <1>3, <2>2 DEF WritesIdle, ScoreBoard!EndChain, ScoreBoard!Next
  <2>3. CASE kbkb.phase = ""
    BY <1>3, <2>3
       DEF WritesIdle, ScoreBoard!FirstIdle, ScoreBoard!Next, ScoreBoard!scores
  <2> QED
    BY <2>1, <2>2, <2>3
<1>4. CASE WritesNewGame
  BY <1>4 DEF WritesNewGame, ScoreBoard!NewGame, ScoreBoard!Next
<1>5. CASE WritesGameOver
  BY <1>5
     DEF WritesGameOver, ScoreBoard!GameOver, ScoreBoard!Next, ScoreBoard!scores
<1> QED
  BY <1>1, <1>2, <1>3, <1>4, <1>5, WriteSteps DEF IInv, ScoreBoard!Next

\* What the two controllers write to the status, from copies of any age and
\* whatever fails, is one game (Score) played one step after the other.
THEOREM StatusIsOneGame == Spec => OneGame
<1>1. Init => ScoreBoard!Init
  BY NewKbkb DEF ScoreBoard!Init
<1> QED
  BY <1>1, ScoreBoardStep, Invariant, PTL DEF Spec, OneGame, ScoreBoard!Spec
=============================================================================
