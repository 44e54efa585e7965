-------------------------- MODULE PlayedGameProofs --------------------------
(***************************************************************************)
(* Proofs about the played game: its types.  The lemmas that carry them    *)
(* bring the types of the game loop over, as its steps are steps of the    *)
(* game loop.                                                              *)
(***************************************************************************)
EXTENDS PlayedGame, GameLoopProofs

\* A plan puts Pods onto nodes, and is not longer than a pair.
PlanInv ==
  /\ plan \in Seq(Placement) /\ Len(plan) <= Pair
  /\ misses \in 0 .. MaxFaults

PlayedInv == TypeOK /\ PlanInv

LEMMA WaitingNames == Waiting \subseteq Names
BY DEF Waiting, Unscheduled, Live

LEMMA PlayPairPlans == ASSUME TypeOK, PlanInv, PlayPair PROVE PlanInv'
<1>1. PICK kb \in BOOLEAN, again \in BOOLEAN :
        /\ misses' = IF kb /\ again THEN misses ELSE misses + 1
        /\ misses' + faults <= MaxFaults
        /\ \E q \in FirstPair, x \in PairFits(kb) :
             plan' = IF x \in PairFits(again)
                     THEN [i \in 1 .. Pair |-> [pod |-> q[i], node |-> x[i]]]
                     ELSE << >>
  BY DEF PlayPair
<1>2. PICK q \in FirstPair, x \in PairFits(kb) :
        plan' = IF x \in PairFits(again)
                THEN [i \in 1 .. Pair |-> [pod |-> q[i], node |-> x[i]]]
                ELSE << >>
  BY <1>1
<1>3. misses' \in 0 .. MaxFaults
  BY <1>1, ClusterAssumption DEF PlanInv, TypeOK, ClusterTypeOK
<1>4. Pair \in Nat
  BY SpawnAssumption
<1>5. CASE plan' = << >>
  BY <1>3, <1>4, <1>5, EmptySeq DEF PlanInv
<1>6. CASE plan' = [i \in 1 .. Pair |-> [pod |-> q[i], node |-> x[i]]]
  <2>1. q \in [1 .. Pair -> Waiting] /\ x \in [1 .. Pair -> ColumnsFor(kb)]
    BY DEF FirstPair, PairFits
  <2>2. ColumnsFor(kb) \subseteq DOMAIN Nodes
    BY DEF ColumnsFor, Columns, SelectNodes
  <2>3. \A i \in 1 .. Pair : q[i] \in Names /\ x[i] \in DOMAIN Nodes
    BY <2>1, <2>2, WaitingNames
  <2>4. \A i \in 1 .. Pair : [pod |-> q[i], node |-> x[i]] \in Placement
    BY <2>3 DEF Placement
  <2>5. plan' \in [1 .. Pair -> Placement]
    BY <1>6, <2>4
  <2>6. plan' \in Seq(Placement) /\ Len(plan') = Pair
    BY <1>4, <2>5, SeqDef, LenProperties
  <2> QED
    BY <1>3, <1>4, <2>6 DEF PlanInv
<1> QED
  BY <1>2, <1>5, <1>6

LEMMA BindNextPlans ==
  ASSUME PlanInv, BindNext
  PROVE  PlanInv' /\ Head(plan).pod \in Names /\ Head(plan).node \in DOMAIN Nodes
<1>1. plan \in Seq(Placement) /\ plan # << >> /\ Len(plan) <= Pair
  BY DEF PlanInv, BindNext
<1>2. /\ Head(plan) \in Placement /\ Tail(plan) \in Seq(Placement)
      /\ Len(Tail(plan)) = Len(plan) - 1
  BY <1>1, HeadTailProperties
<1>3. Len(plan) \in Nat /\ Pair \in Nat
  BY <1>1, LenProperties, SpawnAssumption
<1>4. plan' = Tail(plan) /\ misses' = misses
  BY DEF BindNext
<1> QED
  BY <1>1, <1>2, <1>3, <1>4 DEF PlanInv, Placement

LEMMA BindFailsPlans == ASSUME TypeOK, PlanInv, BindFails PROVE PlanInv'
<1>1. << >> \in Seq(Placement) /\ Len(<< >>) = 0
  BY EmptySeq
<1>2. plan' = << >>
  BY DEF BindFails
<1>3. misses' \in 0 .. MaxFaults
  <2>1. faults \in 0 .. MaxFaults /\ misses \in 0 .. MaxFaults
    BY DEF TypeOK, ClusterTypeOK, PlanInv
  <2>2. misses' = misses \/ (misses + faults < MaxFaults /\ misses' = misses + 1)
    BY DEF BindFails
  <2> QED
    BY <2>1, <2>2, ClusterAssumption
<1>4. Pair \in Nat
  BY SpawnAssumption
<1> QED
  BY <1>1, <1>2, <1>3, <1>4 DEF PlanInv

\* Every step of the played game is one of the game loop, or leaves it alone.
LEMMA PlaysByTheRules == PlanInv /\ [PlayedNext]_playedVars => [Next]_vars
<1> SUFFICES ASSUME PlanInv, [PlayedNext]_playedVars PROVE [Next]_vars
  OBVIOUS
<1>1. CASE PlayPair \/ BindFails
  BY <1>1 DEF PlayPair, BindFails
<1>2. CASE BindNext
  <2>1. Head(plan).pod \in Names /\ Head(plan).node \in DOMAIN Nodes
    BY <1>2, BindNextPlans
  <2>2. Bind(Head(plan).pod, Head(plan).node) /\ UNCHANGED << eraseVars, spawnVars >>
    BY <1>2 DEF BindNext
  <2> QED
    BY <2>1, <2>2 DEF Next, Players
<1>3. CASE Manager \/ Others \/ Crash
  BY <1>3 DEF Manager, Others, Next, Players
<1>4. CASE UNCHANGED playedVars
  BY <1>4 DEF playedVars
<1> QED
  BY <1>1, <1>2, <1>3, <1>4 DEF PlayedNext

LEMMA PlanStep == TypeOK /\ PlanInv /\ [PlayedNext]_playedVars => PlanInv'
<1>1. CASE (Manager \/ Others \/ Crash) /\ UNCHANGED << plan, misses >>
  BY <1>1 DEF PlanInv
<1>2. CASE UNCHANGED playedVars
  BY <1>2 DEF PlanInv, playedVars
<1> QED
  BY <1>1, <1>2, PlayPairPlans, BindNextPlans, BindFailsPlans DEF PlayedNext

LEMMA PlayedInductive == PlayedSpec => []PlayedInv
<1>1. PlayedInit => PlayedInv
  <2>1. << >> \in Seq(Placement) /\ Len(<< >>) = 0
    BY EmptySeq
  <2> QED
    BY <2>1, InitType, SpawnAssumption, ClusterAssumption DEF PlayedInit, PlayedInv, PlanInv
<1>2. PlayedInv /\ [PlayedNext]_playedVars => PlayedInv'
  BY PlaysByTheRules, PlanStep, TypeStep DEF PlayedInv
<1> QED
  BY <1>1, <1>2, PTL DEF PlayedSpec

\* Types of the played game: a plan is never longer than a pair, and the failed
\* requests of the scheduler stay within their bound.
THEOREM PlayedTypeCorrect == PlayedSpec => []PlayedTypeOK
<1>1. PlayedInv => PlayedTypeOK
  BY DEF PlayedInv, PlanInv, PlayedTypeOK
<1> QED
  BY <1>1, PlayedInductive, PTL
=============================================================================
