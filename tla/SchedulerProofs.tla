-------------------------- MODULE SchedulerProofs --------------------------
(***************************************************************************)
(* Proofs about the scheduler, for any number of Pods, nodes and           *)
(* undelivered events.  With clients and faults: its types, and that       *)
(* autoDrop stays on the columns of the Kbkb until two requests have       *)
(* failed.  For the loop on its own, that what it binds lands on top,      *)
(* whatever fails; and that what it has bound keeps its place until a      *)
(* request fails.  For one thread that drops pairs, the loop or a client,  *)
(* that they land as chosen, whatever fails, and, without garbage, on      *)
(* top; and that they leave full columns alone for as long as pairs have   *)
(* come one at a time, without garbage and failed requests.                *)
(***************************************************************************)
EXTENDS SchedulerHistory, FunctionTheorems, FiniteSetTheorems, SequenceTheorems,
        WellFoundedInduction, TLAPS

-----------------------------------------------------------------------------
(***************************************************************************)
(* The oldest first.                                                       *)
(***************************************************************************)
LEMMA NamesFinite ==
  /\ IsFiniteSet(Names) /\ Names \subseteq Nat
  /\ \A S \in SUBSET Names : IsFiniteSet(S) /\ Cardinality(S) \in Nat
<1>1. MaxPods \in Nat
  BY SchedulerAssumption
<1>2. IsFiniteSet(Names) /\ Names \subseteq Nat
  BY <1>1, FS_Interval DEF Names
<1>3. ASSUME NEW S \in SUBSET Names PROVE IsFiniteSet(S) /\ Cardinality(S) \in Nat
  BY <1>2, FS_Subset, FS_CardinalityType
<1> QED
  BY <1>2, <1>3

Rank(S, p) == Cardinality({ q \in S : q < p })

LEMMA RankType ==
  ASSUME NEW S \in SUBSET Names, NEW p \in S
  PROVE  Rank(S, p) \in 0 .. Cardinality(S) - 1
<1> DEFINE T == { q \in S : q < p }
<1>1. T \in SUBSET S /\ p \notin T
  BY NamesFinite
<1> HIDE DEF T
<1>2. IsFiniteSet(S) /\ Cardinality(S) \in Nat /\ Cardinality(T) \in Nat
  BY <1>1, NamesFinite
<1>3. Cardinality(T) <= Cardinality(S) /\ Cardinality(T) # Cardinality(S)
  BY <1>1, <1>2, FS_Subset
<1>4. Cardinality(T) \in 0 .. Cardinality(S) - 1
  BY <1>2, <1>3
<1> QED
  BY <1>4 DEF Rank, T

LEMMA RankLess ==
  ASSUME NEW S \in SUBSET Names, NEW p \in S, NEW q \in S, p < q
  PROVE  Rank(S, p) < Rank(S, q)
<1> DEFINE T == { r \in S : r < p }  U == { r \in S : r < q }
<1>0. \A r \in S : r \in Nat
  BY NamesFinite
<1>1. T \in SUBSET U /\ p \in U /\ p \notin T /\ U \in SUBSET Names
  BY <1>0
<1> HIDE DEF T, U
<1>2. IsFiniteSet(U) /\ Cardinality(U) \in Nat /\ Cardinality(T) \in Nat
  BY <1>1, NamesFinite
<1>3. Cardinality(T) <= Cardinality(U) /\ Cardinality(T) # Cardinality(U)
  BY <1>1, <1>2, FS_Subset
<1>4. Cardinality(T) < Cardinality(U)
  BY <1>2, <1>3
<1> QED
  BY <1>4 DEF Rank, T, U

LEMMA RankOnto ==
  ASSUME NEW S \in SUBSET Names, NEW k \in 0 .. Cardinality(S) - 1
  PROVE  \E p \in S : Rank(S, p) = k
<1> DEFINE T == 0 .. Cardinality(S) - 1
           f == [p \in S |-> Rank(S, p)]
<1>1. IsFiniteSet(S) /\ Cardinality(S) \in Nat
  BY NamesFinite
<1>2. f \in [S -> T]
  BY RankType
<1>3. ASSUME NEW p \in S, NEW q \in S, p # q PROVE f[p] # f[q]
  <2>1. p \in Nat /\ q \in Nat
    BY NamesFinite
  <2>2. f[p] \in Int /\ f[q] \in Int
    BY RankType
  <2>3. p < q \/ q < p
    BY <1>3, <2>1
  <2>4. f[p] < f[q] \/ f[q] < f[p]
    BY <2>3, RankLess
  <2> QED
    BY <2>2, <2>4
<1>4. IsFiniteSet(T) /\ Cardinality(T) = Cardinality(S)
  <2>1. 0 \in Int /\ Cardinality(S) - 1 \in Int
    BY <1>1
  <2>2. IsFiniteSet(T) /\ Cardinality(T) = IF 0 > Cardinality(S) - 1 THEN 0 ELSE Cardinality(S) - 1 - 0 + 1
    BY <2>1, FS_Interval
  <2> QED
    BY <1>1, <2>2
<1> HIDE DEF f, T
<1>5. f \in Injection(S, T)
  BY <1>2, <1>3, Fun_IsInj
<1>6. f \in Surjection(S, T)
  BY <1>4, <1>5, FS_Injection
<1>7. \A t \in T : \E p \in S : f[p] = t
  BY <1>6, Fun_SurjectionProperties
<1>8. PICK p \in S : f[p] = k
  BY <1>7 DEF T
<1> QED
  BY <1>8 DEF f

\* A queue names each of its Pods once.
LEMMA OldestOrdered ==
  ASSUME NEW S \in SUBSET Names
  PROVE  /\ Oldest(S) \in Seq(S) /\ Len(Oldest(S)) = Cardinality(S)
         /\ \A i, j \in 1 .. Cardinality(S) : i # j => Oldest(S)[i] # Oldest(S)[j]
<1> DEFINE n == Cardinality(S)
           f == Oldest(S)
<1>1. n \in Nat
  BY NamesFinite
<1>2. f = [i \in 1 .. n |-> CHOOSE p \in S : Rank(S, p) = i - 1]
  BY DEF Oldest, Rank
<1>3. ASSUME NEW i \in 1 .. n PROVE f[i] \in S /\ Rank(S, f[i]) = i - 1
  <2>1. i - 1 \in 0 .. n - 1
    BY <1>1
  <2> QED
    BY <1>2, <2>1, RankOnto
<1>4. f \in [1 .. n -> S]
  BY <1>2, <1>3
<1> HIDE DEF f, n
<1>5. f \in Seq(S) /\ Len(f) = n
  BY <1>1, <1>4
<1>6. ASSUME NEW i \in 1 .. n, NEW j \in 1 .. n, i # j PROVE f[i] # f[j]
  <2>1. i - 1 # j - 1
    BY <1>6
  <2> QED
    BY <1>3, <2>1
<1> QED
  BY <1>5, <1>6 DEF f, n

-----------------------------------------------------------------------------
(***************************************************************************)
(* Stamps.                                                                 *)
(***************************************************************************)
LEMMA HasGreatest ==
  ASSUME NEW n \in Nat, NEW g \in [1 .. n -> Int], NEW p \in 1 .. n
  PROVE  \E m \in 1 .. n : \A i \in 1 .. n : g[i] <= g[m]
<1> DEFINE Good(k) == \E m \in 1 .. k : \A i \in 1 .. k : g[i] <= g[m]
           Bad == { k \in 1 .. n : ~Good(k) }
<1>1. SUFFICES Bad = {}
  <2>1. n \in 1 .. n
    OBVIOUS
  <2> QED
    BY <1>1, <2>1
<1>2. SUFFICES ASSUME Bad # {} PROVE FALSE
  OBVIOUS
<1> DEFINE R == OpToRel(<, Nat)
<1>3. IsWellFoundedOn(R, Nat)
  BY NatLessThanWellFounded
<1>4. \A x, y \in Nat : << x, y >> \in R <=> x < y
  BY DEF OpToRel
<1>5. Bad \subseteq Nat
  OBVIOUS
<1> HIDE DEF R, Bad
<1>6. PICK k \in Bad : \A j \in Bad : ~(<< j, k >> \in R)
  BY <1>2, <1>3, <1>5, WFMin
<1>7. k \in 1 .. n /\ ~Good(k)
  BY DEF Bad
<1>8. CASE k = 1
  <2>1. 1 \in 1 .. k /\ \A i \in 1 .. k : i = 1
    BY <1>8
  <2>2. g[1] \in Int
    BY <1>7, <1>8
  <2>3. g[1] <= g[1]
    BY <2>2
  <2> QED
    BY <1>7, <2>1, <2>3
<1>9. CASE k # 1
  <2>1. k - 1 \in 1 .. n /\ k - 1 < k /\ k - 1 \in Nat /\ k \in Nat
    BY <1>7, <1>9
  <2>2. k - 1 \notin Bad
    BY <1>4, <1>6, <2>1
  <2>3. Good(k - 1)
    BY <2>1, <2>2 DEF Bad
  <2>4. PICK m \in 1 .. k - 1 : \A i \in 1 .. k - 1 : g[i] <= g[m]
    BY <2>3
  <2>5. m \in 1 .. n /\ m \in 1 .. k /\ k \in 1 .. k
        /\ \A i \in 1 .. k : i = k \/ i \in 1 .. k - 1
    BY <1>7, <2>1
  <2>6. \A i \in 1 .. k : g[i] \in Int
    BY <1>7
  <2>7. CASE g[k] <= g[m]
    BY <1>7, <2>4, <2>5, <2>6, <2>7
  <2>8. CASE ~(g[k] <= g[m])
    <3>1. \A i \in 1 .. k : g[i] <= g[k]
      BY <2>4, <2>5, <2>6, <2>8
    <3> QED
      BY <1>7, <2>5, <3>1
  <2> QED
    BY <2>7, <2>8
<1> QED
  BY <1>8, <1>9

Orders == Nat \cup {NoStamp}

\* The ranks above old close up.
Shifted(old, o) == IF old # NoStamp /\ o > old THEN o - 1 ELSE o

LEMMA ShiftedOrders ==
  ASSUME NEW old \in Orders, NEW o \in Orders
  PROVE  /\ Shifted(old, o) \in Orders
         /\ Shifted(old, o) = NoStamp <=> o = NoStamp
         /\ \A r \in Orders : o # old /\ r # old =>
              (Shifted(old, o) < Shifted(old, r) <=> o < r)
         /\ \A r \in Orders : o # old /\ r # old =>
              (Shifted(old, o) = Shifted(old, r) <=> o = r)
BY DEF Shifted, Orders, NoStamp

\* The Pod that is stamped gets the newest order; the others keep theirs among
\* themselves, and nothing else changes.
LEMMA StampNewest ==
  ASSUME NEW p \in Names, pods \in [Names -> Pod], Stamp(p)
  PROVE  /\ pods' \in [Names -> Pod]
         /\ \A q \in Names :
              \E o \in Orders : pods'[q] = [pods[q] EXCEPT !.order = o]
         /\ pods'[p].order \in Nat
         /\ \A q \in Names \ {p} :
              /\ pods'[q].order = Shifted(pods[p].order, pods[q].order)
              /\ pods'[q].order < pods'[p].order
<1> DEFINE old == pods[p].order
           g == [q \in Names |-> IF q = p THEN 0 ELSE Shifted(old, pods[q].order)]
           S == { Shifted(old, o) : o \in { pods[q].order : q \in Names \ {p} } } \cup {0}
<1>1. \A q \in Names : pods[q].order \in Orders /\ pods[q] \in Pod
  BY DEF Pod, Orders
<1>2. g \in [Names -> Int]
  BY <1>1, ShiftedOrders DEF Orders, NoStamp
<1>3. PICK m \in Names : \A q \in Names : g[q] <= g[m]
  BY <1>2, HasGreatest, SchedulerAssumption DEF Names
<1>4. S = { g[q] : q \in Names }
  OBVIOUS
<1>5. pods' = [q \in Names |->
                [pods[q] EXCEPT !.order =
                   IF q = p THEN 1 + Max(S) ELSE Shifted(old, pods[q].order)]]
  BY DEF Stamp, Shifted
<1>6. \A q \in Names \ {p} : g[q] = Shifted(old, pods[q].order)
  OBVIOUS
<1>7. g[p] = 0
  OBVIOUS
<1> HIDE DEF g, S
<1>8. g[m] \in S /\ \A y \in S : g[m] >= y
  <2>1. \A q \in Names : g[q] \in Int
    BY <1>2
  <2> QED
    BY <1>3, <1>4, <2>1
<1>9. Max(S) \in S /\ \A y \in S : Max(S) >= y
  BY <1>8 DEF Max
<1>10. Max(S) \in Int /\ \A q \in Names : g[q] \in Int /\ Max(S) >= g[q]
  BY <1>2, <1>4, <1>9
<1>11. 1 + Max(S) \in Nat /\ \A q \in Names : g[q] < 1 + Max(S)
  BY <1>7, <1>10
<1>12. \A q \in Names \ {p} : Shifted(old, pods[q].order) \in Orders
  BY <1>1, ShiftedOrders
<1>13. \A q \in Names : (IF q = p THEN 1 + Max(S) ELSE Shifted(old, pods[q].order)) \in Orders
  BY <1>11, <1>12 DEF Orders
<1>14. \A q \in Names : pods'[q] \in Pod
  BY <1>1, <1>5, <1>13 DEF Pod, Orders
<1>15. /\ pods'[p].order = 1 + Max(S)
       /\ \A q \in Names \ {p} : pods'[q].order = Shifted(old, pods[q].order)
  BY <1>1, <1>5 DEF Pod
<1> QED
  BY <1>5, <1>6, <1>11, <1>13, <1>14, <1>15

-----------------------------------------------------------------------------
(***************************************************************************)
(* Types.                                                                  *)
(***************************************************************************)
StoreOK ==
  /\ pods \in [Names -> Pod] /\ podCache \in [Names -> Pod]
  /\ podFeed \in Seq([pod : Names, now : Pod])
  /\ created \in 0 .. MaxPods
  /\ inflight \subseteq Names

Steps == {"idle", "list", "auto", "check", "patch", "bind"}

ThreadsOK ==
  /\ mode \in Modes
  /\ pc \in [Threads -> Steps]
  /\ listed \in [Players -> SUBSET Names]
  /\ todo \in [Threads -> Seq(Placement)]
  /\ \A c \in Threads : pc[c] \in {"check", "patch", "bind"} <=> todo[c] # << >>
  /\ raining \in BOOLEAN

HistoryOK == chosen \subseteq Names \X Names /\ faults \in 0 .. MaxFaults

LEMMA TypeParts == TypeOK <=> StoreOK /\ ThreadsOK /\ HistoryOK
BY DEF TypeOK, StoreOK, ThreadsOK, HistoryOK, Steps

LEMMA GoneIsPod == Gone \in Pod /\ Gone.phase = "Gone" /\ Gone.node = NoNode
                   /\ Gone.order = NoStamp
BY DEF Gone, Pod, NoNode, NoStamp

LEMMA LoopIsThread == "loop" \in Threads /\ Players \subseteq Threads /\ "loop" \notin Players
BY SchedulerAssumption DEF Threads

LEMMA UnorderedIsPod ==
  ASSUME NEW pod \in Pod
  PROVE  /\ Unordered(pod) \in Pod /\ Unordered(pod).phase = pod.phase
         /\ Unordered(pod).node = pod.node
BY DEF Unordered, Pod

LEMMA WriteType ==
  ASSUME StoreOK, NEW p \in Names, NEW pod \in Pod, Write(p, pod)
  PROVE  /\ pods' \in [Names -> Pod]
         /\ podFeed' \in Seq([pod : Names, now : Pod])
<1>1. pods' \in [Names -> Pod]
  BY DEF StoreOK, Write
<1>2. [pod |-> p, now |-> Unordered(pod)] \in [pod : Names, now : Pod]
  BY UnorderedIsPod
<1>3. podFeed' \in Seq([pod : Names, now : Pod])
  BY <1>2 DEF StoreOK, Write
<1> QED
  BY <1>1, <1>3

LEMMA FaultType == ASSUME HistoryOK, Fault PROVE faults' \in 0 .. MaxFaults
BY SchedulerAssumption DEF HistoryOK, Fault

LEMMA ReadsType == ASSUME HistoryOK, NEW kb, ReadsKbkb(kb) PROVE faults' \in 0 .. MaxFaults
BY FaultType DEF ReadsKbkb, HistoryOK

\* A thread goes on with other placements, or with none.
LEMMA ThreadMoves ==
  ASSUME ThreadsOK, NEW c \in Threads, NEW next \in Steps, NEW rest \in Seq(Placement),
         next \in {"check", "patch", "bind"} <=> rest # << >>,
         pc' = [pc EXCEPT ![c] = next], todo' = [todo EXCEPT ![c] = rest]
  PROVE  /\ pc' \in [Threads -> Steps] /\ todo' \in [Threads -> Seq(Placement)]
         /\ \A d \in Threads : pc'[d] \in {"check", "patch", "bind"} <=> todo'[d] # << >>
<1>1. pc' \in [Threads -> Steps] /\ todo' \in [Threads -> Seq(Placement)]
  BY DEF ThreadsOK
<1>2. ASSUME NEW d \in Threads
      PROVE  pc'[d] \in {"check", "patch", "bind"} <=> todo'[d] # << >>
  <2>1. CASE d = c
    BY <2>1 DEF ThreadsOK
  <2>2. CASE d # c
    BY <2>2 DEF ThreadsOK
  <2> QED
    BY <2>1, <2>2
<1> QED
  BY <1>1, <1>2

\* It goes on with what it has.
LEMMA ThreadGoesOn ==
  ASSUME ThreadsOK, NEW c \in Threads, NEW next \in Steps,
         next \in {"check", "patch", "bind"} <=> pc[c] \in {"check", "patch", "bind"},
         pc' = [pc EXCEPT ![c] = next], UNCHANGED todo
  PROVE  /\ pc' \in [Threads -> Steps] /\ todo' \in [Threads -> Seq(Placement)]
         /\ \A d \in Threads : pc'[d] \in {"check", "patch", "bind"} <=> todo'[d] # << >>
<1>1. todo' = [todo EXCEPT ![c] = todo[c]]
  BY DEF ThreadsOK
<1>2. todo[c] \in Seq(Placement) /\ (pc[c] \in {"check", "patch", "bind"} <=> todo[c] # << >>)
  BY DEF ThreadsOK
<1> QED
  BY <1>1, <1>2, ThreadMoves

LEMMA DoneType ==
  ASSUME ThreadsOK, NEW c \in Threads, Done(c), UNCHANGED << mode, listed >>
  PROVE  ThreadsOK'
<1> DEFINE next == IF c = "loop" /\ raining THEN "auto" ELSE "idle"
<1>1. next \in Steps /\ next \notin {"check", "patch", "bind"}
  BY DEF Steps
<1>2. << >> \in Seq(Placement)
  BY EmptySeq
<1>3. pc' = [pc EXCEPT ![c] = next] /\ todo' = [todo EXCEPT ![c] = << >>]
  BY DEF Done
<1> HIDE DEF next
<1>4. /\ pc' \in [Threads -> Steps] /\ todo' \in [Threads -> Seq(Placement)]
      /\ \A d \in Threads : pc'[d] \in {"check", "patch", "bind"} <=> todo'[d] # << >>
  BY <1>1, <1>2, <1>3, ThreadMoves
<1>5. raining' \in BOOLEAN
  BY DEF Done, ThreadsOK
<1> QED
  BY <1>4, <1>5 DEF ThreadsOK

LEMMA FailsType ==
  ASSUME ThreadsOK, HistoryOK, NEW c \in Threads, Fails(c), UNCHANGED << mode, listed >>
  PROVE  ThreadsOK' /\ chosen' \subseteq Names \X Names
<1>1. ThreadsOK'
  BY DoneType DEF Fails
<1>2. chosen' \subseteq chosen
  BY DEF Fails, Forget
<1> QED
  BY <1>1, <1>2 DEF HistoryOK

LEMMA TodoParts ==
  ASSUME ThreadsOK, NEW c \in Threads, pc[c] \in {"check", "patch", "bind"}
  PROVE  /\ todo[c] \in Seq(Placement) /\ todo[c] # << >>
         /\ Head(todo[c]) \in Placement
         /\ Head(todo[c]).pod \in Names /\ Head(todo[c]).node \in DOMAIN Nodes
         /\ Tail(todo[c]) \in Seq(Placement) /\ Len(Tail(todo[c])) = Len(todo[c]) - 1
         /\ Len(todo[c]) \in Nat \ {0}
<1>1. todo[c] \in Seq(Placement) /\ todo[c] # << >>
  BY DEF ThreadsOK
<1>2. /\ Head(todo[c]) \in Placement /\ Tail(todo[c]) \in Seq(Placement)
      /\ Len(Tail(todo[c])) = Len(todo[c]) - 1
  BY <1>1, HeadTailProperties
<1>3. Len(todo[c]) \in Nat \ {0}
  BY <1>1, EmptySeq
<1> QED
  BY <1>1, <1>2, <1>3 DEF Placement

LEMMA AdvanceType ==
  ASSUME ThreadsOK, NEW c \in Threads, pc[c] = "bind", Advance(c), UNCHANGED << mode, listed >>
  PROVE  ThreadsOK'
<1>1. CASE Len(todo[c]) = 1
  BY <1>1, DoneType DEF Advance
<1>2. CASE Len(todo[c]) # 1
  <2>1. Tail(todo[c]) \in Seq(Placement) /\ Len(Tail(todo[c])) # 0
    BY <1>2, TodoParts
  <2>2. Tail(todo[c]) # << >>
    <3>1. Len(<< >>) = 0
      OBVIOUS
    <3> QED
      BY <2>1, <3>1
  <2>3. /\ todo' = [todo EXCEPT ![c] = Tail(todo[c])]
        /\ pc' = [pc EXCEPT ![c] = "patch"] /\ UNCHANGED raining
    BY <1>2 DEF Advance
  <2>4. /\ pc' \in [Threads -> Steps] /\ todo' \in [Threads -> Seq(Placement)]
        /\ \A d \in Threads : pc'[d] \in {"check", "patch", "bind"} <=> todo'[d] # << >>
    <3>1. "patch" \in Steps
      BY DEF Steps
    <3> QED
      BY <2>1, <2>2, <2>3, <3>1, ThreadMoves
  <2> QED
    BY <2>3, <2>4 DEF ThreadsOK
<1> QED
  BY <1>1, <1>2

LEMMA ChangedPods ==
  ASSUME NEW pod \in Pod
  PROVE  /\ \A n \in DOMAIN Nodes : [pod EXCEPT !.node = n] \in Pod
         /\ [pod EXCEPT !.phase = "Running", !.ready = TRUE] \in Pod
         /\ [pod EXCEPT !.deleting = TRUE] \in Pod
BY DEF Pod

\* Lists of Pods put onto columns are placements.
LEMMA ColumnsAreNodes == \A kb \in BOOLEAN : ColumnsFor(kb) \subseteq DOMAIN Nodes
BY DEF ColumnsFor, SelectNodes

LEMMA OntoType ==
  ASSUME NEW n \in Nat, NEW list, \A i \in 1 .. n : list[i] \in Names,
         NEW columns \in SUBSET DOMAIN Nodes, NEW x \in Onto(list, n, columns)
  PROVE  /\ x \in Seq(Placement) /\ Len(x) = n
         /\ \A i \in 1 .. n : x[i].pod = list[i]
<1>1. PICK y \in [1 .. n -> columns] :
        x = [i \in 1 .. n |-> [pod |-> list[i], node |-> y[i]]]
  BY DEF Onto
<1>2. x \in [1 .. n -> Placement]
  BY <1>1 DEF Placement
<1> QED
  BY <1>1, <1>2

LEMMA QueueType ==
  ASSUME StoreOK
  PROVE  /\ Pending \subseteq Names
         /\ Queue \in Seq(Names) /\ Ojama \in Seq(Names)
         /\ \A i, j \in 1 .. Len(Queue) : i # j => Queue[i] # Queue[j]
         /\ \A i, j \in 1 .. Len(Ojama) : i # j => Ojama[i] # Ojama[j]
         /\ \A i \in 1 .. Len(Queue) : Queue[i] \in Pending
         /\ \A i \in 1 .. Len(Ojama) : Ojama[i] \in Pending
<1> DEFINE S == { p \in Pending : ~podCache[p].ojama }
           T == { p \in Pending : podCache[p].ojama }
<1>1. Pending \subseteq Names
  BY DEF Pending, Unbound
<1>2. Queue = Oldest(S) /\ Ojama = Oldest(T)
  BY DEF Queue, Ojama
<1>3. S \in SUBSET Names /\ T \in SUBSET Names /\ S \subseteq Pending /\ T \subseteq Pending
  BY <1>1
<1> HIDE DEF S, T
<1>4. /\ Queue \in Seq(S) /\ Len(Queue) = Cardinality(S)
      /\ Ojama \in Seq(T) /\ Len(Ojama) = Cardinality(T)
      /\ \A i, j \in 1 .. Cardinality(S) : i # j => Queue[i] # Queue[j]
      /\ \A i, j \in 1 .. Cardinality(T) : i # j => Ojama[i] # Ojama[j]
  BY <1>2, <1>3, OldestOrdered
<1>5. /\ \A i \in 1 .. Len(Queue) : Queue[i] \in S
      /\ \A i \in 1 .. Len(Ojama) : Ojama[i] \in T
  BY <1>4, ElementOfSeq
<1>6. Queue \in [1 .. Len(Queue) -> S] /\ Ojama \in [1 .. Len(Ojama) -> T]
      /\ Len(Queue) \in Nat /\ Len(Ojama) \in Nat
  BY <1>4, LenProperties
<1>7. Queue \in Seq(Names) /\ Ojama \in Seq(Names)
  <2>1. Queue \in [1 .. Len(Queue) -> Names] /\ Ojama \in [1 .. Len(Ojama) -> Names]
    BY <1>3, <1>6
  <2> QED
    BY <1>6, <2>1
<1> QED
  BY <1>1, <1>3, <1>4, <1>5, <1>7

LEMMA RememberType ==
  ASSUME HistoryOK, NEW placements \in Seq(Placement)
  PROVE  Remember(placements) \subseteq Names \X Names
<1>1. \A i \in DOMAIN placements : placements[i].pod \in Names
  <2>1. placements \in [1 .. Len(placements) -> Placement]
    BY LenProperties
  <2> QED
    BY <2>1 DEF Placement
<1>2. ASSUME NEW ij \in (DOMAIN placements) \X (DOMAIN placements)
      PROVE  << placements[ij[1]].pod, placements[ij[2]].pod >> \in Names \X Names
  BY <1>1
<1> QED
  BY <1>2 DEF Remember, HistoryOK

\* Steps of one thread.
LEMMA StampType ==
  ASSUME TypeOK, NEW c \in Threads, StampPod(c) \/ StampFault(c)
  PROVE  TypeOK'
<1> DEFINE p == Head(todo[c]).pod
<1>1. StoreOK /\ ThreadsOK /\ HistoryOK /\ pc[c] = "patch"
  BY TypeParts DEF StampPod, StampFault
<1>2. p \in Names
  BY <1>1, TodoParts
<1> HIDE DEF p
<1>3. /\ UNCHANGED pods \/ Stamp(p)
      /\ Fails(c) \/ (pc' = [pc EXCEPT ![c] = "bind"] /\ UNCHANGED << todo, raining, chosen >>)
      /\ UNCHANGED faults \/ Fault
      /\ UNCHANGED << listed, podFeed, podCache, created, inflight, mode >>
  BY DEF StampPod, StampFault, p
<1>4. StoreOK'
  BY <1>1, <1>2, <1>3, StampNewest DEF StoreOK
<1>5. ThreadsOK' /\ chosen' \subseteq Names \X Names
  <2>1. CASE Fails(c)
    BY <1>1, <1>3, <2>1, FailsType
  <2>2. CASE pc' = [pc EXCEPT ![c] = "bind"] /\ UNCHANGED << todo, raining, chosen >>
    <3>1. "bind" \in Steps
      BY DEF Steps
    <3>2. /\ pc' \in [Threads -> Steps] /\ todo' \in [Threads -> Seq(Placement)]
          /\ \A d \in Threads : pc'[d] \in {"check", "patch", "bind"} <=> todo'[d] # << >>
      BY <1>1, <2>2, <3>1, ThreadGoesOn
    <3> QED
      BY <1>1, <1>3, <2>2, <3>2 DEF ThreadsOK, HistoryOK
  <2> QED
    BY <1>3, <2>1, <2>2
<1>6. faults' \in 0 .. MaxFaults
  BY <1>1, <1>3, FaultType DEF HistoryOK
<1> QED
  BY <1>4, <1>5, <1>6, TypeParts DEF TypeOK, StoreOK, ThreadsOK, HistoryOK, Steps

LEMMA BindType ==
  ASSUME TypeOK, NEW c \in Threads, BindPod(c) \/ BindFault(c)
  PROVE  TypeOK'
<1> DEFINE p == Head(todo[c]).pod
           bound == [pods[p] EXCEPT !.node = Head(todo[c]).node]
<1>1. StoreOK /\ ThreadsOK /\ HistoryOK /\ pc[c] = "bind"
  BY TypeParts DEF BindPod, BindFault
<1>2. p \in Names /\ Head(todo[c]).node \in DOMAIN Nodes /\ pods[p] \in Pod
  BY <1>1, TodoParts DEF StoreOK
<1>3. bound \in Pod
  BY <1>2, ChangedPods
<1>4. /\ UNCHANGED storeVars \/ Write(p, bound)
      /\ inflight' = inflight \/ inflight' = inflight \cup {p}
      /\ Fails(c) \/ (Advance(c) /\ UNCHANGED chosen)
      /\ UNCHANGED faults \/ Fault
      /\ UNCHANGED << listed, podCache, created, mode >>
  BY DEF BindPod, BindFault
<1> HIDE DEF p, bound
<1>5. StoreOK'
  BY <1>1, <1>2, <1>3, <1>4, WriteType DEF StoreOK, storeVars
<1>6. ThreadsOK' /\ chosen' \subseteq Names \X Names
  BY <1>1, <1>4, FailsType, AdvanceType DEF HistoryOK
<1>7. faults' \in 0 .. MaxFaults
  BY <1>1, <1>4, FaultType DEF HistoryOK
<1> QED
  BY <1>5, <1>6, <1>7, TypeParts DEF TypeOK, StoreOK, ThreadsOK, HistoryOK, Steps

LEMMA PlayerType ==
  ASSUME TypeOK, NEW c \in Players,
         PlayerLists(c) \/ PlayerRefused(c) \/ (\E x \in Requests : PlayerDrops(c, x))
  PROVE  TypeOK'
<1>1. StoreOK /\ ThreadsOK /\ HistoryOK /\ c \in Threads
  BY TypeParts, LoopIsThread
<1>2. {"idle", "list", "patch"} \subseteq Steps
  BY DEF Steps
<1>3. CASE PlayerLists(c)
  <2>1. { p \in Unbound : ~podCache[p].ojama } \subseteq Names
    BY DEF Unbound
  <2>2. /\ pc' \in [Threads -> Steps] /\ todo' \in [Threads -> Seq(Placement)]
        /\ \A d \in Threads : pc'[d] \in {"check", "patch", "bind"} <=> todo'[d] # << >>
    BY <1>1, <1>2, <1>3, ThreadGoesOn DEF PlayerLists
  <2>3. ThreadsOK'
    BY <1>1, <1>3, <2>1, <2>2 DEF PlayerLists, ThreadsOK
  <2>4. StoreOK' /\ HistoryOK'
    BY <1>1, <1>3 DEF PlayerLists, StoreOK, HistoryOK, storeVars
  <2> QED
    BY <2>3, <2>4 DEF TypeOK, StoreOK, ThreadsOK, HistoryOK, Steps
<1>4. CASE PlayerRefused(c)
  <2>1. /\ pc' \in [Threads -> Steps] /\ todo' \in [Threads -> Seq(Placement)]
        /\ \A d \in Threads : pc'[d] \in {"check", "patch", "bind"} <=> todo'[d] # << >>
    BY <1>1, <1>2, <1>4, ThreadGoesOn DEF PlayerRefused
  <2>2. ThreadsOK'
    BY <1>1, <1>4, <2>1 DEF PlayerRefused, ThreadsOK
  <2>3. StoreOK' /\ HistoryOK'
    BY <1>1, <1>4 DEF PlayerRefused, StoreOK, HistoryOK, storeVars
  <2> QED
    BY <2>2, <2>3 DEF TypeOK, StoreOK, ThreadsOK, HistoryOK, Steps
<1>5. ASSUME NEW x \in Requests, PlayerDrops(c, x) PROVE TypeOK'
  <2>1. x \in Seq(Placement) /\ Len(x) = 2
    <3>1. PICK pq \in Names \X Names : x \in Onto(pq, 2, DOMAIN Nodes)
      BY DEF Requests
    <3>2. \A i \in 1 .. 2 : pq[i] \in Names
      OBVIOUS
    <3>3. 2 \in Nat /\ DOMAIN Nodes \in SUBSET DOMAIN Nodes
      OBVIOUS
    <3> QED
      BY <3>1, <3>2, <3>3, OntoType
  <2>2. x # << >>
    <3>1. Len(<< >>) # 2
      OBVIOUS
    <3> QED
      BY <2>1, <3>1, Zenon
  <2>3. /\ pc' \in [Threads -> Steps] /\ todo' \in [Threads -> Seq(Placement)]
        /\ \A d \in Threads : pc'[d] \in {"check", "patch", "bind"} <=> todo'[d] # << >>
    BY <1>1, <1>2, <1>5, <2>1, <2>2, ThreadMoves DEF PlayerDrops
  <2>4. ThreadsOK'
    BY <1>1, <1>5, <2>3 DEF PlayerDrops, ThreadsOK
  <2>5. chosen' \subseteq Names \X Names
    BY <1>1, <1>5, <2>1, RememberType DEF PlayerDrops
  <2>6. faults' \in 0 .. MaxFaults
    BY <1>1, <1>5, ReadsType DEF PlayerDrops
  <2>7. StoreOK'
    BY <1>1, <1>5 DEF PlayerDrops, StoreOK, storeVars
  <2> QED
    BY <2>4, <2>5, <2>6, <2>7 DEF TypeOK, StoreOK, ThreadsOK, HistoryOK, Steps
<1> QED
  BY <1>3, <1>4, <1>5

\* Steps of the loop.
LEMMA TickType == TypeOK /\ Tick => TypeOK'
<1> SUFFICES ASSUME TypeOK, Tick PROVE TypeOK'
  OBVIOUS
<1>1. StoreOK /\ ThreadsOK /\ HistoryOK /\ pc["loop"] = "idle" /\ "loop" \in Threads
  BY TypeParts, LoopIsThread DEF Tick
<1>2. "auto" \in Steps /\ "patch" \in Steps
  BY DEF Steps
<1>3. StoreOK'
  BY <1>1 DEF Tick, StoreOK, storeVars
<1>4. ASSUME pc' = [pc EXCEPT !["loop"] = "auto"], UNCHANGED << todo, raining >>
      PROVE  ThreadsOK'
  <2>1. /\ pc' \in [Threads -> Steps] /\ todo' \in [Threads -> Seq(Placement)]
        /\ \A d \in Threads : pc'[d] \in {"check", "patch", "bind"} <=> todo'[d] # << >>
    BY <1>1, <1>2, <1>4, ThreadGoesOn
  <2> QED
    BY <1>1, <1>4, <2>1 DEF Tick, ThreadsOK
<1>5. CASE Ojama = << >>
  BY <1>1, <1>3, <1>4, <1>5 DEF Tick, TypeOK, StoreOK, ThreadsOK, HistoryOK, Steps
<1>6. ASSUME Ojama # << >>, NEW kb \in BOOLEAN, ReadsKbkb(kb), ColumnsFor(kb) = {},
             pc' = [pc EXCEPT !["loop"] = "auto"], UNCHANGED << todo, raining >>
      PROVE  TypeOK'
  <2>1. faults' \in 0 .. MaxFaults
    BY <1>1, <1>6, ReadsType
  <2> QED
    BY <1>1, <1>3, <1>4, <1>6, <2>1 DEF Tick, TypeOK, StoreOK, ThreadsOK, HistoryOK, Steps
<1>7. ASSUME Ojama # << >>, NEW kb \in BOOLEAN, ReadsKbkb(kb),
             NEW placements \in Onto(Ojama, Len(Ojama), ColumnsFor(kb)),
             pc' = [pc EXCEPT !["loop"] = "patch"],
             todo' = [todo EXCEPT !["loop"] = placements], raining' = TRUE
      PROVE  TypeOK'
  <2>1. faults' \in 0 .. MaxFaults
    BY <1>1, <1>7, ReadsType
  <2>2. placements \in Seq(Placement) /\ Len(placements) = Len(Ojama)
    <3>1. Ojama \in Seq(Names)
      BY <1>1, QueueType
    <3>2. Len(Ojama) \in Nat /\ \A i \in 1 .. Len(Ojama) : Ojama[i] \in Names
      BY <3>1, LenProperties, ElementOfSeq
    <3> QED
      BY <1>7, <3>2, ColumnsAreNodes, OntoType
  <2>3. placements # << >>
    <3>1. Len(Ojama) # 0
      BY <1>1, <1>7, QueueType, EmptySeq
    <3>2. Len(<< >>) = 0
      OBVIOUS
    <3> QED
      BY <2>2, <3>1, <3>2
  <2>4. /\ pc' \in [Threads -> Steps] /\ todo' \in [Threads -> Seq(Placement)]
        /\ \A d \in Threads : pc'[d] \in {"check", "patch", "bind"} <=> todo'[d] # << >>
    BY <1>1, <1>2, <1>7, <2>2, <2>3, ThreadMoves
  <2>5. ThreadsOK'
    BY <1>1, <1>7, <2>4 DEF Tick, ThreadsOK
  <2> QED
    BY <1>1, <1>3, <2>1, <2>5 DEF Tick, TypeOK, StoreOK, ThreadsOK, HistoryOK, Steps
<1> QED
  BY <1>5, <1>6, <1>7 DEF Tick

LEMMA AutoType == TypeOK /\ (AutoPlays \/ AutoWaits \/ LoopDrops) => TypeOK'
<1> SUFFICES ASSUME TypeOK, AutoPlays \/ AutoWaits \/ LoopDrops PROVE TypeOK'
  OBVIOUS
<1>1. StoreOK /\ ThreadsOK /\ HistoryOK /\ "loop" \in Threads
  BY TypeParts, LoopIsThread
<1>2. {"idle", "check", "patch"} \subseteq Steps
  BY DEF Steps
<1>3. CASE AutoPlays
  <2>1. PICK kb \in BOOLEAN :
          /\ ReadsKbkb(kb) /\ AutoReady(kb)
          /\ \E placements \in AutoPlacements(kb) :
               todo' = [todo EXCEPT !["loop"] = placements]
    BY <1>3 DEF AutoPlays
  <2>2. PICK x \in AutoPlacements(kb) : todo' = [todo EXCEPT !["loop"] = x]
    BY <2>1
  <2>3. x \in Onto(Queue, PairSize, ColumnsFor(kb)) /\ x # << >>
    BY DEF AutoPlacements, Accepts
  <2>4. x \in Seq(Placement)
    <3>1. Queue \in Seq(Names) /\ Len(Queue) >= PairSize /\ PairSize \in Nat
      BY <1>1, <2>1, QueueType, SchedulerAssumption DEF AutoReady
    <3>2. \A i \in 1 .. PairSize : Queue[i] \in Names
      <4>1. Len(Queue) \in Nat /\ \A i \in 1 .. Len(Queue) : Queue[i] \in Names
        BY <3>1, LenProperties, ElementOfSeq
      <4>2. \A i \in 1 .. PairSize : i \in 1 .. Len(Queue)
        BY <3>1, <4>1
      <4> QED
        BY <4>1, <4>2
    <3> QED
      BY <2>3, <3>1, <3>2, ColumnsAreNodes, OntoType
  <2>5. /\ pc' \in [Threads -> Steps] /\ todo' \in [Threads -> Seq(Placement)]
        /\ \A d \in Threads : pc'[d] \in {"check", "patch", "bind"} <=> todo'[d] # << >>
    <3>1. pc' = [pc EXCEPT !["loop"] = "check"]
      BY <1>3 DEF AutoPlays
    <3> QED
      BY <1>1, <1>2, <2>2, <2>3, <2>4, <3>1, ThreadMoves
  <2>6. ThreadsOK'
    BY <1>1, <1>3, <2>5 DEF AutoPlays, ThreadsOK
  <2>7. faults' \in 0 .. MaxFaults
    BY <1>1, <2>1, ReadsType
  <2>8. StoreOK' /\ chosen' = chosen
    BY <1>1, <1>3 DEF AutoPlays, StoreOK, storeVars
  <2> QED
    BY <1>1, <2>6, <2>7, <2>8 DEF TypeOK, StoreOK, ThreadsOK, HistoryOK, Steps
<1>4. CASE AutoWaits
  <2>1. /\ pc' \in [Threads -> Steps] /\ todo' \in [Threads -> Seq(Placement)]
        /\ \A d \in Threads : pc'[d] \in {"check", "patch", "bind"} <=> todo'[d] # << >>
    BY <1>1, <1>2, <1>4, ThreadGoesOn DEF AutoWaits
  <2>2. ThreadsOK'
    BY <1>1, <1>4, <2>1 DEF AutoWaits, ThreadsOK
  <2>3. faults' \in 0 .. MaxFaults
    BY <1>1, <1>4, ReadsType DEF AutoWaits
  <2>4. StoreOK' /\ chosen' = chosen
    BY <1>1, <1>4 DEF AutoWaits, StoreOK, storeVars
  <2> QED
    BY <1>1, <2>2, <2>3, <2>4 DEF TypeOK, StoreOK, ThreadsOK, HistoryOK, Steps
<1>5. CASE LoopDrops
  <2>1. faults' \in 0 .. MaxFaults
    BY <1>1, <1>5, ReadsType DEF LoopDrops
  <2>2. StoreOK' /\ UNCHANGED << mode, listed >>
    BY <1>1, <1>5 DEF LoopDrops, StoreOK, storeVars
  <2>3. ThreadsOK' /\ chosen' \subseteq Names \X Names
    <3>1. CASE Done("loop") /\ UNCHANGED chosen
      BY <1>1, <2>2, <3>1, DoneType DEF HistoryOK
    <3>2. CASE /\ pc' = [pc EXCEPT !["loop"] = "patch"]
               /\ chosen' = Remember(todo["loop"])
               /\ UNCHANGED << todo, raining >>
      <4>1. pc["loop"] = "check" /\ todo["loop"] \in Seq(Placement)
        BY <1>1, <1>5 DEF LoopDrops, ThreadsOK
      <4>2. /\ pc' \in [Threads -> Steps] /\ todo' \in [Threads -> Seq(Placement)]
            /\ \A d \in Threads : pc'[d] \in {"check", "patch", "bind"} <=> todo'[d] # << >>
        BY <1>1, <1>2, <3>2, <4>1, ThreadGoesOn
      <4>3. chosen' \subseteq Names \X Names
        BY <1>1, <3>2, <4>1, RememberType
      <4> QED
        BY <1>1, <2>2, <3>2, <4>2, <4>3 DEF ThreadsOK
    <3> QED
      BY <1>5, <3>1, <3>2 DEF LoopDrops
  <2> QED
    BY <2>1, <2>2, <2>3 DEF TypeOK, StoreOK, ThreadsOK, HistoryOK, Steps
<1> QED
  BY <1>3, <1>4, <1>5

\* Steps of the rest.
LEMMA OtherType ==
  ASSUME TypeOK,
         \/ \E p \in Names : Expire(p)
         \/ \E m \in Modes : SetMode(m)
         \/ Restart \/ SyncPods
  PROVE  TypeOK'
<1>1. StoreOK /\ ThreadsOK /\ HistoryOK
  BY TypeParts
<1>2. ASSUME NEW p \in Names, Expire(p) PROVE TypeOK'
  <2>1. faults' \in 0 .. MaxFaults
    BY <1>1, <1>2, FaultType DEF Expire
  <2> QED
    BY <1>1, <1>2, <2>1 DEF Expire, storeVars, TypeOK, StoreOK, ThreadsOK, HistoryOK, Steps
<1>3. ASSUME NEW m \in Modes, SetMode(m) PROVE TypeOK'
  BY <1>1, <1>3 DEF SetMode, storeVars, TypeOK, StoreOK, ThreadsOK, HistoryOK, Steps
<1>4. CASE Restart
  <2>1. faults' \in 0 .. MaxFaults
    BY <1>1, <1>4, FaultType DEF Restart
  <2>2. podCache' \in [Names -> Pod]
    BY <1>1, <1>4, UnorderedIsPod DEF Restart, StoreOK
  <2>3. /\ podFeed' \in Seq([pod : Names, now : Pod]) /\ UNCHANGED << pods, created >>
        /\ inflight' \subseteq Names /\ mode' \in Modes /\ raining' \in BOOLEAN
        /\ listed' \in [Players -> SUBSET Names] /\ chosen' \subseteq chosen
    BY <1>4, EmptySeq DEF Restart, Forget
  <2>4. << >> \in Seq(Placement)
    BY EmptySeq
  <2>5. /\ pc' = [c \in Threads |-> "idle"] /\ todo' = [c \in Threads |-> << >>]
    BY <1>4 DEF Restart
  <2> QED
    BY <1>1, <2>1, <2>2, <2>3, <2>4, <2>5 DEF TypeOK, StoreOK, HistoryOK
<1>5. CASE SyncPods
  <2>1. /\ Head(podFeed) \in [pod : Names, now : Pod]
        /\ Tail(podFeed) \in Seq([pod : Names, now : Pod])
    BY <1>1, <1>5, HeadTailProperties DEF SyncPods, StoreOK
  <2>2. podCache' \in [Names -> Pod] /\ podFeed' \in Seq([pod : Names, now : Pod])
    BY <1>1, <1>5, <2>1 DEF SyncPods, StoreOK
  <2> QED
    BY <1>1, <1>5, <2>2
    DEF SyncPods, threadVars, TypeOK, StoreOK, ThreadsOK, HistoryOK, Steps
<1> QED
  BY <1>2, <1>3, <1>4, <1>5

LEMMA ClusterType ==
  ASSUME TypeOK,
         \/ \E ojama \in BOOLEAN : Arrive(ojama)
         \/ \E p \in Names : Run(p) \/ Delete(p) \/ Removed(p)
  PROVE  TypeOK'
<1>1. StoreOK /\ ThreadsOK /\ HistoryOK
  BY TypeParts
<1>2. SUFFICES /\ pods' \in [Names -> Pod] /\ podFeed' \in Seq([pod : Names, now : Pod])
               /\ created' \in 0 .. MaxPods /\ UNCHANGED << podCache, threadVars >>
  BY <1>1, <1>2 DEF threadVars, TypeOK, StoreOK, ThreadsOK, HistoryOK, Steps
<1>3. ASSUME NEW ojama \in BOOLEAN, Arrive(ojama)
      PROVE  /\ pods' \in [Names -> Pod] /\ podFeed' \in Seq([pod : Names, now : Pod])
             /\ created' \in 0 .. MaxPods
  <2>1. created + 1 \in Names /\ created + 1 \in Nat
    BY <1>1, <1>3, SchedulerAssumption DEF Arrive, StoreOK, Names
  <2> DEFINE new == [node |-> NoNode, order |-> NoStamp, created |-> created + 1,
                     phase |-> "Pending", ready |-> FALSE, deleting |-> FALSE,
                     ojama |-> ojama]
  <2>2. new \in Pod
    BY <2>1 DEF Pod
  <2>3. Write(created + 1, new) /\ created' = created + 1
    BY <1>3 DEF Arrive
  <2> HIDE DEF new
  <2>4. pods' \in [Names -> Pod] /\ podFeed' \in Seq([pod : Names, now : Pod])
    BY <1>1, <2>1, <2>2, <2>3, WriteType
  <2>5. created' \in 0 .. MaxPods
    BY <2>1, <2>3 DEF Names
  <2> QED
    BY <2>4, <2>5
<1>4. ASSUME NEW p \in Names, Run(p) \/ Delete(p) \/ Removed(p)
      PROVE  /\ pods' \in [Names -> Pod] /\ podFeed' \in Seq([pod : Names, now : Pod])
             /\ created' \in 0 .. MaxPods
  <2>1. pods[p] \in Pod
    BY <1>1 DEF StoreOK
  <2>2. PICK pod \in Pod : Write(p, pod)
    BY <1>4, <2>1, ChangedPods, GoneIsPod DEF Run, Delete, Removed
  <2> QED
    BY <1>1, <1>4, <2>2, WriteType DEF Run, Delete, Removed, StoreOK
<1> QED
  BY <1>3, <1>4 DEF Arrive, Run, Delete, Removed

LEMMA InitType == Init => TypeOK
<1> SUFFICES ASSUME Init PROVE TypeOK
  OBVIOUS
<1>1. pods \in [Names -> Pod] /\ podCache \in [Names -> Pod]
  BY GoneIsPod DEF Init
<1>2. podFeed \in Seq([pod : Names, now : Pod]) /\ << >> \in Seq(Placement)
  BY EmptySeq DEF Init
<1>3. 0 \in 0 .. MaxPods /\ 0 \in 0 .. MaxFaults
  BY SchedulerAssumption
<1>4. /\ pc = [c \in Threads |-> "idle"] /\ todo = [c \in Threads |-> << >>]
      /\ listed = [c \in Players |-> {}]
  BY DEF Init
<1> QED
  BY <1>1, <1>2, <1>3, <1>4 DEF Init, TypeOK

LEMMA StepType == TypeOK /\ [Next]_vars => TypeOK'
<1> SUFFICES ASSUME TypeOK, [Next]_vars PROVE TypeOK'
  OBVIOUS
<1>1. CASE UNCHANGED vars
  BY <1>1 DEF vars, TypeOK
<1>2. CASE Next
  BY <1>2, PlayerType, StampType, BindType, TickType, AutoType, OtherType, ClusterType
  DEF Next, Loop
<1> QED
  BY <1>1, <1>2

\* Every variable has its type: what is bound goes to nodes, and a thread has
\* something to bind when and only when it is in a drop.
THEOREM TypeCorrect == Spec => []TypeOK
BY InitType, StepType, PTL DEF Spec

-----------------------------------------------------------------------------
(***************************************************************************)
(* What the cluster does to a Pod.                                         *)
(***************************************************************************)
Known(p) == pods[p].phase # "Gone" \/ pods[p].deleting

\* A bound Pod starts or is marked, a Pod is gone, a Pod is new.
Ages(p, pod) ==
  \/ /\ Bound(p) /\ created' = created
     /\ pod.order = pods[p].order /\ pod.node = pods[p].node /\ pod.phase # "Gone"
     /\ pod.ojama = pods[p].ojama
  \/ pod = Gone /\ Known(p) /\ created' = created
  \/ /\ p = created + 1 /\ created' = created + 1
     /\ pod.order = NoStamp /\ pod.node = NoNode /\ pod.phase # "Gone"
     /\ pod.ojama => Opponent

ClusterStep ==
  \/ \E ojama \in BOOLEAN : Arrive(ojama)
  \/ \E p \in Names : Run(p) \/ Delete(p) \/ Removed(p)

LEMMA ClusterAges ==
  ASSUME TypeOK, ClusterStep
  PROVE  /\ UNCHANGED << podCache, threadVars >>
         /\ \E p \in Names : \E pod \in Pod : Write(p, pod) /\ Ages(p, pod)
<1>1. UNCHANGED << podCache, threadVars >>
  BY DEF ClusterStep, Arrive, Run, Delete, Removed
<1>2. \A p \in Names : pods[p] \in Pod
  BY DEF TypeOK
<1>3. ASSUME NEW ojama \in BOOLEAN, Arrive(ojama)
      PROVE  \E p \in Names : \E pod \in Pod : Write(p, pod) /\ Ages(p, pod)
  <2>1. created + 1 \in Names /\ created + 1 \in Nat
    BY <1>3, SchedulerAssumption DEF Arrive, TypeOK, Names
  <2> DEFINE new == [node |-> NoNode, order |-> NoStamp, created |-> created + 1,
                     phase |-> "Pending", ready |-> FALSE, deleting |-> FALSE,
                     ojama |-> ojama]
  <2>2. new \in Pod
    BY <2>1 DEF Pod
  <2>3. Write(created + 1, new) /\ Ages(created + 1, new)
    BY <1>3 DEF Arrive, Ages
  <2> HIDE DEF new
  <2> QED
    BY <2>1, <2>2, <2>3
<1>4. ASSUME NEW p \in Names, Run(p)
      PROVE  \E pod \in Pod : Write(p, pod) /\ Ages(p, pod)
  <2> DEFINE pod == [pods[p] EXCEPT !.phase = "Running", !.ready = TRUE]
  <2>1. pod \in Pod /\ Write(p, pod)
    BY <1>2, <1>4, ChangedPods DEF Run
  <2>2. Ages(p, pod)
    BY <1>2, <1>4 DEF Run, Ages, Bound, Pod
  <2> QED
    BY <2>1, <2>2
<1>5. ASSUME NEW p \in Names, Delete(p)
      PROVE  \E pod \in Pod : Write(p, pod) /\ Ages(p, pod)
  <2>1. CASE pods[p].node = NoNode
    BY <1>5, <2>1, GoneIsPod DEF Delete, Ages, Known
  <2>2. CASE pods[p].node # NoNode
    <3> DEFINE pod == [pods[p] EXCEPT !.deleting = TRUE]
    <3>1. pod \in Pod /\ Write(p, pod)
      BY <1>2, <1>5, <2>2, ChangedPods DEF Delete
    <3>2. Ages(p, pod)
      BY <1>2, <1>5, <2>2 DEF Delete, Ages, Bound, Pod
    <3> QED
      BY <3>1, <3>2
  <2> QED
    BY <2>1, <2>2
<1>6. ASSUME NEW p \in Names, Removed(p)
      PROVE  \E pod \in Pod : Write(p, pod) /\ Ages(p, pod)
  BY <1>6, GoneIsPod DEF Removed, Ages, Known
<1> QED
  BY <1>1, <1>3, <1>4, <1>5, <1>6 DEF ClusterStep

LEMMA WriteOne ==
  ASSUME TypeOK, NEW p \in Names, NEW pod \in Pod, Write(p, pod)
  PROVE  pods'[p] = pod /\ \A q \in Names \ {p} : pods'[q] = pods[q]
BY DEF TypeOK, Write

-----------------------------------------------------------------------------
(***************************************************************************)
(* The loop on its own stamps a Pod and binds it before it stamps the      *)
(* next, so that the Pod about to be bound has the newest order.           *)
(***************************************************************************)
Stamped(p) == pods[p].order # NoStamp

\* Names are given in order; what is bound is stamped; no two Pods share a rank.
OrderInv ==
  /\ \A p \in Names : Known(p) => p <= created
  /\ \A p \in Names : Bound(p) => Stamped(p)
  /\ \A p, q \in Names : p # q /\ Stamped(p) => pods[p].order # pods[q].order

\* The Pod the loop is about to bind.
Next1 == Head(todo["loop"]).pod

TopInv ==
  pc["loop"] = "bind" =>
    /\ Next1 <= created
    /\ pods[Next1].phase # "Gone" =>
         Stamped(Next1) /\ \A q \in Names \ {Next1} : pods[q].order < pods[Next1].order

LInv == TypeOK /\ OrderInv /\ TopInv

LEMMA LoopAlone ==
  ASSUME Players = {}, TypeOK, pc["loop"] \in {"check", "patch", "bind"}
  PROVE  /\ Threads = {"loop"} /\ Next1 \in Names
         /\ todo["loop"] \in Seq(Placement) /\ todo["loop"] # << >>
<1>1. ThreadsOK /\ "loop" \in Threads
  BY TypeParts, LoopIsThread
<1> QED
  BY <1>1, TodoParts DEF Threads, Next1

\* Stamping changes orders alone.
LEMMA StampKeeps ==
  ASSUME TypeOK, OrderInv, NEW p \in Names, Stamp(p), pods[p].phase # "Gone"
  PROVE  /\ \A q \in Names : /\ pods'[q].phase = pods[q].phase /\ pods'[q].node = pods[q].node
                             /\ pods'[q].order \in Orders /\ pods[q].order \in Orders
         /\ \A q \in Names : (Bound(q)' <=> Bound(q)) /\ (Known(q)' <=> Known(q))
         /\ pods'[p].order # NoStamp
         /\ \A q \in Names \ {p} : pods'[q].order < pods'[p].order
         /\ \A q \in Names \ {p} : (pods'[q].order # NoStamp <=> Stamped(q))
         /\ \A q \in Names \ {p} : \A r \in Names \ {p} :
              Stamped(q) /\ Stamped(r) =>
                /\ pods'[q].order < pods'[r].order <=> pods[q].order < pods[r].order
                /\ pods'[q].order = pods'[r].order <=> pods[q].order = pods[r].order
<1>1. pods \in [Names -> Pod] /\ \A q \in Names : pods[q] \in Pod /\ pods[q].order \in Orders
  BY DEF TypeOK, Pod, Orders
<1>2. /\ \A q \in Names : \E o \in Orders : pods'[q] = [pods[q] EXCEPT !.order = o]
      /\ pods'[p].order \in Nat
      /\ \A q \in Names \ {p} :
           /\ pods'[q].order = Shifted(pods[p].order, pods[q].order)
           /\ pods'[q].order < pods'[p].order
  BY <1>1, StampNewest
<1>3. \A q \in Names : /\ pods'[q].phase = pods[q].phase /\ pods'[q].node = pods[q].node
                       /\ pods'[q].order \in Orders /\ pods'[q].deleting = pods[q].deleting
  <2> TAKE q \in Names
  <2>1. PICK o \in Orders : pods'[q] = [pods[q] EXCEPT !.order = o]
    BY <1>2
  <2>2. pods[q] \in Pod
    BY <1>1
  <2> QED
    BY <2>1, <2>2 DEF Pod
<1>4. \A q \in Names : (Bound(q)' <=> Bound(q)) /\ (Known(q)' <=> Known(q))
  BY <1>3 DEF Bound, Known
<1>5. pods'[p].order # NoStamp
  BY <1>2 DEF NoStamp
<1>6. \A q \in Names \ {p} : Stamped(q) => pods[q].order # pods[p].order
  BY DEF OrderInv
<1>7. \A q \in Names \ {p} : (pods'[q].order # NoStamp <=> Stamped(q))
  BY <1>1, <1>2, ShiftedOrders DEF Stamped
<1>8. ASSUME NEW q \in Names \ {p}, NEW r \in Names \ {p}, Stamped(q), Stamped(r)
      PROVE  /\ pods'[q].order < pods'[r].order <=> pods[q].order < pods[r].order
             /\ pods'[q].order = pods'[r].order <=> pods[q].order = pods[r].order
  BY <1>1, <1>2, <1>6, <1>8, ShiftedOrders
<1> QED
  BY <1>1, <1>2, <1>3, <1>4, <1>5, <1>7, <1>8

\* An action that leaves the store alone.
LEMMA StoreAlone ==
  ASSUME OrderInv, UNCHANGED << pods, created >>
  PROVE  OrderInv'
BY DEF OrderInv, Bound, Stamped, Known

LEMMA StampOrder ==
  ASSUME TypeOK, OrderInv, NEW p \in Names, Stamp(p), pods[p].phase # "Gone",
         UNCHANGED created
  PROVE  OrderInv'
<1>1. /\ \A q \in Names : pods'[q].phase = pods[q].phase /\ pods'[q].order \in Orders
                                                         /\ pods[q].order \in Orders
      /\ \A q \in Names : (Bound(q)' <=> Bound(q)) /\ (Known(q)' <=> Known(q))
      /\ pods'[p].order # NoStamp
      /\ \A q \in Names \ {p} : pods'[q].order < pods'[p].order
      /\ \A q \in Names \ {p} : (pods'[q].order # NoStamp <=> Stamped(q))
      /\ \A q \in Names \ {p} : \A r \in Names \ {p} :
           Stamped(q) /\ Stamped(r) =>
             (pods'[q].order = pods'[r].order <=> pods[q].order = pods[r].order)
  BY StampKeeps
<1>2. \A q \in Names : Known(q)' => q <= created'
  BY <1>1 DEF OrderInv
<1>3. \A q \in Names : Bound(q)' => Stamped(q)'
  <2> TAKE q \in Names
  <2>1. CASE q = p
    BY <1>1, <2>1 DEF Stamped
  <2>2. CASE q # p
    BY <1>1, <2>2 DEF OrderInv, Stamped
  <2> QED
    BY <2>1, <2>2
<1>4. ASSUME NEW q \in Names, NEW r \in Names, q # r, Stamped(q)'
      PROVE  pods'[q].order # pods'[r].order
  <2>0. \A x, y \in Orders : x < y => x # y /\ y # x
    BY DEF Orders, NoStamp
  <2>1. CASE q = p \/ r = p
    BY <1>1, <1>4, <2>0, <2>1
  <2>2. CASE q # p /\ r # p
    <3>1. Stamped(q)
      BY <1>1, <1>4, <2>2 DEF Stamped
    <3>2. CASE Stamped(r)
      BY <1>1, <1>4, <2>2, <3>1, <3>2 DEF OrderInv
    <3>3. CASE ~Stamped(r)
      BY <1>1, <1>4, <2>2, <3>3 DEF Stamped
    <3> QED
      BY <3>2, <3>3
  <2> QED
    BY <2>1, <2>2
<1> QED
  BY <1>2, <1>3, <1>4 DEF OrderInv

\* The Pod that is bound is stamped.
LEMMA BindOrder ==
  ASSUME TypeOK, OrderInv, NEW p \in Names, NEW n \in DOMAIN Nodes,
         MayBind(p), Stamped(p), Write(p, [pods[p] EXCEPT !.node = n]), UNCHANGED created
  PROVE  /\ OrderInv'
         /\ pods'[p].order = pods[p].order /\ pods'[p].node = n
         /\ pods'[p].phase = pods[p].phase
         /\ \A q \in Names \ {p} : pods'[q] = pods[q]
<1>1. pods[p] \in Pod /\ [pods[p] EXCEPT !.node = n] \in Pod
  BY ChangedPods DEF TypeOK
<1>2. /\ pods'[p] = [pods[p] EXCEPT !.node = n]
      /\ \A q \in Names \ {p} : pods'[q] = pods[q]
  BY <1>1, WriteOne
<1>3. /\ pods'[p].order = pods[p].order /\ pods'[p].node = n
      /\ pods'[p].phase = pods[p].phase /\ pods'[p].deleting = pods[p].deleting
  BY <1>1, <1>2 DEF Pod
<1>4. \A q \in Names : pods'[q].order = pods[q].order /\ (Known(q)' <=> Known(q))
  BY <1>2, <1>3 DEF Known
<1>5. \A q \in Names : Bound(q)' => q = p \/ Bound(q)
  BY <1>2 DEF Bound
<1>6. OrderInv'
  BY <1>4, <1>5 DEF OrderInv, Stamped
<1> QED
  BY <1>2, <1>3, <1>6

LEMMA AgesOrder ==
  ASSUME TypeOK, OrderInv, NEW p \in Names, NEW pod \in Pod, Write(p, pod), Ages(p, pod)
  PROVE  /\ OrderInv' /\ created <= created' /\ p <= created'
         /\ \A q \in Names : Bound(q)' =>
              Bound(q) /\ pods'[q].order = pods[q].order /\ pods'[q].node = pods[q].node
         /\ \A q \in Names : pods'[q].order \in {pods[q].order, NoStamp}
         /\ \A q \in Names : pods'[q].phase # "Gone" /\ q <= created =>
              pods[q].phase # "Gone" /\ pods'[q].order = pods[q].order
<1>1. pods'[p] = pod /\ \A q \in Names \ {p} : pods'[q] = pods[q]
  BY WriteOne
<1>2. created \in Nat /\ created' \in {created, created + 1} /\ p \in Nat
  BY NamesFinite DEF Ages, TypeOK
<1>3. \A q \in Names : q \in Nat
  BY NamesFinite
<1>4. \A q \in Names : Bound(q)' =>
        Bound(q) /\ pods'[q].order = pods[q].order /\ pods'[q].node = pods[q].node
  <2> TAKE q \in Names
  <2>1. CASE q = p
    BY <1>1, <2>1, GoneIsPod DEF Ages, Bound
  <2>2. CASE q # p
    BY <1>1, <2>2 DEF Bound
  <2> QED
    BY <2>1, <2>2
<1>5. pods'[p].order \in {pods[p].order, NoStamp}
  BY <1>1, GoneIsPod DEF Ages
<1>6. \A q \in Names : pods'[q].order \in {pods[q].order, NoStamp}
  BY <1>1, <1>5
<1>7. \A q \in Names : pods'[q].phase # "Gone" /\ q <= created =>
        pods[q].phase # "Gone" /\ pods'[q].order = pods[q].order
  <2> TAKE q \in Names
  <2>1. CASE q = p
    BY <1>1, <1>2, <2>1, GoneIsPod DEF Ages, Bound
  <2>2. CASE q # p
    BY <1>1, <2>2
  <2> QED
    BY <2>1, <2>2
<1>8. /\ p <= created'
      /\ \A q \in Names : Known(q)' => q <= created'
  <2>1. p <= created'
    BY <1>2 DEF Ages, Bound, Known, OrderInv
  <2>2. \A q \in Names \ {p} : Known(q)' => q <= created'
    BY <1>1, <1>2, <1>3 DEF OrderInv, Known
  <2> QED
    BY <2>1, <2>2
<1>9. \A q \in Names : Bound(q)' => Stamped(q)'
  BY <1>4 DEF OrderInv, Stamped
<1>10. ASSUME NEW q \in Names, NEW r \in Names, q # r, Stamped(q)'
       PROVE  pods'[q].order # pods'[r].order
  BY <1>6, <1>10 DEF OrderInv, Stamped
<1>11. created <= created'
  BY <1>2
<1> QED
  BY <1>4, <1>6, <1>7, <1>8, <1>9, <1>10, <1>11 DEF OrderInv

\* What LandsOnTop says of a step.
OnTop ==
  \A p \in Names :
    ~Bound(p) /\ Bound(p)' =>
      \A q \in Names \ {p} :
        (Bound(q) /\ pods[q].node = pods'[p].node) => Below(pods', q, p)

LEMMA NothingLands ==
  ASSUME \A p \in Names : Bound(p)' => Bound(p)
  PROVE  OnTop
BY DEF OnTop

\* A step that leaves the store alone and is not about to bind, or goes on
\* being about to bind what it was about to bind.
LEMMA StoreAloneTop ==
  ASSUME LInv, TypeOK', UNCHANGED << pods, created >>,
         pc'["loop"] # "bind" \/ UNCHANGED << pc, todo >>
  PROVE  LInv' /\ OnTop
<1>1. OrderInv'
  BY StoreAlone DEF LInv
<1>2. TopInv'
  BY DEF LInv, TopInv, Next1, Stamped
<1>3. OnTop
  BY NothingLands DEF Bound
<1> QED
  BY <1>1, <1>2, <1>3 DEF LInv

\* The loop stops, or turns to the next Pod of its drop.
LEMMA LoopLeavesBind ==
  ASSUME TypeOK, Done("loop") \/ Fails("loop") \/ Advance("loop")
  PROVE  pc'["loop"] # "bind"
<1>1. pc \in [Threads -> Steps] /\ "loop" \in Threads
  BY LoopIsThread, TypeParts DEF ThreadsOK
<1> QED
  BY <1>1 DEF Fails, Advance, Done

LEMMA StampTop ==
  ASSUME Players = {}, LInv, TypeOK', StampPod("loop") \/ StampFault("loop")
  PROVE  LInv' /\ OnTop
<1>1. TypeOK /\ OrderInv /\ pc["loop"] = "patch" /\ UNCHANGED created
  BY DEF LInv, StampPod, StampFault
<1>2. Next1 \in Names
  BY <1>1, LoopAlone
<1>3. \/ UNCHANGED pods /\ pc'["loop"] # "bind"
      \/ pods[Next1].phase # "Gone" /\ Stamp(Next1) /\ (pc'["loop"] = "bind" => todo' = todo)
  BY <1>1, LoopLeavesBind DEF StampPod, StampFault, Next1
<1>4. CASE UNCHANGED pods /\ pc'["loop"] # "bind"
  BY <1>1, <1>4, StoreAloneTop
<1>5. CASE pods[Next1].phase # "Gone" /\ Stamp(Next1) /\ (pc'["loop"] = "bind" => todo' = todo)
  <2>1. OrderInv'
    BY <1>1, <1>2, <1>5, StampOrder
  <2>2. /\ \A q \in Names : Bound(q)' <=> Bound(q)
        /\ pods'[Next1].order # NoStamp
        /\ \A q \in Names \ {Next1} : pods'[q].order < pods'[Next1].order
    BY <1>1, <1>2, <1>5, StampKeeps
  <2>3. OnTop
    BY <2>2, NothingLands
  <2>4. Next1 <= created
    BY <1>1, <1>2, <1>5 DEF OrderInv, Known
  <2>5. TopInv'
    <3> SUFFICES ASSUME pc'["loop"] = "bind" PROVE TopInv'
      BY DEF TopInv
    <3>1. Next1' = Next1 /\ created' = created
      BY <1>1, <1>5 DEF Next1
    <3> QED
      BY <2>2, <2>4, <3>1 DEF TopInv, Stamped
  <2> QED
    BY <2>1, <2>3, <2>5 DEF LInv
<1> QED
  BY <1>3, <1>4, <1>5

LEMMA BindTop ==
  ASSUME Players = {}, LInv, TypeOK', BindPod("loop") \/ BindFault("loop")
  PROVE  LInv' /\ OnTop
<1>1. TypeOK /\ OrderInv /\ TopInv /\ pc["loop"] = "bind" /\ UNCHANGED created
  BY DEF LInv, BindPod, BindFault
<1>2. Next1 \in Names /\ "loop" \in Threads
  BY <1>1, LoopAlone, LoopIsThread
<1>3. Head(todo["loop"]).node \in DOMAIN Nodes
  BY <1>1, <1>2, TypeParts, TodoParts
<1>4. pc'["loop"] # "bind"
  BY <1>1, LoopLeavesBind DEF BindPod, BindFault
<1>5. CASE UNCHANGED pods
  BY <1>1, <1>4, <1>5, StoreAloneTop
<1>6. CASE MayBind(Next1) /\ Write(Next1, [pods[Next1] EXCEPT !.node = Head(todo["loop"]).node])
  <2>1. /\ Stamped(Next1)
        /\ \A q \in Names \ {Next1} : pods[q].order < pods[Next1].order
    BY <1>1, <1>6 DEF TopInv, MayBind
  <2>2. /\ OrderInv' /\ pods'[Next1].order = pods[Next1].order
        /\ \A q \in Names \ {Next1} : pods'[q] = pods[q]
    BY <1>1, <1>2, <1>3, <1>6, <2>1, BindOrder
  <2>3. TopInv'
    BY <1>4 DEF TopInv
  <2>4. ASSUME NEW p \in Names, ~Bound(p), Bound(p)', NEW q \in Names \ {p}, Bound(q)
        PROVE  Below(pods', q, p)
    <3>1. p = Next1
      BY <2>2, <2>4 DEF Bound
    <3>2. pods'[q].order # NoStamp /\ pods'[p].order # NoStamp
      BY <1>1, <2>1, <2>2, <2>4, <3>1 DEF OrderInv, Stamped
    <3>3. pods'[q].order < pods'[p].order
      BY <2>1, <2>2, <2>4, <3>1
    <3> QED
      BY <3>2, <3>3 DEF Below, StackOrder
  <2>5. OnTop
    BY <2>4 DEF OnTop
  <2> QED
    BY <1>1, <2>2, <2>3, <2>5 DEF LInv
<1> QED
  BY <1>1, <1>5, <1>6 DEF BindPod, BindFault, Next1, storeVars

LEMMA LoopTop ==
  ASSUME LInv, TypeOK', Loop
  PROVE  LInv' /\ OnTop
<1>1. TypeOK /\ pc \in [Threads -> Steps] /\ "loop" \in Threads
  BY LoopIsThread, TypeParts DEF LInv, ThreadsOK
<1>2. pc'["loop"] # "bind"
  BY <1>1, LoopLeavesBind DEF Loop, Tick, AutoPlays, AutoWaits, LoopDrops
<1>3. UNCHANGED << pods, created >>
  BY DEF Loop, Tick, AutoPlays, AutoWaits, LoopDrops, storeVars
<1> QED
  BY <1>2, <1>3, StoreAloneTop

LEMMA OtherTop ==
  ASSUME LInv, TypeOK',
         \/ \E p \in Names : Expire(p)
         \/ \E m \in Modes : SetMode(m)
         \/ Restart \/ SyncPods
  PROVE  LInv' /\ OnTop
<1>1. UNCHANGED << pods, created >>
  BY DEF Expire, SetMode, Restart, SyncPods, storeVars
<1>2. CASE Restart
  <2>1. pc'["loop"] # "bind"
    BY <1>2, LoopIsThread DEF Restart
  <2> QED
    BY <1>1, <2>1, StoreAloneTop
<1>3. CASE ~Restart
  <2>1. UNCHANGED << pc, todo >>
    BY <1>3 DEF Expire, SetMode, SyncPods, threadVars
  <2> QED
    BY <1>1, <2>1, StoreAloneTop
<1> QED
  BY <1>2, <1>3

LEMMA ClusterTop ==
  ASSUME Players = {}, LInv, TypeOK', ClusterStep
  PROVE  LInv' /\ OnTop
<1>1. TypeOK /\ OrderInv /\ TopInv
  BY DEF LInv
<1>2. UNCHANGED << podCache, threadVars >>
  BY <1>1, ClusterAges
<1>3. PICK p \in Names, pod \in Pod : Write(p, pod) /\ Ages(p, pod)
  BY <1>1, ClusterAges
<1>4. /\ OrderInv' /\ created <= created'
      /\ \A q \in Names : Bound(q)' => Bound(q)
      /\ \A q \in Names : pods'[q].order \in {pods[q].order, NoStamp}
      /\ \A q \in Names : pods'[q].phase # "Gone" /\ q <= created =>
           pods[q].phase # "Gone" /\ pods'[q].order = pods[q].order
  BY <1>1, <1>3, AgesOrder
<1>5. TopInv'
  <2> SUFFICES ASSUME pc["loop"] = "bind"
      PROVE  /\ Next1 <= created'
             /\ pods'[Next1].phase # "Gone" =>
                  /\ pods'[Next1].order # NoStamp
                  /\ \A q \in Names \ {Next1} : pods'[q].order < pods'[Next1].order
    BY <1>2 DEF TopInv, Next1, Stamped, threadVars
  <2>1. Next1 \in Names /\ Next1 <= created
    BY <1>1, LoopAlone DEF TopInv
  <2>2. Next1 <= created'
    <3>1. Next1 \in Int /\ created \in Int /\ created' \in Int
      BY <2>1, NamesFinite DEF LInv, TypeOK
    <3> QED
      BY <1>4, <2>1, <3>1
  <2>3. ASSUME pods'[Next1].phase # "Gone", NEW q \in Names \ {Next1}
        PROVE  pods'[q].order < pods'[Next1].order
    <3>1. /\ pods'[Next1].order = pods[Next1].order
          /\ Stamped(Next1) /\ pods[q].order < pods[Next1].order
      BY <1>1, <1>4, <2>1, <2>3 DEF TopInv
    <3>2. pods[Next1].order \in Orders
      BY <1>1, <2>1 DEF TypeOK, Pod, Orders
    <3>3. NoStamp < pods[Next1].order
      BY <3>1, <3>2 DEF Orders, Stamped, NoStamp
    <3> QED
      BY <1>4, <3>1, <3>3
  <2>4. ASSUME pods'[Next1].phase # "Gone" PROVE pods'[Next1].order # NoStamp
    BY <1>1, <1>4, <2>1, <2>4 DEF TopInv, Stamped
  <2> QED
    BY <2>2, <2>3, <2>4
<1> QED
  BY <1>4, <1>5, NothingLands DEF LInv

LEMMA InitTop == Init => LInv
<1> SUFFICES ASSUME Init PROVE LInv
  OBVIOUS
<1>1. TypeOK
  BY InitType
<1>2. \A p \in Names : pods[p].phase = "Gone" /\ pods[p].order = NoStamp /\ ~pods[p].deleting
  BY DEF Init, Gone
<1>3. OrderInv
  BY <1>2 DEF OrderInv, Bound, Stamped, Known
<1>4. TopInv
  BY LoopIsThread DEF Init, TopInv
<1> QED
  BY <1>1, <1>3, <1>4 DEF LInv

LEMMA StepTop == Players = {} /\ LInv /\ [Next]_vars => LInv' /\ OnTop
<1> SUFFICES ASSUME Players = {}, LInv, [Next]_vars PROVE LInv' /\ OnTop
  OBVIOUS
<1>1. TypeOK'
  BY StepType DEF LInv
<1>2. Threads = {"loop"}
  BY DEF Threads
<1>3. CASE UNCHANGED vars
  BY <1>1, <1>3, StoreAloneTop DEF vars
<1>4. CASE Next
  <2>1. CASE StampPod("loop") \/ StampFault("loop")
    BY <1>1, <2>1, StampTop
  <2>2. CASE BindPod("loop") \/ BindFault("loop")
    BY <1>1, <2>2, BindTop
  <2>3. CASE Loop
    BY <1>1, <2>3, LoopTop
  <2>4. CASE \/ \E p \in Names : Expire(p)
             \/ \E m \in Modes : SetMode(m)
             \/ Restart \/ SyncPods
    BY <1>1, <2>4, OtherTop
  <2>5. CASE ClusterStep
    BY <1>1, <2>5, ClusterTop
  <2> QED
    BY <1>2, <1>4, <2>1, <2>2, <2>3, <2>4, <2>5 DEF Next, ClusterStep
<1> QED
  BY <1>3, <1>4

\* What the loop binds lands on top of its column, whatever fails and however
\* old the cache is, when no client drops: it stamps a Pod and binds it before
\* it stamps the next.
THEOREM LoopLandsOnTop ==
  ASSUME Players = {}
  PROVE  Spec => LandsOnTop
<1>1. Init => LInv
  BY InitTop
<1>2. LInv /\ [Next]_vars => LInv'
  BY StepTop
<1>3. LInv /\ [Next]_vars =>
        [\A p \in Names :
           ~Bound(p) /\ Bound(p)' =>
             \A q \in Names \ {p} :
               (Bound(q) /\ pods[q].node = pods'[p].node) => Below(pods', q, p)]_vars
  BY StepTop DEF OnTop
<1> QED
  BY <1>1, <1>2, <1>3, PTL DEF Spec, LandsOnTop

-----------------------------------------------------------------------------
(***************************************************************************)
(* The loop on its own, until a request fails, binds no Pod twice: what    *)
(* the cache still shows as waiting and is bound already is in flight.     *)
(***************************************************************************)
Lives(r) == r.phase # "Gone"

Placed(r) == Lives(r) /\ r.node # NoNode

\* s may come after r: what is bound stays bound for as long as it lives.
Follows(r, s) == Placed(r) /\ Lives(s) => Placed(s)

FeedInv ==
  /\ \A i \in DOMAIN podFeed : podFeed[i].pod <= created
  /\ \A i \in DOMAIN podFeed : Lives(pods[podFeed[i].pod]) => Lives(podFeed[i].now)
  /\ \A i \in DOMAIN podFeed : Follows(podFeed[i].now, pods[podFeed[i].pod])
  /\ \A i, j \in DOMAIN podFeed :
       i < j /\ podFeed[i].pod = podFeed[j].pod => Follows(podFeed[i].now, podFeed[j].now)

CacheInv ==
  /\ \A p \in Names : Lives(podCache[p]) => p <= created
  /\ \A p \in Names : Follows(podCache[p], pods[p])
  /\ \A i \in DOMAIN podFeed : Follows(podCache[podFeed[i].pod], podFeed[i].now)

LandInv ==
  \A p \in Names :
    Bound(p) => Lives(podCache[p]) /\ (podCache[p].node = NoNode => p \in inflight)

Awaited(p) == p <= created /\ ~Bound(p) /\ (Lives(pods[p]) => Lives(podCache[p]))

TodoInv ==
  /\ \A i \in DOMAIN todo["loop"] : Awaited(todo["loop"][i].pod)
  /\ \A i, j \in DOMAIN todo["loop"] : i # j => todo["loop"][i].pod # todo["loop"][j].pod

PInv == LInv /\ FeedInv /\ CacheInv /\ LandInv /\ TodoInv

LEMMA FeedParts ==
  ASSUME TypeOK
  PROVE  /\ Len(podFeed) \in Nat /\ DOMAIN podFeed = 1 .. Len(podFeed)
         /\ \A i \in DOMAIN podFeed : podFeed[i].pod \in Names /\ podFeed[i].now \in Pod
<1>1. podFeed \in Seq([pod : Names, now : Pod])
  BY DEF TypeOK
<1>2. Len(podFeed) \in Nat /\ podFeed \in [1 .. Len(podFeed) -> [pod : Names, now : Pod]]
  BY <1>1, LenProperties
<1> QED
  BY <1>2

LEMMA TodoList ==
  ASSUME TypeOK
  PROVE  /\ todo["loop"] \in Seq(Placement) /\ Len(todo["loop"]) \in Nat
         /\ DOMAIN todo["loop"] = 1 .. Len(todo["loop"])
         /\ \A i \in DOMAIN todo["loop"] : todo["loop"][i].pod \in Names
<1>1. todo["loop"] \in Seq(Placement)
  BY LoopIsThread DEF TypeOK
<1>2. Len(todo["loop"]) \in Nat /\ todo["loop"] \in [1 .. Len(todo["loop"]) -> Placement]
  BY <1>1, LenProperties
<1> QED
  BY <1>1, <1>2 DEF Placement

\* A write that raises no Pod from the dead and lifts none from its node.
LEMMA WriteFeeds ==
  ASSUME TypeOK, FeedInv, CacheInv, NEW p \in Names, NEW pod \in Pod, Write(p, pod),
         UNCHANGED podCache, created <= created', created' \in Nat, p <= created',
         Lives(pod) /\ p <= created => Lives(pods[p]), Follows(pods[p], pod)
  PROVE  FeedInv' /\ CacheInv'
<1> DEFINE new == [pod |-> p, now |-> Unordered(pod)]
           n == Len(podFeed)
<1>1. /\ n \in Nat /\ DOMAIN podFeed = 1 .. n
      /\ \A i \in 1 .. n : podFeed[i].pod \in Names /\ podFeed[i].now \in Pod
  BY FeedParts
<1>2. podFeed \in Seq([pod : Names, now : Pod]) /\ new \in [pod : Names, now : Pod]
  BY UnorderedIsPod DEF TypeOK
<1>3. podFeed' = Append(podFeed, new)
  BY DEF Write
<1>4. /\ DOMAIN podFeed' = 1 .. n + 1
      /\ \A i \in 1 .. n : podFeed'[i] = podFeed[i]
      /\ podFeed'[n + 1].pod = p /\ podFeed'[n + 1].now = Unordered(pod)
  BY <1>1, <1>2, <1>3, AppendProperties
<1>5. \A i \in 1 .. n + 1 : i \in 1 .. n \/ i = n + 1
  BY <1>1
<1>6. Lives(Unordered(pod)) = Lives(pod) /\ Placed(Unordered(pod)) = Placed(pod)
  BY UnorderedIsPod DEF Lives, Placed
<1>7. pods'[p] = pod /\ \A q \in Names \ {p} : pods'[q] = pods[q]
  BY WriteOne
<1>8. created \in Nat /\ \A q \in Names : q \in Nat
  BY NamesFinite DEF TypeOK
<1> HIDE DEF new, n
<1>9. \A q \in Names : q <= created => q <= created'
  BY <1>8
<1>10. \A q \in Names : Lives(pods'[q]) /\ q <= created => Lives(pods[q])
  BY <1>7
<1>11. \A q \in Names : Follows(pods[q], pods'[q])
  BY <1>7 DEF Follows, Placed
<1>12. ASSUME NEW i \in 1 .. n + 1
       PROVE  /\ podFeed'[i].pod <= created'
              /\ Lives(pods'[podFeed'[i].pod]) => Lives(podFeed'[i].now)
              /\ Follows(podFeed'[i].now, pods'[podFeed'[i].pod])
  <2>1. CASE i = n + 1
    BY <1>4, <1>6, <1>7, <2>1 DEF Follows
  <2>2. CASE i \in 1 .. n
    <3>1. /\ podFeed[i].pod \in Names /\ podFeed'[i] = podFeed[i]
          /\ podFeed[i].pod <= created
          /\ Lives(pods[podFeed[i].pod]) => Lives(podFeed[i].now)
          /\ Follows(podFeed[i].now, pods[podFeed[i].pod])
      BY <1>1, <1>4, <2>2 DEF FeedInv
    <3> QED
      BY <1>9, <1>10, <1>11, <3>1 DEF Follows, Placed
  <2> QED
    BY <1>5, <2>1, <2>2
<1>13. ASSUME NEW i \in 1 .. n + 1, NEW j \in 1 .. n + 1, i < j,
              podFeed'[i].pod = podFeed'[j].pod
       PROVE  Follows(podFeed'[i].now, podFeed'[j].now)
  <2>1. i \in 1 .. n
    BY <1>1, <1>13
  <2>2. CASE j \in 1 .. n
    BY <1>1, <1>4, <1>13, <2>1, <2>2 DEF FeedInv
  <2>3. CASE j = n + 1
    <3>1. podFeed[i].pod = p /\ podFeed'[i] = podFeed[i]
      BY <1>4, <1>13, <2>1, <2>3
    <3>2. p <= created /\ Follows(podFeed[i].now, pods[p])
      BY <1>1, <2>1, <3>1 DEF FeedInv
    <3>3. Follows(podFeed[i].now, pod)
      BY <3>2 DEF Follows, Placed
    <3> QED
      BY <1>4, <1>6, <2>3, <3>1, <3>3 DEF Follows
  <2> QED
    BY <1>5, <2>2, <2>3
<1>14. FeedInv'
  BY <1>4, <1>12, <1>13 DEF FeedInv
<1>15. \A q \in Names : Lives(podCache[q]) => q <= created
  BY DEF CacheInv
<1>16. \A q \in Names : Follows(podCache[q], pods'[q])
  <2> TAKE q \in Names
  <2>1. Follows(podCache[q], pods[q])
    BY DEF CacheInv
  <2> QED
    BY <1>10, <1>11, <1>15, <2>1 DEF Follows, Placed
<1>17. \A i \in 1 .. n + 1 : Follows(podCache[podFeed'[i].pod], podFeed'[i].now)
  <2> TAKE i \in 1 .. n + 1
  <2>1. CASE i = n + 1
    <3>1. Follows(podCache[p], pod)
      BY <1>7, <1>16
    <3> QED
      BY <1>4, <1>6, <2>1, <3>1 DEF Follows
  <2>2. CASE i \in 1 .. n
    BY <1>1, <1>4, <2>2 DEF CacheInv
  <2> QED
    BY <1>5, <2>1, <2>2
<1> QED
  BY <1>4, <1>9, <1>14, <1>15, <1>16, <1>17 DEF CacheInv

LEMMA SyncFeeds ==
  ASSUME TypeOK, FeedInv, CacheInv, SyncPods
  PROVE  /\ FeedInv' /\ CacheInv'
         /\ \A p \in Names : Lives(pods[p]) /\ Lives(podCache[p]) => Lives(podCache'[p])
         /\ \A p \in Names : Follows(podCache[p], podCache'[p])
<1> DEFINE n == Len(podFeed)
           p == podFeed[1].pod
           now == podFeed[1].now
<1>1. /\ n \in Nat /\ DOMAIN podFeed = 1 .. n
      /\ \A i \in 1 .. n : podFeed[i].pod \in Names /\ podFeed[i].now \in Pod
  BY FeedParts
<1>2. podFeed \in Seq([pod : Names, now : Pod]) /\ podFeed # << >>
      /\ podCache \in [Names -> Pod]
  BY DEF TypeOK, SyncPods
<1>3. n >= 1 /\ Head(podFeed) = podFeed[1] /\ 1 \in 1 .. n
  BY <1>1, <1>2, EmptySeq
<1>4. /\ DOMAIN podFeed' = 1 .. n - 1
      /\ \A i \in 1 .. n - 1 : podFeed'[i] = podFeed[i + 1]
  BY <1>1, <1>2, <1>3, HeadTailProperties DEF SyncPods
<1>5. /\ p \in Names /\ podCache'[p] = now
      /\ \A q \in Names \ {p} : podCache'[q] = podCache[q]
  BY <1>1, <1>2, <1>3 DEF SyncPods
<1>6. UNCHANGED << pods, created, inflight >>
  BY DEF SyncPods, threadVars
<1>7. \A i \in 1 .. n - 1 : i + 1 \in 1 .. n /\ i + 1 > 1
  BY <1>1
<1>8. \A i, j \in 1 .. n - 1 : i < j => i + 1 < j + 1
  BY <1>1
<1>9. FeedInv'
  <2>1. ASSUME NEW i \in 1 .. n - 1
        PROVE  /\ podFeed'[i].pod <= created
               /\ Lives(pods[podFeed'[i].pod]) => Lives(podFeed'[i].now)
               /\ Follows(podFeed'[i].now, pods[podFeed'[i].pod])
    BY <1>1, <1>4, <1>7 DEF FeedInv
  <2>2. ASSUME NEW i \in 1 .. n - 1, NEW j \in 1 .. n - 1, i < j,
               podFeed'[i].pod = podFeed'[j].pod
        PROVE  Follows(podFeed'[i].now, podFeed'[j].now)
    BY <1>1, <1>4, <1>7, <1>8, <2>2 DEF FeedInv
  <2> HIDE DEF n
  <2> QED
    BY <1>4, <1>6, <2>1, <2>2 DEF FeedInv
<1>10. /\ p <= created /\ (Lives(pods[p]) => Lives(now)) /\ Follows(now, pods[p])
       /\ Follows(podCache[p], now)
  BY <1>1, <1>3 DEF FeedInv, CacheInv
<1>11. \A j \in 1 .. n : 1 < j /\ podFeed[j].pod = p => Follows(now, podFeed[j].now)
  BY <1>1, <1>3 DEF FeedInv
<1>12. \A i \in 1 .. n : Follows(podCache[podFeed[i].pod], podFeed[i].now)
  BY <1>1 DEF CacheInv
<1> HIDE DEF n, p, now
<1>13. \A i \in 1 .. n - 1 : Follows(podCache'[podFeed'[i].pod], podFeed'[i].now)
  <2> TAKE i \in 1 .. n - 1
  <2>1. podFeed'[i] = podFeed[i + 1] /\ i + 1 \in 1 .. n /\ 1 < i + 1
        /\ podFeed[i + 1].pod \in Names
    BY <1>1, <1>4, <1>7
  <2>2. CASE podFeed[i + 1].pod = p
    BY <1>5, <1>11, <2>1, <2>2
  <2>3. CASE podFeed[i + 1].pod # p
    BY <1>5, <1>12, <2>1, <2>3
  <2> QED
    BY <2>2, <2>3
<1>14. \A q \in Names : (Lives(podCache'[q]) => q <= created) /\ Follows(podCache'[q], pods[q])
  BY <1>5, <1>10 DEF CacheInv
<1>15. CacheInv'
  BY <1>4, <1>6, <1>13, <1>14 DEF CacheInv
<1>16. \A q \in Names : Lives(pods[q]) /\ Lives(podCache[q]) => Lives(podCache'[q])
  BY <1>5, <1>10
<1>17. \A q \in Names : Follows(podCache[q], podCache'[q])
  BY <1>5, <1>10 DEF Follows
<1> QED
  BY <1>9, <1>15, <1>16, <1>17

LEMMA SyncLands ==
  ASSUME TypeOK, FeedInv, CacheInv, LandInv, SyncPods
  PROVE  LandInv'
<1>1. UNCHANGED << pods, inflight >>
  BY DEF SyncPods, threadVars
<1>2. ASSUME NEW p \in Names, Bound(p)
      PROVE  Lives(podCache'[p]) /\ (podCache'[p].node = NoNode => p \in inflight)
  <2>1. Lives(pods[p]) /\ Lives(podCache[p]) /\ (podCache[p].node = NoNode => p \in inflight)
    BY <1>2 DEF LandInv, Bound, Lives
  <2>2. Lives(podCache'[p]) /\ Follows(podCache[p], podCache'[p])
    BY <2>1, SyncFeeds
  <2> QED
    BY <2>1, <2>2 DEF Follows, Placed
<1> QED
  BY <1>1, <1>2 DEF LandInv, Bound

\* A step that reorders at most, and forgets only what it has observed.
LEMMA SameLives ==
  ASSUME FeedInv, CacheInv, LandInv, TypeOK,
         \A p \in Names : pods'[p].phase = pods[p].phase /\ pods'[p].node = pods[p].node,
         UNCHANGED << podFeed, podCache, created >>,
         inflight' \in {inflight, inflight \ Observed}
  PROVE  /\ FeedInv' /\ CacheInv' /\ LandInv'
         /\ \A p \in Names : Awaited(p)' <=> Awaited(p)
<1>1. \A p \in Names : /\ Lives(pods'[p]) <=> Lives(pods[p])
                       /\ Placed(pods'[p]) <=> Placed(pods[p])
                       /\ Bound(p)' <=> Bound(p)
  BY DEF Lives, Placed, Bound
<1>2. \A i \in DOMAIN podFeed : podFeed[i].pod \in Names
  BY FeedParts
<1>3. FeedInv'
  BY <1>1, <1>2 DEF FeedInv, Follows
<1>4. CacheInv'
  BY <1>1, <1>2 DEF CacheInv, Follows
<1>5. LandInv'
  BY <1>1 DEF LandInv, Observed, Lives
<1>6. \A p \in Names : Awaited(p)' <=> Awaited(p)
  BY <1>1 DEF Awaited
<1> QED
  BY <1>3, <1>4, <1>5, <1>6

\* What is left of a drop is what was.
LEMMA TodoShrinks ==
  ASSUME TypeOK, TodoInv,
         todo'["loop"] \in {todo["loop"], << >>}
           \/ (todo["loop"] # << >> /\ todo'["loop"] = Tail(todo["loop"])),
         NEW S \in SUBSET Names, \A p \in S : Awaited(p) => Awaited(p)',
         \A i \in DOMAIN todo'["loop"] : todo'["loop"][i].pod \in S
  PROVE  TodoInv'
<1> DEFINE t == todo["loop"]
<1>1. t \in Seq(Placement) /\ Len(t) \in Nat /\ DOMAIN t = 1 .. Len(t)
  BY TodoList
<1>2. CASE todo'["loop"] = t
  <2>1. \A i \in DOMAIN t : Awaited(t[i].pod)'
    BY <1>2 DEF TodoInv
  <2> QED
    BY <1>2, <2>1 DEF TodoInv
<1>3. CASE todo'["loop"] = << >>
  BY <1>3 DEF TodoInv
<1>4. CASE t # << >> /\ todo'["loop"] = Tail(t)
  <2>1. /\ DOMAIN Tail(t) = 1 .. Len(t) - 1
        /\ \A i \in 1 .. Len(t) - 1 : Tail(t)[i] = t[i + 1]
    BY <1>1, <1>4, HeadTailProperties
  <2>2. \A i \in 1 .. Len(t) - 1 : i + 1 \in DOMAIN t
    BY <1>1
  <2>3. \A i, j \in 1 .. Len(t) - 1 : i # j => i + 1 # j + 1
    BY <1>1
  <2>4. /\ \A i \in 1 .. Len(t) - 1 : Awaited(Tail(t)[i].pod)
        /\ \A i, j \in 1 .. Len(t) - 1 : i # j => Tail(t)[i].pod # Tail(t)[j].pod
    BY <2>1, <2>2, <2>3 DEF TodoInv
  <2>5. \A i \in 1 .. Len(t) - 1 : Awaited(todo["loop"][i].pod)'
    BY <1>4, <2>1, <2>4 DEF Awaited, Bound
  <2> QED
    BY <1>4, <2>1, <2>4, <2>5 DEF TodoInv
<1> QED
  BY <1>2, <1>3, <1>4

\* What the loop takes from the cache is not bound.
LEMMA PendingAwaited ==
  ASSUME TypeOK, CacheInv, LandInv, NEW p \in Pending
  PROVE  Awaited(p)
<1>1. p \in Names /\ Lives(podCache[p]) /\ podCache[p].node = NoNode /\ p \notin inflight
  BY DEF Pending, Unbound, Lives
<1> QED
  BY <1>1 DEF Awaited, CacheInv, LandInv

LEMMA TodoStarts ==
  ASSUME TypeOK, CacheInv, LandInv, UNCHANGED << pods, podCache, created >>,
         NEW list \in {Queue, Ojama}, NEW n \in Nat, n <= Len(list),
         NEW columns \in SUBSET DOMAIN Nodes, todo'["loop"] \in Onto(list, n, columns)
  PROVE  TodoInv'
<1>1. /\ list \in Seq(Names)
      /\ \A i, j \in 1 .. Len(list) : i # j => list[i] # list[j]
      /\ \A i \in 1 .. Len(list) : list[i] \in Pending
  BY QueueType, TypeParts
<1>2. Len(list) \in Nat /\ \A i \in 1 .. n : i \in 1 .. Len(list)
  BY <1>1, LenProperties
<1>3. /\ Pending \subseteq Names /\ \A i \in 1 .. n : list[i] \in Names
  BY <1>1, <1>2, QueueType, TypeParts
<1>4. /\ todo'["loop"] \in Seq(Placement) /\ Len(todo'["loop"]) = n
      /\ \A i \in 1 .. n : todo'["loop"][i].pod = list[i]
  BY <1>3, OntoType
<1>5. DOMAIN todo'["loop"] = 1 .. n
  BY <1>4, LenProperties
<1>6. \A i \in 1 .. n : Awaited(list[i])'
  BY <1>1, <1>2, PendingAwaited DEF Awaited, Bound
<1> QED
  BY <1>1, <1>2, <1>4, <1>5, <1>6 DEF TodoInv

LEMMA OrdersKept ==
  ASSUME OrderInv,
         \A p \in Names : Bound(p) /\ Bound(p)' => pods'[p].order = pods[p].order
  PROVE  KeepsPlaces
<1> SUFFICES ASSUME NEW p \in Names, NEW q \in Names,
                    Bound(p), Bound(q), Bound(p)', Bound(q)'
             PROVE  Below(pods, p, q) <=> Below(pods', p, q)
  BY DEF KeepsPlaces
<1>1. /\ pods'[p].order = pods[p].order /\ pods'[q].order = pods[q].order
      /\ pods[p].order # NoStamp /\ pods[q].order # NoStamp
  BY DEF OrderInv, Stamped
<1> QED
  BY <1>1 DEF Below, StackOrder

PlaceStep == FeedInv' /\ CacheInv' /\ LandInv' /\ TodoInv' /\ KeepsPlaces

LEMMA NoFault == ASSUME faults' = 0, TypeOK PROVE ~Fault
BY DEF TypeOK, Fault

\* A step that leaves the store and what the scheduler heard of it alone, and
\* starts no drop.
LEMMA IdlePlace ==
  ASSUME PInv, UNCHANGED << pods, podFeed, podCache, created >>,
         inflight' \in {inflight, inflight \ Observed},
         todo'["loop"] \in {todo["loop"], << >>}
  PROVE  PlaceStep
<1>1. TypeOK /\ OrderInv /\ FeedInv /\ CacheInv /\ LandInv /\ TodoInv
  BY DEF PInv, LInv
<1>2. /\ FeedInv' /\ CacheInv' /\ LandInv'
      /\ \A p \in Names : Awaited(p) => Awaited(p)'
  BY <1>1, SameLives
<1>3. \A i \in DOMAIN todo'["loop"] : todo'["loop"][i].pod \in Names
  <2>1. \A i \in DOMAIN todo["loop"] : todo["loop"][i].pod \in Names
    BY <1>1, TodoList
  <2> QED
    BY <2>1
<1>4. TodoInv'
  BY <1>1, <1>2, <1>3, TodoShrinks
<1>5. KeepsPlaces
  BY <1>1, OrdersKept
<1> QED
  BY <1>2, <1>4, <1>5 DEF PlaceStep

\* The first Pod of a drop of the loop.
LEMMA FirstAwaited ==
  ASSUME Players = {}, TypeOK, TodoInv, pc["loop"] \in {"check", "patch", "bind"}
  PROVE  /\ Next1 \in Names /\ Awaited(Next1)
         /\ \A i \in DOMAIN todo["loop"] : i # 1 => todo["loop"][i].pod # Next1
<1>1. Next1 \in Names /\ todo["loop"] \in Seq(Placement) /\ todo["loop"] # << >>
  BY LoopAlone
<1>2. Head(todo["loop"]) = todo["loop"][1] /\ 1 \in DOMAIN todo["loop"]
  BY <1>1
<1> QED
  BY <1>1, <1>2 DEF TodoInv, Next1

LEMMA StampPlace ==
  ASSUME Players = {}, PInv, StampPod("loop")
  PROVE  PlaceStep
<1>1. /\ TypeOK /\ OrderInv /\ FeedInv /\ CacheInv /\ LandInv /\ TodoInv
      /\ pc["loop"] = "patch"
      /\ UNCHANGED << podFeed, podCache, created, inflight >>
  BY DEF PInv, LInv, StampPod
<1>2. Next1 \in Names /\ Awaited(Next1)
  BY <1>1, FirstAwaited
<1>3. CASE Fails("loop") /\ UNCHANGED pods
  <2>1. todo'["loop"] = << >>
    BY <1>1, <1>3, LoopIsThread DEF Fails, Done, TypeOK
  <2> QED
    BY <1>1, <1>3, <2>1, IdlePlace
<1>4. CASE pods[Next1].phase # "Gone" /\ Stamp(Next1) /\ UNCHANGED todo
  <2>1. /\ \A q \in Names : pods'[q].phase = pods[q].phase /\ pods'[q].node = pods[q].node
        /\ \A q \in Names \ {Next1} : \A r \in Names \ {Next1} :
             Stamped(q) /\ Stamped(r) =>
               /\ pods'[q].order < pods'[r].order <=> pods[q].order < pods[r].order
               /\ pods'[q].order = pods'[r].order <=> pods[q].order = pods[r].order
        /\ \A q \in Names \ {Next1} : (pods'[q].order # NoStamp <=> Stamped(q))
    BY <1>1, <1>2, <1>4, StampKeeps
  <2>2. /\ FeedInv' /\ CacheInv' /\ LandInv'
        /\ \A p \in Names : Awaited(p) => Awaited(p)'
    BY <1>1, <2>1, SameLives
  <2>3. TodoInv'
    BY <1>1, <1>4, <2>2, TodoList, TodoShrinks
  <2>4. ASSUME NEW p \in Names, NEW q \in Names, Bound(p), Bound(q)
        PROVE  Below(pods, p, q) <=> Below(pods', p, q)
    <3>1. p # Next1 /\ q # Next1
      BY <1>2, <2>4 DEF Awaited
    <3>2. Stamped(p) /\ Stamped(q)
      BY <1>1, <2>4 DEF OrderInv
    <3>3. /\ pods'[p].order # NoStamp /\ pods'[q].order # NoStamp
          /\ pods[p].order # NoStamp /\ pods[q].order # NoStamp
      BY <2>1, <3>1, <3>2 DEF Stamped
    <3> QED
      BY <2>1, <3>1, <3>2, <3>3 DEF Below, StackOrder
  <2>5. KeepsPlaces
    BY <2>4 DEF KeepsPlaces
  <2> QED
    BY <2>2, <2>3, <2>5 DEF PlaceStep
<1> QED
  BY <1>3, <1>4 DEF StampPod, Next1

LEMMA BindPlace ==
  ASSUME Players = {}, PInv, BindPod("loop")
  PROVE  PlaceStep
<1>1. /\ TypeOK /\ OrderInv /\ TopInv /\ FeedInv /\ CacheInv /\ LandInv /\ TodoInv
      /\ pc["loop"] = "bind" /\ UNCHANGED << podCache, created >>
  BY DEF PInv, LInv, BindPod
<1>2. /\ Next1 \in Names /\ Awaited(Next1)
      /\ \A i \in DOMAIN todo["loop"] : i # 1 => todo["loop"][i].pod # Next1
  BY <1>1, FirstAwaited
<1>3. "loop" \in Threads /\ Head(todo["loop"]).node \in DOMAIN Nodes
  BY <1>1, LoopIsThread, TypeParts, TodoParts
<1>4. CASE Fails("loop") /\ UNCHANGED << storeVars, inflight >>
  <2>1. todo'["loop"] = << >>
    BY <1>1, <1>3, <1>4 DEF Fails, Done, TypeOK
  <2> QED
    BY <1>1, <1>4, <2>1, IdlePlace DEF storeVars
<1>5. ASSUME MayBind(Next1), inflight' = inflight \cup {Next1}, Advance("loop"),
             Write(Next1, [pods[Next1] EXCEPT !.node = Head(todo["loop"]).node])
      PROVE  PlaceStep
  <2> DEFINE pod == [pods[Next1] EXCEPT !.node = Head(todo["loop"]).node]
  <2>1. pod \in Pod /\ Write(Next1, pod)
    <3>1. pods[Next1] \in Pod
      BY <1>1, <1>2 DEF TypeOK
    <3> QED
      BY <1>3, <1>5, <3>1, ChangedPods
  <2>2. Lives(pods[Next1]) /\ ~Placed(pods[Next1])
    BY <1>5 DEF MayBind, Lives, Placed
  <2>3. created \in Nat /\ created <= created' /\ created' \in Nat /\ Next1 <= created'
    BY <1>1, <1>2 DEF TypeOK, Awaited
  <2>4. Follows(pods[Next1], pod)
    BY <2>2 DEF Follows
  <2>5. /\ pods'[Next1].order = pods[Next1].order
        /\ \A q \in Names \ {Next1} : pods'[q] = pods[q]
    <3>1. Stamped(Next1)
      BY <1>1, <1>5 DEF TopInv, MayBind
    <3> QED
      BY <1>1, <1>2, <1>3, <1>5, <3>1, BindOrder
  <2> HIDE DEF pod
  <2>6. FeedInv' /\ CacheInv'
    BY <1>1, <1>2, <2>1, <2>2, <2>3, <2>4, WriteFeeds
  <2>7. LandInv'
    <3> SUFFICES ASSUME NEW q \in Names, Bound(q)'
                 PROVE  Lives(podCache[q]) /\ (podCache[q].node = NoNode => q \in inflight')
      BY <1>1 DEF LandInv
    <3>1. CASE q = Next1
      BY <1>2, <1>5, <2>2, <3>1 DEF Awaited
    <3>2. CASE q # Next1
      <4>1. Bound(q)
        BY <2>5, <3>2 DEF Bound
      <4> QED
        BY <1>1, <1>5, <4>1 DEF LandInv
    <3> QED
      BY <3>1, <3>2
  <2>8. TodoInv'
    <3> DEFINE t == todo["loop"]
               S == Names \ {Next1}
    <3>1. /\ t \in Seq(Placement) /\ Len(t) \in Nat /\ DOMAIN t = 1 .. Len(t) /\ t # << >>
          /\ \A i \in DOMAIN t : t[i].pod \in Names
      BY <1>1, TodoList, LoopAlone
    <3>2. \A p \in S : Awaited(p) => Awaited(p)'
      BY <1>1, <2>5 DEF Awaited, Bound
    <3>3. todo'["loop"] \in {<< >>, Tail(t)}
      BY <1>1, <1>3, <1>5 DEF Advance, Done, TypeOK
    <3>4. \A i \in DOMAIN todo'["loop"] : todo'["loop"][i].pod \in S
      <4>1. CASE todo'["loop"] = << >>
        BY <4>1
      <4>2. CASE todo'["loop"] = Tail(t)
        <5>1. /\ DOMAIN Tail(t) = 1 .. Len(t) - 1
              /\ \A i \in 1 .. Len(t) - 1 : Tail(t)[i] = t[i + 1]
          BY <3>1, HeadTailProperties
        <5>2. \A i \in 1 .. Len(t) - 1 : i + 1 \in DOMAIN t /\ i + 1 # 1
          BY <3>1
        <5>3. \A i \in 1 .. Len(t) - 1 : Tail(t)[i].pod \in S
          BY <1>2, <3>1, <5>1, <5>2
        <5> QED
          BY <4>2, <5>1, <5>3
      <4> QED
        BY <3>3, <4>1, <4>2
    <3>5. S \in SUBSET Names
      OBVIOUS
    <3> HIDE DEF S
    <3> QED
      BY <1>1, <3>1, <3>2, <3>3, <3>4, <3>5, TodoShrinks
  <2>9. KeepsPlaces
    <3>1. \A q \in Names : pods'[q].order = pods[q].order
      BY <2>5
    <3> QED
      BY <1>1, <3>1, OrdersKept
  <2> QED
    BY <2>6, <2>7, <2>8, <2>9 DEF PlaceStep
<1> QED
  BY <1>4, <1>5 DEF BindPod, Next1

LEMMA LoopPlace ==
  ASSUME PInv, Loop
  PROVE  PlaceStep
<1>1. /\ TypeOK /\ OrderInv /\ FeedInv /\ CacheInv /\ LandInv /\ TodoInv
      /\ todo \in [Threads -> Seq(Placement)] /\ "loop" \in Threads
  BY LoopIsThread DEF PInv, LInv, TypeOK
<1>2. /\ UNCHANGED << pods, podFeed, podCache, created >>
      /\ inflight' \in {inflight, inflight \ Observed}
  BY DEF Loop, Tick, AutoPlays, AutoWaits, LoopDrops, storeVars
<1>3. /\ FeedInv' /\ CacheInv' /\ LandInv' /\ KeepsPlaces
  BY <1>1, <1>2, SameLives, OrdersKept
<1>4. CASE todo'["loop"] \in {todo["loop"], << >>}
  BY <1>2, <1>4, IdlePlace
<1>5. ASSUME NEW kb \in BOOLEAN, NEW placements \in Onto(Ojama, Len(Ojama), ColumnsFor(kb)),
             todo' = [todo EXCEPT !["loop"] = placements]
      PROVE  PlaceStep
  <2>1. Len(Ojama) \in Nat /\ Len(Ojama) <= Len(Ojama)
    <3>1. Ojama \in Seq(Names)
      BY <1>1, QueueType, TypeParts
    <3>2. Len(Ojama) \in Nat
      BY <3>1, LenProperties
    <3> QED
      BY <3>2
  <2>2. todo'["loop"] = placements
    BY <1>1, <1>5
  <2>3. TodoInv'
    BY <1>1, <1>2, <2>1, <2>2, ColumnsAreNodes, TodoStarts
  <2> QED
    BY <1>3, <2>3 DEF PlaceStep
<1>6. ASSUME NEW kb \in BOOLEAN, AutoReady(kb), NEW placements \in AutoPlacements(kb),
             todo' = [todo EXCEPT !["loop"] = placements]
      PROVE  PlaceStep
  <2>1. PairSize \in Nat /\ PairSize <= Len(Queue)
    <3>1. Queue \in Seq(Names)
      BY <1>1, QueueType, TypeParts
    <3>2. Len(Queue) \in Nat
      BY <3>1, LenProperties
    <3> QED
      BY <1>6, <3>2, SchedulerAssumption DEF AutoReady
  <2>2. todo'["loop"] = placements /\ placements \in Onto(Queue, PairSize, ColumnsFor(kb))
    BY <1>1, <1>6 DEF AutoPlacements
  <2>3. TodoInv'
    BY <1>1, <1>2, <2>1, <2>2, ColumnsAreNodes, TodoStarts
  <2> QED
    BY <1>3, <2>3 DEF PlaceStep
<1>7. CASE Tick
  BY <1>4, <1>5, <1>7 DEF Tick
<1>8. CASE AutoPlays
  BY <1>6, <1>8 DEF AutoPlays
<1>9. CASE AutoWaits \/ LoopDrops
  <2>1. todo'["loop"] \in {todo["loop"], << >>}
    BY <1>1, <1>9 DEF AutoWaits, LoopDrops, Done
  <2> QED
    BY <1>4, <2>1
<1> QED
  BY <1>7, <1>8, <1>9 DEF Loop

LEMMA OtherPlace ==
  ASSUME faults' = 0, PInv,
         \/ \E p \in Names : Expire(p)
         \/ \E m \in Modes : SetMode(m)
         \/ Restart \/ SyncPods
  PROVE  PlaceStep
<1>1. TypeOK /\ OrderInv /\ FeedInv /\ CacheInv /\ LandInv /\ TodoInv
  BY DEF PInv, LInv
<1>2. ~Fault
  BY <1>1, NoFault
<1>3. CASE \E m \in Modes : SetMode(m)
  BY <1>3, IdlePlace DEF SetMode, storeVars
<1>4. CASE SyncPods
  <2>1. /\ FeedInv' /\ CacheInv' /\ LandInv'
        /\ \A p \in Names : Lives(pods[p]) /\ Lives(podCache[p]) => Lives(podCache'[p])
    BY <1>1, <1>4, SyncFeeds, SyncLands
  <2>2. UNCHANGED << pods, created, todo >>
    BY <1>4 DEF SyncPods, threadVars
  <2>3. \A p \in Names : Awaited(p) => Awaited(p)'
    BY <2>1, <2>2 DEF Awaited, Bound
  <2>4. TodoInv'
    BY <1>1, <2>2, <2>3, TodoList, TodoShrinks
  <2>5. KeepsPlaces
    BY <1>1, <2>2, OrdersKept
  <2> QED
    BY <2>1, <2>4, <2>5 DEF PlaceStep
<1> QED
  BY <1>2, <1>3, <1>4 DEF Expire, Restart

LEMMA ClusterPlace ==
  ASSUME PInv, ClusterStep
  PROVE  PlaceStep
<1>1. TypeOK /\ OrderInv /\ FeedInv /\ CacheInv /\ LandInv /\ TodoInv
  BY DEF PInv, LInv
<1>2. UNCHANGED << podCache, inflight, todo >>
  BY <1>1, ClusterAges DEF threadVars
<1>3. PICK p \in Names, pod \in Pod : Write(p, pod) /\ Ages(p, pod)
  BY <1>1, ClusterAges
<1>4. /\ created <= created' /\ p <= created'
      /\ \A q \in Names : Bound(q)' =>
           Bound(q) /\ pods'[q].order = pods[q].order /\ pods'[q].node = pods[q].node
      /\ \A q \in Names : pods'[q].phase # "Gone" /\ q <= created =>
           pods[q].phase # "Gone" /\ pods'[q].order = pods[q].order
  BY <1>1, <1>3, AgesOrder
<1>5. created \in Nat /\ created' \in Nat /\ p \in Nat
  BY <1>1, <1>3, NamesFinite DEF TypeOK, Ages
<1>6. Lives(pods[p]) => p <= created
  BY <1>1 DEF OrderInv, Lives, Known
<1>7. Lives(pod) /\ p <= created => Lives(pods[p])
  BY <1>3, <1>5, GoneIsPod DEF Ages, Lives, Bound
<1>8. Follows(pods[p], pod)
  BY <1>3, <1>5, <1>6, GoneIsPod DEF Ages, Follows, Lives, Placed, Bound
<1>9. FeedInv' /\ CacheInv'
  BY <1>1, <1>2, <1>3, <1>4, <1>5, <1>7, <1>8, WriteFeeds
<1>10. LandInv'
  BY <1>1, <1>2, <1>4 DEF LandInv
<1>11. \A q \in Names : Awaited(q) => Awaited(q)'
  <2>1. \A q \in Names : q \in Nat
    BY NamesFinite
  <2>2. \A q \in Names : q <= created => q <= created'
    BY <1>4, <1>5, <2>1
  <2> QED
    BY <1>2, <1>4, <2>2 DEF Awaited, Lives
<1>12. TodoInv'
  BY <1>1, <1>2, <1>11, TodoList, TodoShrinks
<1>13. KeepsPlaces
  BY <1>1, <1>4, OrdersKept
<1> QED
  BY <1>9, <1>10, <1>12, <1>13 DEF PlaceStep

LEMMA InitPlace == Init => PInv
<1> SUFFICES ASSUME Init PROVE PInv
  OBVIOUS
<1>1. LInv
  BY InitTop
<1>2. podFeed = << >> /\ todo["loop"] = << >>
  BY LoopIsThread DEF Init
<1>3. \A p \in Names : ~Lives(pods[p]) /\ ~Lives(podCache[p])
  BY GoneIsPod DEF Init, Lives
<1>4. FeedInv /\ TodoInv
  BY <1>2 DEF FeedInv, TodoInv
<1>5. CacheInv /\ LandInv
  BY <1>2, <1>3 DEF CacheInv, LandInv, Follows, Placed, Bound, Lives
<1> QED
  BY <1>1, <1>4, <1>5 DEF PInv

LEMMA FaultsGrow == TypeOK /\ [Next]_vars => faults' \in {faults, faults + 1}
<1> SUFFICES ASSUME [Next]_vars PROVE UNCHANGED faults \/ Fault
  BY DEF Fault
<1>1. ASSUME NEW c \in Players,
             \/ PlayerLists(c) \/ PlayerRefused(c)
             \/ \E x \in Requests : PlayerDrops(c, x)
      PROVE  UNCHANGED faults \/ Fault
  BY <1>1 DEF PlayerLists, PlayerRefused, PlayerDrops, ReadsKbkb
<1>2. ASSUME NEW c \in Threads, StampPod(c) \/ BindPod(c) \/ StampFault(c) \/ BindFault(c)
      PROVE  UNCHANGED faults \/ Fault
  BY <1>2 DEF StampPod, BindPod, StampFault, BindFault
<1>3. CASE Loop
  BY <1>3 DEF Loop, Tick, AutoPlays, AutoWaits, LoopDrops, ReadsKbkb
<1>4. CASE \/ \E p \in Names : Expire(p)
           \/ \E m \in Modes : SetMode(m)
           \/ Restart \/ SyncPods
  BY <1>4 DEF Expire, SetMode, Restart, SyncPods, threadVars
<1>5. CASE ClusterStep
  BY <1>5 DEF ClusterStep, Arrive, Run, Delete, Removed, threadVars
<1>6. CASE UNCHANGED vars
  BY <1>6 DEF vars
<1> QED
  BY <1>1, <1>2, <1>3, <1>4, <1>5, <1>6 DEF Next, ClusterStep

\* PInv holds until a request fails.
PlaceInv == LInv /\ (faults = 0 => PInv)

LEMMA StepPlace ==
  Players = {} /\ PlaceInv /\ [Next]_vars => PlaceInv' /\ (faults' = 0 => KeepsPlaces)
<1> SUFFICES ASSUME Players = {}, LInv, faults = 0 => PInv, [Next]_vars, faults' = 0
             PROVE  PInv' /\ KeepsPlaces
  BY StepTop DEF PlaceInv
<1>1. LInv' /\ Threads = {"loop"} /\ TypeOK
  BY StepTop DEF LInv, Threads
<1>2. PInv
  BY <1>1, FaultsGrow DEF TypeOK
<1>3. SUFFICES PlaceStep
  BY <1>1, <1>3 DEF PlaceStep, PInv
<1>4. CASE UNCHANGED vars
  BY <1>2, <1>4, IdlePlace DEF vars
<1>5. CASE Next
  <2>1. ~Fault
    BY <1>1, NoFault
  <2>2. CASE StampPod("loop")
    BY <1>2, <2>2, StampPlace
  <2>3. CASE BindPod("loop")
    BY <1>2, <2>3, BindPlace
  <2>4. CASE Loop
    BY <1>2, <2>4, LoopPlace
  <2>5. CASE \/ \E p \in Names : Expire(p)
             \/ \E m \in Modes : SetMode(m)
             \/ Restart \/ SyncPods
    BY <1>2, <2>5, OtherPlace
  <2>6. CASE ClusterStep
    BY <1>2, <2>6, ClusterPlace
  <2>7. ~StampFault("loop") /\ ~BindFault("loop")
    BY <2>1 DEF StampFault, BindFault
  <2> QED
    BY <1>1, <1>5, <2>2, <2>3, <2>4, <2>5, <2>6, <2>7 DEF Next, ClusterStep
<1> QED
  BY <1>4, <1>5

\* Two Pods that have landed stay the way they are stacked, however old the cache
\* is, when the loop is the only one that drops and until a request fails: what
\* it has bound is in flight until the cache shows it bound, so it is not
\* stamped again.  Both conditions are needed.
THEOREM LoopKeepsPlaces ==
  ASSUME Players = {}
  PROVE  Spec => LoopPlaceIsFinal
<1>1. Init => PlaceInv
  BY InitPlace DEF PlaceInv, PInv
<1>2. PlaceInv /\ [Next]_vars => PlaceInv'
  BY StepPlace
<1>3. PlaceInv /\ [Next]_vars => [faults' = 0 => KeepsPlaces]_vars
  BY StepPlace
<1> QED
  BY <1>1, <1>2, <1>3, PTL DEF Spec, LoopPlaceIsFinal

-----------------------------------------------------------------------------
(***************************************************************************)
(* One thread drops pairs: the loop, or one client while the loop rains    *)
(* garbage only.                                                           *)
(***************************************************************************)
OneDropper == Players = {} \/ ((\E c : Players = {c}) /\ Modes = {"manual"})

Dropper == IF Players = {} THEN "loop" ELSE CHOOSE c \in Players : TRUE

LEMMA DropperIs ==
  ASSUME OneDropper
  PROVE  /\ Dropper \in Threads /\ Threads = {Dropper, "loop"} /\ "loop" \in Threads
         /\ Players = {} => Dropper = "loop"
         /\ Players # {} => Players = {Dropper} /\ Dropper # "loop" /\ Modes = {"manual"}
<1>1. CASE Players = {}
  BY <1>1 DEF Dropper, Threads
<1>2. CASE Players # {}
  <2>1. Players = {Dropper} /\ Modes = {"manual"}
    BY <1>2 DEF Dropper, OneDropper
  <2> QED
    BY <1>2, <2>1, LoopIsThread DEF Threads
<1> QED
  BY <1>1, <1>2

\* The Pod a thread has to bind next.
Next1Of(c) == Head(todo[c]).pod

\* What a step may do to the store.
StampStep(c) ==
  /\ pc[c] = "patch" /\ Lives(pods[Next1Of(c)])
  /\ Stamp(Next1Of(c))
  /\ UNCHANGED << podFeed, podCache, created, inflight >>

BindStep(c) ==
  /\ pc[c] = "bind" /\ MayBind(Next1Of(c))
  /\ Write(Next1Of(c), [pods[Next1Of(c)] EXCEPT !.node = Head(todo[c]).node])
  /\ UNCHANGED << podCache, created >>

LEMMA StoreSteps ==
  ASSUME [Next]_vars
  PROVE  \/ UNCHANGED << pods, created >>
         \/ \E c \in Threads : StampStep(c) \/ BindStep(c)
         \/ ClusterStep
<1> USE DEF storeVars
<1>1. ASSUME NEW c \in Players,
             \/ PlayerLists(c) \/ PlayerRefused(c)
             \/ \E x \in Requests : PlayerDrops(c, x)
      PROVE  UNCHANGED << pods, created >>
  BY <1>1 DEF PlayerLists, PlayerRefused, PlayerDrops
<1>2. ASSUME NEW c \in Threads, StampPod(c) \/ StampFault(c)
      PROVE  UNCHANGED << pods, created >> \/ StampStep(c)
  BY <1>2 DEF StampPod, StampFault, StampStep, Next1Of, Lives
<1>3. ASSUME NEW c \in Threads, BindPod(c) \/ BindFault(c)
      PROVE  UNCHANGED << pods, created >> \/ BindStep(c)
  BY <1>3 DEF BindPod, BindFault, BindStep, Next1Of
<1>4. CASE Loop
  BY <1>4 DEF Loop, Tick, AutoPlays, AutoWaits, LoopDrops
<1>5. CASE \/ \E p \in Names : Expire(p)
           \/ \E m \in Modes : SetMode(m)
           \/ Restart \/ SyncPods
  BY <1>5 DEF Expire, SetMode, Restart, SyncPods
<1>6. CASE UNCHANGED vars
  BY <1>6 DEF vars
<1> QED
  BY <1>1, <1>2, <1>3, <1>4, <1>5, <1>6 DEF Next, ClusterStep

LEMMA HeadParts ==
  ASSUME TypeOK, NEW c \in Threads, pc[c] \in {"check", "patch", "bind"}
  PROVE  /\ Next1Of(c) \in Names /\ Head(todo[c]).node \in DOMAIN Nodes
         /\ 1 \in DOMAIN todo[c] /\ Head(todo[c]) = todo[c][1]
         /\ todo[c] \in Seq(Placement) /\ todo[c] # << >>
<1>1. ThreadsOK
  BY TypeParts
<1>2. /\ Next1Of(c) \in Names /\ Head(todo[c]).node \in DOMAIN Nodes
      /\ todo[c] \in Seq(Placement) /\ todo[c] # << >>
  BY <1>1, TodoParts DEF Next1Of
<1> QED
  BY <1>2

\* A Pod that lives is what it was.
LEMMA KindsKept ==
  ASSUME TypeOK, OrderInv, [Next]_vars
  PROVE  /\ created <= created'
         /\ \A p \in Names : p <= created /\ Lives(pods'[p]) =>
              Lives(pods[p]) /\ pods'[p].ojama = pods[p].ojama
<1>0. created \in Nat /\ pods \in [Names -> Pod] /\ \A p \in Names : pods[p] \in Pod /\ p \in Nat
  BY NamesFinite DEF TypeOK
<1>1. CASE UNCHANGED << pods, created >>
  BY <1>0, <1>1
<1>2. ASSUME NEW c \in Threads, StampStep(c)
      PROVE  created' = created /\ \A p \in Names : pods'[p].phase = pods[p].phase /\ pods'[p].ojama = pods[p].ojama
  <2>1. Next1Of(c) \in Names
    BY <1>2, HeadParts DEF StampStep
  <2>2. \A q \in Names : \E o \in Orders : pods'[q] = [pods[q] EXCEPT !.order = o]
    BY <1>0, <1>2, <2>1, StampNewest DEF StampStep
  <2> QED
    BY <1>0, <1>2, <2>2 DEF StampStep, Pod
<1>3. ASSUME NEW c \in Threads, BindStep(c)
      PROVE  created' = created /\ \A p \in Names : pods'[p].phase = pods[p].phase /\ pods'[p].ojama = pods[p].ojama
  <2>1. Next1Of(c) \in Names /\ Head(todo[c]).node \in DOMAIN Nodes
    BY <1>3, HeadParts DEF BindStep
  <2>2. [pods[Next1Of(c)] EXCEPT !.node = Head(todo[c]).node] \in Pod
    BY <1>0, <2>1, ChangedPods
  <2>3. /\ pods'[Next1Of(c)] = [pods[Next1Of(c)] EXCEPT !.node = Head(todo[c]).node]
        /\ \A q \in Names \ {Next1Of(c)} : pods'[q] = pods[q]
    BY <1>3, <2>1, <2>2, WriteOne DEF BindStep
  <2> QED
    BY <1>0, <1>3, <2>1, <2>3 DEF BindStep, Pod
<1>4. CASE ClusterStep
  <2>1. PICK p \in Names, pod \in Pod : Write(p, pod) /\ Ages(p, pod)
    BY <1>4, ClusterAges
  <2>2. pods'[p] = pod /\ \A q \in Names \ {p} : pods'[q] = pods[q]
    BY <2>1, WriteOne
  <2>3. created <= created' /\ (p <= created /\ Lives(pod) => Lives(pods[p]) /\ pod.ojama = pods[p].ojama)
    BY <1>0, <2>1, GoneIsPod DEF Ages, Lives, Bound
  <2> QED
    BY <2>2, <2>3
<1> QED
  BY <1>0, <1>1, <1>2, <1>3, <1>4, StoreSteps DEF Lives

-----------------------------------------------------------------------------
(***************************************************************************)
(* Orders, whoever drops.                                                  *)
(***************************************************************************)
BindInv ==
  \A c \in Threads :
    pc[c] = "bind" =>
      Next1Of(c) <= created /\ (Lives(pods[Next1Of(c)]) => Stamped(Next1Of(c)))

\* A thread that is about to bind has just stamped that Pod, or goes on being
\* about to.
LEMMA BindReached ==
  ASSUME TypeOK, [Next]_vars, NEW c \in Threads, pc'[c] = "bind"
  PROVE  todo'[c] = todo[c] /\ (pc[c] = "bind" \/ StampStep(c))
<1>0. /\ pc \in [Threads -> Steps] /\ todo \in [Threads -> Seq(Placement)]
      /\ Players \subseteq Threads /\ "loop" \in Threads
  BY LoopIsThread, TypeParts DEF ThreadsOK
<1>1. ASSUME NEW d \in Players,
             \/ PlayerLists(d) \/ PlayerRefused(d)
             \/ \E x \in Requests : PlayerDrops(d, x)
      PROVE  d # c /\ pc'[c] = pc[c] /\ todo'[c] = todo[c]
  BY <1>0, <1>1 DEF PlayerLists, PlayerRefused, PlayerDrops
<1>2. ASSUME NEW d \in Threads, StampPod(d) \/ StampFault(d) \/ BindPod(d) \/ BindFault(d), d # c
      PROVE  pc'[c] = pc[c] /\ todo'[c] = todo[c]
  BY <1>0, <1>2 DEF StampPod, StampFault, BindPod, BindFault, Fails, Done, Advance
<1>3. CASE StampPod(c)
  BY <1>0, <1>3 DEF StampPod, Fails, Done, StampStep, Lives, Next1Of
<1>4. CASE StampFault(c) \/ BindPod(c) \/ BindFault(c)
  BY <1>0, <1>4 DEF StampFault, BindPod, BindFault, Fails, Done, Advance
<1>5. CASE Loop
  BY <1>0, <1>5 DEF Loop, Tick, AutoPlays, AutoWaits, LoopDrops, Done
<1>6. CASE \/ \E p \in Names : Expire(p)
           \/ \E m \in Modes : SetMode(m)
           \/ Restart \/ SyncPods
  BY <1>0, <1>6 DEF Expire, SetMode, Restart, SyncPods, threadVars
<1>7. CASE ClusterStep
  BY <1>7, ClusterAges DEF threadVars
<1>8. CASE UNCHANGED vars
  BY <1>8 DEF vars
<1> QED
  BY <1>1, <1>2, <1>3, <1>4, <1>5, <1>6, <1>7, <1>8 DEF Next, ClusterStep

\* The store changes, and no Pod of S is stamped.
StampsNone(S) ==
  \/ UNCHANGED << pods, created >>
  \/ \E c \in Threads : StampStep(c) /\ Next1Of(c) \notin S
  \/ \E c \in Threads : BindStep(c)
  \/ ClusterStep

\* What a step that stamps neither of two Pods leaves of their order.
LEMMA BeneathKept ==
  ASSUME TypeOK, OrderInv, NEW p \in Names, NEW q \in Names, StampsNone({p, q}),
         q <= created, Lives(pods'[q]), Stamped(q), pods[p].order < pods[q].order
  PROVE  pods'[p].order < pods'[q].order /\ pods'[q].order # NoStamp
<1>0. /\ pods \in [Names -> Pod]
      /\ \A r \in Names : pods[r] \in Pod /\ pods[r].order \in Orders
  BY DEF TypeOK, Pod, Orders
<1>1. CASE UNCHANGED << pods, created >>
  BY <1>1 DEF Stamped
<1>2. ASSUME NEW c \in Threads, StampStep(c), Next1Of(c) \notin {p, q}
      PROVE  pods'[p].order < pods'[q].order /\ pods'[q].order # NoStamp
  <2> DEFINE h == Next1Of(c)
  <2>1. h \in Names /\ h # p /\ h # q /\ Stamp(h) /\ pods[h].phase # "Gone"
    BY <1>2, HeadParts DEF StampStep, Lives
  <2> HIDE DEF h
  <2>2. /\ \A r \in Names : pods'[r].order \in Orders
        /\ \A r \in Names \ {h} : (pods'[r].order # NoStamp <=> Stamped(r))
        /\ \A r \in Names \ {h} : \A s \in Names \ {h} :
             Stamped(r) /\ Stamped(s) =>
               (pods'[r].order < pods'[s].order <=> pods[r].order < pods[s].order)
    BY <2>1, StampKeeps
  <2>3. CASE Stamped(p)
    BY <2>1, <2>2, <2>3
  <2>4. CASE ~Stamped(p)
    <3>1. pods'[p].order = NoStamp /\ pods'[q].order # NoStamp /\ pods'[q].order \in Orders
      BY <2>1, <2>2, <2>4
    <3> QED
      BY <3>1 DEF Orders, NoStamp
  <2> QED
    BY <2>3, <2>4
<1>3. ASSUME NEW c \in Threads, BindStep(c)
      PROVE  pods'[p].order < pods'[q].order /\ pods'[q].order # NoStamp
  <2>1. Next1Of(c) \in Names /\ Head(todo[c]).node \in DOMAIN Nodes
    BY <1>3, HeadParts DEF BindStep
  <2>2. [pods[Next1Of(c)] EXCEPT !.node = Head(todo[c]).node] \in Pod
    BY <1>0, <2>1, ChangedPods
  <2>3. /\ pods'[Next1Of(c)] = [pods[Next1Of(c)] EXCEPT !.node = Head(todo[c]).node]
        /\ \A r \in Names \ {Next1Of(c)} : pods'[r] = pods[r]
    BY <1>3, <2>1, <2>2, WriteOne DEF BindStep
  <2>4. \A r \in Names : pods'[r].order = pods[r].order
    BY <1>0, <2>1, <2>3 DEF Pod
  <2> QED
    BY <2>4 DEF Stamped
<1>4. CASE ClusterStep
  <2>1. PICK r \in Names, pod \in Pod : Write(r, pod) /\ Ages(r, pod)
    BY <1>4, ClusterAges
  <2>2. /\ \A s \in Names : pods'[s].order \in {pods[s].order, NoStamp}
        /\ pods'[q].order = pods[q].order
    BY <2>1, AgesOrder DEF Lives
  <2>3. NoStamp < pods[q].order
    BY <1>0 DEF Stamped, Orders, NoStamp
  <2> QED
    BY <2>2, <2>3 DEF Stamped
<1> QED
  BY <1>1, <1>2, <1>3, <1>4 DEF StampsNone

\* A stamp is not lost while the Pod lives.
LEMMA StampsKept ==
  ASSUME TypeOK, OrderInv, [Next]_vars, NEW p \in Names, p <= created, Lives(pods'[p]),
         Stamped(p) \/ \E c \in Threads : StampStep(c) /\ p = Next1Of(c)
  PROVE  Stamped(p)'
<1>0. /\ pods \in [Names -> Pod] /\ \A r \in Names : pods[r] \in Pod
  BY DEF TypeOK
<1>2. ASSUME NEW c \in Threads, StampStep(c), p = Next1Of(c) \/ Stamped(p)
      PROVE  Stamped(p)'
  <2>1. Next1Of(c) \in Names /\ Stamp(Next1Of(c)) /\ pods[Next1Of(c)].phase # "Gone"
    BY <1>2, HeadParts DEF StampStep, Lives
  <2> QED
    BY <1>2, <2>1, StampKeeps DEF Stamped
<1>3. ASSUME NEW c \in Threads, BindStep(c)
      PROVE  pods'[p].order = pods[p].order
  <2>1. Next1Of(c) \in Names /\ Head(todo[c]).node \in DOMAIN Nodes
    BY <1>3, HeadParts DEF BindStep
  <2>2. [pods[Next1Of(c)] EXCEPT !.node = Head(todo[c]).node] \in Pod
    BY <1>0, <2>1, ChangedPods
  <2>3. /\ pods'[Next1Of(c)] = [pods[Next1Of(c)] EXCEPT !.node = Head(todo[c]).node]
        /\ \A r \in Names \ {Next1Of(c)} : pods'[r] = pods[r]
    BY <1>3, <2>1, <2>2, WriteOne DEF BindStep
  <2> QED
    BY <1>0, <2>1, <2>3 DEF Pod
<1>4. CASE ClusterStep
  <2>1. PICK r \in Names, pod \in Pod : Write(r, pod) /\ Ages(r, pod)
    BY <1>4, ClusterAges
  <2>2. pods'[p].order = pods[p].order
    BY <2>1, AgesOrder DEF Lives
  <2>3. \A c \in Threads : ~StampStep(c) \/ Stamped(p)'
    BY <1>2
  <2> QED
    BY <1>2, <2>2, <2>3 DEF Stamped
<1> QED
  BY <1>2, <1>3, <1>4, StoreSteps DEF Stamped

LEMMA StepOrder ==
  ASSUME TypeOK, OrderInv, BindInv, [Next]_vars
  PROVE  OrderInv' /\ BindInv'
<1>1. OrderInv'
  <2>1. CASE UNCHANGED << pods, created >>
    BY <2>1, StoreAlone
  <2>2. ASSUME NEW c \in Threads, StampStep(c) PROVE OrderInv'
    <3>1. Next1Of(c) \in Names
      BY <2>2, HeadParts DEF StampStep
    <3> QED
      BY <2>2, <3>1, StampOrder DEF StampStep, Lives
  <2>3. ASSUME NEW c \in Threads, BindStep(c) PROVE OrderInv'
    <3>1. Next1Of(c) \in Names /\ Head(todo[c]).node \in DOMAIN Nodes
      BY <2>3, HeadParts DEF BindStep
    <3>2. Stamped(Next1Of(c))
      BY <2>3 DEF BindInv, BindStep, MayBind, Lives
    <3> QED
      BY <2>3, <3>1, <3>2, BindOrder DEF BindStep
  <2>4. CASE ClusterStep
    BY <2>4, ClusterAges, AgesOrder
  <2> QED
    BY <2>1, <2>2, <2>3, <2>4, StoreSteps
<1>2. ASSUME NEW c \in Threads, pc'[c] = "bind"
      PROVE  Next1Of(c) <= created' /\ (Lives(pods'[Next1Of(c)]) => Stamped(Next1Of(c))')
             /\ Next1Of(c)' = Next1Of(c)
  <2>1. todo'[c] = todo[c] /\ (pc[c] = "bind" \/ StampStep(c))
    BY <1>2, BindReached
  <2>2. Next1Of(c) \in Names /\ Next1Of(c) \in Nat /\ created \in Nat
    <3>1. pc[c] \in {"patch", "bind"}
      BY <2>1 DEF StampStep
    <3>2. Next1Of(c) \in Names
      BY <3>1, HeadParts
    <3>3. created \in Nat
      BY SchedulerAssumption DEF TypeOK
    <3>4. Names \subseteq Nat
      BY NamesFinite
    <3> QED
      BY <3>2, <3>3, <3>4
  <2>3. Next1Of(c) <= created
    BY <2>1, <2>2 DEF BindInv, StampStep, OrderInv, Known, Lives
  <2>4. created <= created' /\ created' \in Nat
    BY KindsKept, StepType DEF TypeOK
  <2>5. Next1Of(c) <= created'
    BY <2>2, <2>3, <2>4
  <2>6. ASSUME Lives(pods'[Next1Of(c)]) PROVE Stamped(Next1Of(c))'
    <3>1. Lives(pods[Next1Of(c)])
      BY <2>2, <2>3, <2>6, KindsKept
    <3>2. Stamped(Next1Of(c)) \/ StampStep(c)
      BY <2>1, <3>1 DEF BindInv
    <3>3. Next1Of(c)' = Next1Of(c)
      BY <2>1 DEF Next1Of
    <3> DEFINE p == Next1Of(c)
    <3>4. p \in Names /\ p <= created /\ Lives(pods'[p]) /\ p' = p
          /\ (Stamped(p) \/ \E d \in Threads : StampStep(d) /\ p = Next1Of(d))
      BY <2>2, <2>3, <2>6, <3>2, <3>3
    <3> HIDE DEF p
    <3>5. \A r \in Names : r <= created /\ Lives(pods'[r])
                           /\ (Stamped(r) \/ \E d \in Threads : StampStep(d) /\ r = Next1Of(d))
                           => pods'[r].order # NoStamp
      BY StampsKept DEF Stamped
    <3>6. pods'[p].order # NoStamp
      BY <3>4, <3>5
    <3> QED
      BY <3>3, <3>6 DEF Stamped, p
  <2>7. Next1Of(c)' = Next1Of(c)
    BY <2>1 DEF Next1Of
  <2> QED
    BY <2>5, <2>6, <2>7
<1>3. BindInv'
  BY <1>2 DEF BindInv
<1> QED
  BY <1>1, <1>3

-----------------------------------------------------------------------------
(***************************************************************************)
(* Pairs and garbage are not mixed up, however old the cache: a Pod is     *)
(* what it was created as.                                                 *)
(***************************************************************************)
PodsOf(t) == { t[i].pod : i \in DOMAIN t }

KindOf(p, ojama) == p <= created /\ (Lives(pods[p]) => pods[p].ojama = ojama)

RainInv ==
  /\ raining => pc["loop"] \in {"patch", "bind"}
  /\ Players # {} => (pc["loop"] \in {"check", "patch", "bind"} => raining)

HeardKind ==
  /\ \A p \in Names : Lives(podCache[p]) => KindOf(p, podCache[p].ojama)
  /\ \A i \in DOMAIN podFeed :
       Lives(podFeed[i].now) => KindOf(podFeed[i].pod, podFeed[i].now.ojama)

ListedKind == \A c \in Players : \A p \in listed[c] : KindOf(p, FALSE)

TodoKind ==
  \A c \in Threads : \A p \in PodsOf(todo[c]) : KindOf(p, c = "loop" /\ raining)

ChosenKind ==
  \A pq \in chosen : pq[1] # pq[2] /\ KindOf(pq[1], FALSE) /\ KindOf(pq[2], FALSE)

KindInv == RainInv /\ HeardKind /\ ListedKind /\ TodoKind /\ ChosenKind

LEMMA RainStep ==
  ASSUME OneDropper, TypeOK, RainInv, [Next]_vars
  PROVE  RainInv'
<1>0. /\ pc \in [Threads -> Steps] /\ "loop" \in Threads /\ "loop" \notin Players
      /\ mode \in Modes /\ (Players # {} => mode = "manual") /\ raining \in BOOLEAN
  BY LoopIsThread, TypeParts, DropperIs DEF ThreadsOK
<1>1. ASSUME NEW d \in Players,
             \/ PlayerLists(d) \/ PlayerRefused(d)
             \/ \E x \in Requests : PlayerDrops(d, x)
      PROVE  RainInv'
  <2>1. pc'["loop"] = pc["loop"] /\ raining' = raining
    BY <1>0, <1>1 DEF PlayerLists, PlayerRefused, PlayerDrops
  <2> QED
    BY <2>1 DEF RainInv
<1>2. ASSUME NEW d \in Threads, StampPod(d) \/ StampFault(d) \/ BindPod(d) \/ BindFault(d)
      PROVE  RainInv'
  <2>1. CASE d # "loop"
    <3>1. pc'["loop"] = pc["loop"] /\ raining' = raining
      BY <1>0, <1>2, <2>1
      DEF StampPod, StampFault, BindPod, BindFault, Fails, Done, Advance
    <3> QED
      BY <3>1 DEF RainInv
  <2>2. CASE d = "loop"
    <3>1. pc["loop"] \in {"patch", "bind"}
      BY <1>2, <2>2 DEF StampPod, StampFault, BindPod, BindFault
    <3>2. \/ ~raining' /\ pc'["loop"] \in {"auto", "idle"}
          \/ raining' = raining /\ pc'["loop"] \in {"patch", "bind"}
      BY <1>0, <1>2, <2>2
      DEF StampPod, StampFault, BindPod, BindFault, Fails, Done, Advance
    <3> QED
      BY <3>1, <3>2 DEF RainInv
  <2> QED
    BY <2>1, <2>2
<1>3. CASE Tick
  BY <1>0, <1>3 DEF Tick, RainInv
<1>4. CASE AutoPlays \/ AutoWaits
  BY <1>0, <1>4 DEF AutoPlays, AutoWaits, AutoReady, RainInv
<1>5. CASE LoopDrops
  BY <1>0, <1>5 DEF LoopDrops, Done, RainInv
<1>6. CASE \/ \E p \in Names : Expire(p)
           \/ \E m \in Modes : SetMode(m)
           \/ Restart \/ SyncPods
  BY <1>0, <1>6 DEF Expire, SetMode, Restart, SyncPods, threadVars, RainInv
<1>7. CASE ClusterStep
  BY <1>7, ClusterAges DEF threadVars, RainInv
<1>8. CASE UNCHANGED vars
  BY <1>8 DEF vars, RainInv
<1> QED
  BY <1>1, <1>2, <1>3, <1>4, <1>5, <1>6, <1>7, <1>8 DEF Next, ClusterStep, Loop

\* What a thread has to bind is what it had, less what it has bound, or a drop
\* that begins.
Shrinks(c) ==
  todo'[c] = todo[c] \/ todo'[c] = << >> \/ (todo[c] # << >> /\ todo'[c] = Tail(todo[c]))

RainStarts ==
  /\ Tick /\ raining'
  /\ \E kb \in BOOLEAN : todo'["loop"] \in Onto(Ojama, Len(Ojama), ColumnsFor(kb))

LEMMA TodoMoves ==
  ASSUME TypeOK, [Next]_vars, NEW c \in Threads
  PROVE  \/ Shrinks(c) /\ (c = "loop" => raining' = raining \/ todo'[c] = << >>)
         \/ c \in Players /\ \E x \in Requests : PlayerDrops(c, x)
         \/ c = "loop" /\ RainStarts
         \/ c = "loop" /\ AutoPlays
<1>0. /\ todo \in [Threads -> Seq(Placement)] /\ pc \in [Threads -> Steps]
      /\ "loop" \in Threads /\ "loop" \notin Players /\ Players \subseteq Threads
      /\ raining \in BOOLEAN
      /\ \A d \in Threads : pc[d] \in {"check", "patch", "bind"} <=> todo[d] # << >>
  BY LoopIsThread, TypeParts DEF ThreadsOK
<1> DEFINE Same == todo'[c] = todo[c] /\ (c = "loop" => raining' = raining)
           Less == Shrinks(c) /\ (c = "loop" => raining' = raining \/ todo'[c] = << >>)
<1>1. Same => Less
  BY DEF Shrinks
<1>2. ASSUME NEW d \in Players,
             \/ PlayerLists(d) \/ PlayerRefused(d)
             \/ \E x \in Requests : PlayerDrops(d, x)
      PROVE  Less \/ (c \in Players /\ \E x \in Requests : PlayerDrops(c, x))
  <2>1. CASE d = c /\ \E x \in Requests : PlayerDrops(d, x)
    BY <2>1
  <2>2. CASE ~(d = c /\ \E x \in Requests : PlayerDrops(d, x))
    <3>1. Same
      BY <1>0, <1>2, <2>2 DEF PlayerLists, PlayerRefused, PlayerDrops
    <3> QED
      BY <1>1, <3>1
  <2> QED
    BY <2>1, <2>2
<1>3. ASSUME NEW d \in Threads, StampPod(d) \/ StampFault(d) \/ BindPod(d) \/ BindFault(d)
      PROVE  Less
  <2>1. CASE d # c
    <3>1. Same
      BY <1>0, <1>3, <2>1
      DEF StampPod, StampFault, BindPod, BindFault, Fails, Done, Advance
    <3> QED
      BY <1>1, <3>1
  <2>2. CASE d = c
    <3>1. pc[c] \in {"patch", "bind"}
      BY <1>3, <2>2 DEF StampPod, StampFault, BindPod, BindFault
    <3>2. todo[c] # << >>
      BY <1>0, <3>1
    <3>3. \/ todo'[c] = << >>
          \/ todo'[c] \in {todo[c], Tail(todo[c])} /\ raining' = raining
      BY <1>0, <1>3, <2>2
      DEF StampPod, StampFault, BindPod, BindFault, Fails, Done, Advance
    <3> QED
      BY <3>2, <3>3 DEF Shrinks
  <2> QED
    BY <2>1, <2>2
<1>4. CASE AutoWaits
  BY <1>1, <1>4 DEF AutoWaits
<1>5. CASE AutoPlays /\ c # "loop"
  BY <1>0, <1>1, <1>5 DEF AutoPlays
<1>6. CASE Tick
  <2>1. CASE UNCHANGED << todo, raining >>
    BY <1>1, <2>1
  <2>2. ASSUME NEW kb \in BOOLEAN, NEW x \in Onto(Ojama, Len(Ojama), ColumnsFor(kb)),
               todo' = [todo EXCEPT !["loop"] = x], raining' = TRUE
        PROVE  Less \/ (c = "loop" /\ RainStarts)
    <3>1. CASE c = "loop"
      BY <1>0, <1>6, <2>2, <3>1 DEF RainStarts
    <3>2. CASE c # "loop"
      BY <1>0, <1>1, <2>2, <3>2
    <3> QED
      BY <3>1, <3>2
  <2> QED
    BY <1>6, <2>1, <2>2 DEF Tick
<1>7. CASE LoopDrops
  <2>1. UNCHANGED << todo, raining >> \/ Done("loop")
    BY <1>7 DEF LoopDrops
  <2>2. Same \/ (c = "loop" /\ todo'[c] = << >>)
    BY <1>0, <2>1 DEF Done
  <2> QED
    BY <1>1, <2>2 DEF Shrinks
<1>8. CASE \/ \E p \in Names : Expire(p)
           \/ \E m \in Modes : SetMode(m)
           \/ SyncPods
  BY <1>1, <1>8 DEF Expire, SetMode, SyncPods, threadVars
<1>9. CASE Restart
  BY <1>0, <1>9 DEF Restart, Shrinks
<1>10. CASE ClusterStep
  BY <1>1, <1>10, ClusterAges DEF threadVars
<1>11. CASE UNCHANGED vars
  BY <1>1, <1>11 DEF vars
<1> QED
  BY <1>1, <1>2, <1>3, <1>4, <1>5, <1>6, <1>7, <1>8, <1>9, <1>10, <1>11
  DEF Next, ClusterStep, Loop

LEMMA TailParts ==
  ASSUME NEW t \in Seq(Placement), t # << >>
  PROVE  /\ Len(t) \in Nat \ {0} /\ DOMAIN t = 1 .. Len(t)
         /\ DOMAIN Tail(t) = 1 .. Len(t) - 1
         /\ \A i \in DOMAIN Tail(t) : i + 1 \in DOMAIN t /\ Tail(t)[i] = t[i + 1]
         /\ PodsOf(Tail(t)) \subseteq PodsOf(t)
<1>1. /\ Len(t) \in Nat \ {0} /\ DOMAIN t = 1 .. Len(t)
      /\ DOMAIN Tail(t) = 1 .. Len(t) - 1
      /\ \A i \in 1 .. Len(t) - 1 : Tail(t)[i] = t[i + 1]
  BY HeadTailProperties, EmptySeq, LenProperties
<1>2. \A i \in DOMAIN Tail(t) : i + 1 \in DOMAIN t /\ Tail(t)[i] = t[i + 1]
  BY <1>1
<1> QED
  BY <1>1, <1>2 DEF PodsOf

LEMMA ShrinksPods ==
  ASSUME TypeOK, NEW c \in Threads, Shrinks(c)
  PROVE  PodsOf(todo'[c]) \subseteq PodsOf(todo[c])
<1>1. todo[c] \in Seq(Placement)
  BY DEF TypeOK
<1>2. PodsOf(<< >>) = {}
  BY DEF PodsOf
<1> QED
  BY <1>1, <1>2, TailParts DEF Shrinks

LEMMA TodoPods ==
  ASSUME TypeOK, NEW c \in Threads
  PROVE  PodsOf(todo[c]) \subseteq Names
<1>1. todo[c] \in Seq(Placement)
  BY DEF TypeOK
<1>2. todo[c] \in [1 .. Len(todo[c]) -> Placement]
  BY <1>1, LenProperties
<1> QED
  BY <1>2 DEF PodsOf, Placement

\* The same after the step.
KindStays(p, ojama) == p <= created' /\ (Lives(pods'[p]) => pods'[p].ojama = ojama)

LEMMA KindKept ==
  ASSUME TypeOK, OrderInv, [Next]_vars, NEW p \in Names, NEW ojama, KindOf(p, ojama)
  PROVE  KindStays(p, ojama)
<1>1. created \in Nat /\ created' \in Nat /\ created <= created' /\ p \in Nat
  <2>1. TypeOK' /\ created <= created'
    BY StepType, KindsKept
  <2> QED
    BY <2>1, NamesFinite DEF TypeOK
<1>2. Lives(pods'[p]) => Lives(pods[p]) /\ pods'[p].ojama = pods[p].ojama
  BY KindsKept DEF KindOf
<1>3. p <= created'
  BY <1>1 DEF KindOf
<1> QED
  BY <1>2, <1>3 DEF KindStays, KindOf

\* What a step may do to what the scheduler hears.
LEMMA FeedSteps ==
  ASSUME [Next]_vars
  PROVE  \/ UNCHANGED << podFeed, podCache >>
         \/ \E c \in Threads : BindStep(c)
         \/ ClusterStep \/ SyncPods \/ Restart
<1> USE DEF storeVars
<1>1. ASSUME NEW c \in Players,
             \/ PlayerLists(c) \/ PlayerRefused(c)
             \/ \E x \in Requests : PlayerDrops(c, x)
      PROVE  UNCHANGED << podFeed, podCache >>
  BY <1>1 DEF PlayerLists, PlayerRefused, PlayerDrops
<1>2. ASSUME NEW c \in Threads, StampPod(c) \/ StampFault(c)
      PROVE  UNCHANGED << podFeed, podCache >>
  BY <1>2 DEF StampPod, StampFault
<1>3. ASSUME NEW c \in Threads, BindPod(c) \/ BindFault(c)
      PROVE  UNCHANGED << podFeed, podCache >> \/ BindStep(c)
  BY <1>3 DEF BindPod, BindFault, BindStep, Next1Of
<1>4. CASE Loop
  BY <1>4 DEF Loop, Tick, AutoPlays, AutoWaits, LoopDrops
<1>5. CASE \/ \E p \in Names : Expire(p)
           \/ \E m \in Modes : SetMode(m)
  BY <1>5 DEF Expire, SetMode
<1>6. CASE UNCHANGED vars
  BY <1>6 DEF vars
<1> QED
  BY <1>1, <1>2, <1>3, <1>4, <1>5, <1>6 DEF Next, ClusterStep

\* A write to the store is heard of later.
LEMMA WriteParts ==
  ASSUME TypeOK, NEW p \in Names, NEW pod \in Pod, Write(p, pod)
  PROVE  /\ Len(podFeed) \in Nat /\ DOMAIN podFeed = 1 .. Len(podFeed)
         /\ DOMAIN podFeed' = 1 .. Len(podFeed) + 1 /\ Len(podFeed') = Len(podFeed) + 1
         /\ \A i \in DOMAIN podFeed : podFeed'[i] = podFeed[i]
         /\ podFeed'[Len(podFeed) + 1] = [pod |-> p, now |-> Unordered(pod)]
         /\ \A i \in DOMAIN podFeed' : i \in DOMAIN podFeed \/ i = Len(podFeed) + 1
         /\ pods'[p] = pod /\ \A q \in Names \ {p} : pods'[q] = pods[q]
<1> DEFINE new == [pod |-> p, now |-> Unordered(pod)]
<1>1. podFeed \in Seq([pod : Names, now : Pod]) /\ new \in [pod : Names, now : Pod]
  BY UnorderedIsPod DEF TypeOK
<1>2. Len(podFeed) \in Nat /\ DOMAIN podFeed = 1 .. Len(podFeed) /\ podFeed' = Append(podFeed, new)
  BY FeedParts DEF Write
<1>3. /\ DOMAIN podFeed' = 1 .. Len(podFeed) + 1 /\ Len(podFeed') = Len(podFeed) + 1
      /\ \A i \in 1 .. Len(podFeed) : podFeed'[i] = podFeed[i]
      /\ podFeed'[Len(podFeed) + 1] = new
  BY <1>1, <1>2, AppendProperties
<1>4. pods'[p] = pod /\ \A q \in Names \ {p} : pods'[q] = pods[q]
  BY WriteOne
<1>5. \A i \in 1 .. Len(podFeed) + 1 : i \in 1 .. Len(podFeed) \/ i = Len(podFeed) + 1
  BY <1>2
<1> QED
  BY <1>2, <1>3, <1>4, <1>5

LEMMA SyncParts ==
  ASSUME TypeOK, SyncPods
  PROVE  /\ Len(podFeed) \in Nat \ {0} /\ DOMAIN podFeed = 1 .. Len(podFeed)
         /\ DOMAIN podFeed' = 1 .. Len(podFeed) - 1 /\ 1 \in DOMAIN podFeed
         /\ Len(podFeed') = Len(podFeed) - 1
         /\ \A i \in DOMAIN podFeed' : i + 1 \in DOMAIN podFeed /\ podFeed'[i] = podFeed[i + 1]
         /\ podFeed[1].pod \in Names /\ podCache'[podFeed[1].pod] = podFeed[1].now
         /\ \A q \in Names \ {podFeed[1].pod} : podCache'[q] = podCache[q]
         /\ UNCHANGED << pods, created, threadVars >>
<1>1. /\ Len(podFeed) \in Nat /\ DOMAIN podFeed = 1 .. Len(podFeed)
      /\ \A i \in DOMAIN podFeed : podFeed[i].pod \in Names /\ podFeed[i].now \in Pod
  BY FeedParts
<1>2. podFeed \in Seq([pod : Names, now : Pod]) /\ podFeed # << >>
      /\ podCache \in [Names -> Pod]
  BY DEF TypeOK, SyncPods
<1>3. Len(podFeed) # 0 /\ Head(podFeed) = podFeed[1] /\ 1 \in DOMAIN podFeed
  BY <1>1, <1>2, EmptySeq
<1>4. /\ DOMAIN podFeed' = 1 .. Len(podFeed) - 1 /\ Len(podFeed') = Len(podFeed) - 1
      /\ \A i \in 1 .. Len(podFeed) - 1 : podFeed'[i] = podFeed[i + 1]
  BY <1>1, <1>2, <1>3, HeadTailProperties DEF SyncPods
<1>5. \A i \in 1 .. Len(podFeed) - 1 : i + 1 \in 1 .. Len(podFeed)
  BY <1>1
<1>6. podCache' = [podCache EXCEPT ![podFeed[1].pod] = podFeed[1].now]
  BY <1>3 DEF SyncPods
<1> QED
  BY <1>1, <1>2, <1>3, <1>4, <1>5, <1>6 DEF SyncPods

\* A step that writes one Pod.
LEMMA WriteStep ==
  ASSUME TypeOK, OrderInv, (\E c \in Threads : BindStep(c)) \/ ClusterStep
  PROVE  \E p \in Names : \E pod \in Pod :
           Write(p, pod) /\ p <= created' /\ UNCHANGED podCache
<1>1. ASSUME NEW c \in Threads, BindStep(c)
      PROVE  \E p \in Names : \E pod \in Pod :
               Write(p, pod) /\ p <= created' /\ UNCHANGED podCache
  <2>1. Next1Of(c) \in Names /\ Head(todo[c]).node \in DOMAIN Nodes
    BY <1>1, HeadParts DEF BindStep
  <2>2. [pods[Next1Of(c)] EXCEPT !.node = Head(todo[c]).node] \in Pod
    BY <2>1, ChangedPods DEF TypeOK
  <2>3. Next1Of(c) <= created
    BY <1>1, <2>1 DEF BindStep, MayBind, OrderInv, Known
  <2> QED
    BY <1>1, <2>1, <2>2, <2>3 DEF BindStep
<1>2. CASE ClusterStep
  <2>1. PICK p \in Names, pod \in Pod : Write(p, pod) /\ Ages(p, pod)
    BY <1>2, ClusterAges
  <2>2. p <= created'
    BY <2>1, AgesOrder
  <2> QED
    BY <1>2, <2>1, <2>2, ClusterAges
<1> QED
  BY <1>1, <1>2

LEMMA HeardStep ==
  ASSUME TypeOK, OrderInv, HeardKind, [Next]_vars
  PROVE  HeardKind'
<1>0. \A i \in DOMAIN podFeed : podFeed[i].pod \in Names /\ podFeed[i].now \in Pod
  BY FeedParts
<1>1. \A p \in Names : Lives(podCache[p]) => KindStays(p, podCache[p].ojama)
  BY KindKept DEF HeardKind
<1>2. \A i \in DOMAIN podFeed :
        Lives(podFeed[i].now) => KindStays(podFeed[i].pod, podFeed[i].now.ojama)
  BY <1>0, KindKept DEF HeardKind
<1>3. CASE UNCHANGED << podFeed, podCache >>
  BY <1>1, <1>2, <1>3 DEF HeardKind, KindStays, KindOf, Lives
<1>4. CASE (\E c \in Threads : BindStep(c)) \/ ClusterStep
  <2>1. PICK p \in Names, pod \in Pod : Write(p, pod) /\ p <= created' /\ UNCHANGED podCache
    BY <1>4, WriteStep
  <2>2. /\ DOMAIN podFeed = 1 .. Len(podFeed)
        /\ \A i \in DOMAIN podFeed : podFeed'[i] = podFeed[i]
        /\ podFeed'[Len(podFeed) + 1] = [pod |-> p, now |-> Unordered(pod)]
        /\ \A i \in DOMAIN podFeed' : i \in DOMAIN podFeed \/ i = Len(podFeed) + 1
        /\ pods'[p] = pod
    BY <2>1, WriteParts
  <2>3. Unordered(pod).ojama = pod.ojama
    BY DEF Unordered, Pod
  <2>4. KindStays(p, pod.ojama)
    BY <2>1, <2>2 DEF KindStays
  <2>5. ASSUME NEW i \in DOMAIN podFeed', Lives(podFeed'[i].now)
        PROVE  KindStays(podFeed'[i].pod, podFeed'[i].now.ojama)
    <3>1. CASE i \in DOMAIN podFeed
      BY <1>2, <2>2, <2>5, <3>1 DEF KindStays
    <3>2. CASE i = Len(podFeed) + 1
      BY <2>2, <2>3, <2>4, <3>2 DEF KindStays
    <3> QED
      BY <2>2, <3>1, <3>2
  <2> QED
    BY <1>1, <2>1, <2>5 DEF HeardKind, KindStays, KindOf, Lives
<1>5. CASE SyncPods
  <2>1. /\ DOMAIN podFeed' = 1 .. Len(podFeed) - 1 /\ 1 \in DOMAIN podFeed
        /\ \A i \in DOMAIN podFeed' : i + 1 \in DOMAIN podFeed /\ podFeed'[i] = podFeed[i + 1]
        /\ podFeed[1].pod \in Names /\ podCache'[podFeed[1].pod] = podFeed[1].now
        /\ \A q \in Names \ {podFeed[1].pod} : podCache'[q] = podCache[q]
    BY <1>5, SyncParts
  <2>2. \A q \in Names : Lives(podCache'[q]) => KindStays(q, podCache'[q].ojama)
    <3> TAKE q \in Names
    <3>1. CASE q = podFeed[1].pod
      BY <1>2, <2>1, <3>1 DEF KindStays
    <3>2. CASE q # podFeed[1].pod
      BY <1>1, <2>1, <3>2 DEF KindStays
    <3> QED
      BY <3>1, <3>2
  <2>3. \A i \in DOMAIN podFeed' :
          Lives(podFeed'[i].now) => KindStays(podFeed'[i].pod, podFeed'[i].now.ojama)
    BY <1>2, <2>1 DEF KindStays
  <2> QED
    BY <2>2, <2>3 DEF HeardKind, KindStays, KindOf, Lives
<1>6. CASE Restart
  <2>1. /\ podFeed' = << >> /\ UNCHANGED << pods, created >>
        /\ \A q \in Names : podCache'[q] = Unordered(pods[q])
    BY <1>6 DEF Restart
  <2>2. \A q \in Names : pods[q] \in Pod
    BY DEF TypeOK
  <2>3. \A q \in Names : podCache'[q].ojama = pods[q].ojama /\ podCache'[q].phase = pods[q].phase
    BY <2>1, <2>2 DEF Unordered, Pod
  <2>4. \A q \in Names : Lives(podCache'[q]) => KindStays(q, podCache'[q].ojama)
    BY <2>1, <2>3 DEF KindStays, Lives, OrderInv, Known
  <2> QED
    BY <2>1, <2>4 DEF HeardKind, KindStays, KindOf, Lives
<1> QED
  BY <1>3, <1>4, <1>5, <1>6, FeedSteps

\* What a drop or the rain takes from the cache.
LEMMA OntoPods ==
  ASSUME NEW n \in Nat, NEW list, \A i \in 1 .. n : list[i] \in Names,
         NEW columns \in SUBSET DOMAIN Nodes, NEW x \in Onto(list, n, columns)
  PROVE  PodsOf(x) = { list[i] : i \in 1 .. n } /\ DOMAIN x = 1 .. n
<1>1. x \in Seq(Placement) /\ Len(x) = n /\ \A i \in 1 .. n : x[i].pod = list[i]
  BY OntoType
<1>2. DOMAIN x = 1 .. n
  BY <1>1, LenProperties
<1> QED
  BY <1>1, <1>2 DEF PodsOf

LEMMA QueueKinds ==
  ASSUME TypeOK
  PROVE  /\ Len(Queue) \in Nat /\ Len(Ojama) \in Nat
         /\ \A i \in 1 .. Len(Queue) : Queue[i] \in Pending /\ ~podCache[Queue[i]].ojama
         /\ \A i \in 1 .. Len(Ojama) : Ojama[i] \in Pending /\ podCache[Ojama[i]].ojama
         /\ Pending \subseteq Unbound /\ Unbound \subseteq Names
         /\ \A p \in Unbound : Lives(podCache[p])
<1> DEFINE S == { p \in Pending : ~podCache[p].ojama }
           T == { p \in Pending : podCache[p].ojama }
<1>1. Pending \subseteq Unbound /\ Unbound \subseteq Names /\ \A p \in Unbound : Lives(podCache[p])
  BY DEF Pending, Unbound, Lives
<1>2. Queue = Oldest(S) /\ Ojama = Oldest(T)
  BY DEF Queue, Ojama
<1>3. S \in SUBSET Names /\ T \in SUBSET Names
  BY <1>1
<1> HIDE DEF S, T
<1>4. Queue \in Seq(S) /\ Ojama \in Seq(T)
  BY <1>2, <1>3, OldestOrdered
<1>5. /\ Len(Queue) \in Nat /\ Len(Ojama) \in Nat
      /\ \A i \in 1 .. Len(Queue) : Queue[i] \in S
      /\ \A i \in 1 .. Len(Ojama) : Ojama[i] \in T
  BY <1>4, ElementOfSeq, LenProperties
<1> QED
  BY <1>1, <1>5 DEF S, T

LEMMA ListedSteps ==
  ASSUME TypeOK, [Next]_vars, NEW c \in Players
  PROVE  listed'[c] \in {listed[c], {}} \/ PlayerLists(c)
<1>0. listed \in [Players -> SUBSET Names]
  BY DEF TypeOK
<1>1. ASSUME NEW d \in Players,
             \/ PlayerLists(d) \/ PlayerRefused(d)
             \/ \E x \in Requests : PlayerDrops(d, x)
      PROVE  listed'[c] \in {listed[c], {}} \/ PlayerLists(c)
  <2>1. CASE d = c
    BY <1>0, <1>1, <2>1 DEF PlayerRefused, PlayerDrops
  <2>2. CASE d # c
    BY <1>0, <1>1, <2>2 DEF PlayerLists, PlayerRefused, PlayerDrops
  <2> QED
    BY <2>1, <2>2
<1>2. ASSUME NEW d \in Threads, StampPod(d) \/ StampFault(d) \/ BindPod(d) \/ BindFault(d)
      PROVE  listed' = listed
  BY <1>2 DEF StampPod, StampFault, BindPod, BindFault
<1>3. CASE Loop
  BY <1>3 DEF Loop, Tick, AutoPlays, AutoWaits, LoopDrops
<1>4. CASE \/ \E p \in Names : Expire(p)
           \/ \E m \in Modes : SetMode(m)
           \/ Restart \/ SyncPods
  BY <1>4 DEF Expire, SetMode, Restart, SyncPods, threadVars
<1>5. CASE ClusterStep
  BY <1>5, ClusterAges DEF threadVars
<1>6. CASE UNCHANGED vars
  BY <1>6 DEF vars
<1> QED
  BY <1>1, <1>2, <1>3, <1>4, <1>5, <1>6 DEF Next, ClusterStep

LEMMA ChosenSteps ==
  ASSUME [Next]_vars
  PROVE  \/ chosen' \subseteq chosen
         \/ \E c \in Players : \E x \in Requests : PlayerDrops(c, x)
         \/ LoopDrops /\ chosen' = Remember(todo["loop"]) /\ UNCHANGED << todo, raining >>
<1>1. ASSUME NEW d \in Players, PlayerLists(d) \/ PlayerRefused(d)
      PROVE  chosen' \subseteq chosen
  BY <1>1 DEF PlayerLists, PlayerRefused
<1>2. ASSUME NEW d \in Threads, StampPod(d) \/ StampFault(d) \/ BindPod(d) \/ BindFault(d)
      PROVE  chosen' \subseteq chosen
  BY <1>2 DEF StampPod, StampFault, BindPod, BindFault, Fails, Forget
<1>3. CASE Tick \/ AutoPlays \/ AutoWaits
  BY <1>3 DEF Tick, AutoPlays, AutoWaits
<1>4. CASE LoopDrops
  BY <1>4 DEF LoopDrops
<1>5. CASE \/ \E p \in Names : Expire(p)
           \/ \E m \in Modes : SetMode(m)
           \/ Restart \/ SyncPods
  BY <1>5 DEF Expire, SetMode, Restart, Forget, SyncPods, threadVars
<1>6. CASE ClusterStep
  BY <1>6 DEF ClusterStep, Arrive, Run, Delete, Removed, threadVars
<1>7. CASE UNCHANGED vars
  BY <1>7 DEF vars
<1> QED
  BY <1>1, <1>2, <1>3, <1>4, <1>5, <1>6, <1>7 DEF Next, ClusterStep, Loop

Distinct(t) == \A i, j \in DOMAIN t : i # j => t[i].pod # t[j].pod

LEMMA RequestParts ==
  ASSUME NEW x \in Requests
  PROVE  /\ x \in Seq(Placement) /\ DOMAIN x = {1, 2} /\ Len(x) = 2
         /\ Distinct(x) /\ PodsOf(x) \subseteq Names
<1>1. PICK pq \in Names \X Names : x \in Onto(pq, 2, DOMAIN Nodes)
  BY DEF Requests
<1>2. \A i \in 1 .. 2 : pq[i] \in Names
  <2>1. pq[1] \in Names /\ pq[2] \in Names /\ \A i \in 1 .. 2 : i = 1 \/ i = 2
    OBVIOUS
  <2> QED
    BY <2>1
<1>3. x \in Seq(Placement) /\ Len(x) = 2 /\ \A i \in 1 .. 2 : x[i].pod = pq[i]
  BY <1>1, <1>2, OntoType
<1>4. DOMAIN x = 1 .. 2
  BY <1>3, LenProperties
<1>5. DOMAIN x = {1, 2}
  BY <1>4
<1>6. x[1].pod # x[2].pod
  BY DEF Requests
<1>7. Distinct(x)
  BY <1>5, <1>6 DEF Distinct
<1>8. PodsOf(x) \subseteq Names
  BY <1>2, <1>3, <1>4 DEF PodsOf
<1> QED
  BY <1>3, <1>5, <1>7, <1>8

LEMMA RememberPairs ==
  ASSUME NEW t, NEW pq \in Remember(t)
  PROVE  \/ pq \in chosen /\ pq[1] \notin PodsOf(t) /\ pq[2] \notin PodsOf(t)
         \/ \E i, j \in DOMAIN t : i < j /\ pq[1] = t[i].pod /\ pq[2] = t[j].pod
<1>1. CASE pq \in { r \in chosen : {r[1], r[2]} \cap { t[i].pod : i \in DOMAIN t } = {} }
  BY <1>1 DEF PodsOf
<1>2. ASSUME NEW ij \in (DOMAIN t) \X (DOMAIN t), ij[1] < ij[2],
             pq = << t[ij[1]].pod, t[ij[2]].pod >>
      PROVE  \E i, j \in DOMAIN t : i < j /\ pq[1] = t[i].pod /\ pq[2] = t[j].pod
  <2>1. ij[1] \in DOMAIN t /\ ij[2] \in DOMAIN t
    OBVIOUS
  <2> QED
    BY <1>2, <2>1
<1> QED
  BY <1>1, <1>2 DEF Remember

DistinctInv == Distinct(todo[Dropper])

LEMMA DistinctStep ==
  ASSUME OneDropper, TypeOK, DistinctInv, [Next]_vars
  PROVE  DistinctInv'
<1> DEFINE c == Dropper
           t == todo[Dropper]
<1>0. c \in Threads /\ t \in Seq(Placement) /\ todo \in [Threads -> Seq(Placement)]
      /\ "loop" \in Threads
  BY DropperIs DEF TypeOK
<1>1. CASE Shrinks(c)
  <2>1. CASE todo'[c] = t \/ todo'[c] = << >>
    BY <2>1 DEF DistinctInv, Distinct
  <2>2. CASE t # << >> /\ todo'[c] = Tail(t)
    <3>1. /\ DOMAIN Tail(t) = 1 .. Len(t) - 1
          /\ \A i \in DOMAIN Tail(t) : i + 1 \in DOMAIN t /\ Tail(t)[i] = t[i + 1]
      BY <1>0, <2>2, TailParts
    <3>2. \A i, j \in DOMAIN Tail(t) : i # j => i + 1 # j + 1
      BY <3>1
    <3>3. Distinct(Tail(t))
      BY <3>1, <3>2 DEF DistinctInv, Distinct
    <3> QED
      BY <2>2, <3>3 DEF DistinctInv
  <2> QED
    BY <1>1, <2>1, <2>2 DEF Shrinks
<1>2. ASSUME c \in Players, NEW x \in Requests, PlayerDrops(c, x) PROVE DistinctInv'
  <2>1. todo'[c] = x
    BY <1>0, <1>2 DEF PlayerDrops
  <2> QED
    BY <2>1, RequestParts DEF DistinctInv
<1>3. ASSUME NEW list \in {Queue, Ojama}, NEW n \in Nat, n <= Len(list), NEW kb \in BOOLEAN,
             todo'[c] \in Onto(list, n, ColumnsFor(kb))
      PROVE  DistinctInv'
  <2>1. /\ list \in Seq(Names)
        /\ \A i, j \in 1 .. Len(list) : i # j => list[i] # list[j]
    BY QueueType, TypeParts
  <2>2. Len(list) \in Nat /\ (\A i \in 1 .. n : i \in 1 .. Len(list))
    BY <1>3, <2>1, LenProperties
  <2>3. \A i \in 1 .. n : list[i] \in Names
    BY <2>1, <2>2
  <2>4. /\ \A i \in 1 .. n : todo'[c][i].pod = list[i]
        /\ DOMAIN todo'[c] = 1 .. n
    BY <1>3, <2>3, ColumnsAreNodes, OntoType, OntoPods
  <2> QED
    BY <2>1, <2>2, <2>4 DEF DistinctInv, Distinct
<1>4. CASE c = "loop" /\ RainStarts
  <2>1. Len(Ojama) \in Nat /\ Len(Ojama) <= Len(Ojama)
    BY QueueKinds
  <2> QED
    BY <1>3, <1>4, <2>1 DEF RainStarts
<1>5. CASE c = "loop" /\ AutoPlays
  <2>1. PICK kb \in BOOLEAN : AutoReady(kb) /\ \E x \in AutoPlacements(kb) :
                                 todo' = [todo EXCEPT !["loop"] = x]
    BY <1>5 DEF AutoPlays
  <2>2. todo'[c] \in Onto(Queue, PairSize, ColumnsFor(kb))
    BY <1>0, <1>5, <2>1 DEF AutoPlacements
  <2>3. PairSize \in Nat /\ PairSize <= Len(Queue)
    BY <2>1, QueueKinds, SchedulerAssumption DEF AutoReady
  <2> QED
    BY <1>3, <2>2, <2>3
<1> QED
  BY <1>0, <1>1, <1>2, <1>4, <1>5, TodoMoves

LEMMA KindStep ==
  ASSUME OneDropper, TypeOK, OrderInv, KindInv, DistinctInv, [Next]_vars
  PROVE  KindInv'
<1>0. /\ RainInv /\ HeardKind /\ ListedKind /\ TodoKind /\ ChosenKind
      /\ todo \in [Threads -> Seq(Placement)] /\ "loop" \in Threads /\ "loop" \notin Players
      /\ Players \subseteq Threads /\ raining \in BOOLEAN
      /\ listed \in [Players -> SUBSET Names] /\ chosen \subseteq Names \X Names
  BY LoopIsThread DEF KindInv, TypeOK
<1>1. RainInv' /\ HeardKind'
  BY <1>0, RainStep, HeardStep
<1>2. \A p \in Unbound : KindStays(p, podCache[p].ojama) /\ podCache[p].ojama \in BOOLEAN
                        /\ KindOf(p, podCache[p].ojama)
  <2>1. \A p \in Unbound : p \in Names /\ KindOf(p, podCache[p].ojama)
    BY <1>0, QueueKinds DEF HeardKind
  <2>2. \A p \in Names : podCache[p] \in Pod
    BY DEF TypeOK
  <2> QED
    BY <2>1, <2>2, KindKept DEF Pod
<1>3. ListedKind'
  <2> SUFFICES ASSUME NEW c \in Players, NEW p \in listed'[c] PROVE KindStays(p, FALSE)
    BY DEF ListedKind, KindOf, KindStays
  <2>1. CASE p \in listed[c]
    <3>1. p \in Names /\ KindOf(p, FALSE)
      BY <1>0, <2>1 DEF ListedKind
    <3> QED
      BY <3>1, KindKept
  <2>2. CASE PlayerLists(c)
    <3>1. p \in Unbound /\ ~podCache[p].ojama
      BY <1>0, <2>2 DEF PlayerLists
    <3>2. podCache[p].ojama = FALSE
      BY <1>2, <3>1
    <3> QED
      BY <1>2, <3>1, <3>2
  <2> QED
    BY <2>1, <2>2, ListedSteps
<1>4. TodoKind'
  <2> SUFFICES ASSUME NEW c \in Threads, NEW p \in PodsOf(todo'[c])
               PROVE  KindStays(p, c = "loop" /\ raining')
    BY DEF TodoKind, KindOf, KindStays
  <2>1. CASE Shrinks(c) /\ (c = "loop" => raining' = raining \/ todo'[c] = << >>)
    <3>1. p \in PodsOf(todo[c]) /\ p \in Names
      BY <2>1, ShrinksPods, TodoPods
    <3>2. KindOf(p, c = "loop" /\ raining)
      BY <1>0, <3>1 DEF TodoKind
    <3>3. todo'[c] # << >>
      BY DEF PodsOf
    <3>4. (c = "loop" /\ raining') = (c = "loop" /\ raining)
      BY <2>1, <3>3
    <3> QED
      BY <3>1, <3>2, <3>4, KindKept
  <2>2. ASSUME c \in Players, NEW x \in Requests, PlayerDrops(c, x)
        PROVE  KindStays(p, c = "loop" /\ raining')
    <3>1. todo'[c] = x /\ \E kb \in BOOLEAN : Accepts(listed[c] \ inflight, kb, x)
      BY <1>0, <2>2 DEF PlayerDrops
    <3>2. \A i \in DOMAIN x : x[i].pod \in listed[c]
      BY <3>1 DEF Accepts
    <3>3. p \in listed[c]
      BY <3>1, <3>2 DEF PodsOf
    <3>4. p \in Names /\ KindOf(p, FALSE)
      BY <1>0, <2>2, <3>3 DEF ListedKind
    <3>5. (c = "loop" /\ raining') = FALSE
      BY <1>0, <2>2
    <3> QED
      BY <3>4, <3>5, KindKept
  <2>3. CASE c = "loop" /\ RainStarts
    <3>1. PICK kb \in BOOLEAN : todo'["loop"] \in Onto(Ojama, Len(Ojama), ColumnsFor(kb))
      BY <2>3 DEF RainStarts
    <3>2. /\ Len(Ojama) \in Nat
          /\ \A i \in 1 .. Len(Ojama) :
               Ojama[i] \in Unbound /\ podCache[Ojama[i]].ojama /\ Ojama[i] \in Names
      BY QueueKinds
    <3>3. PICK i \in 1 .. Len(Ojama) : p = Ojama[i]
      BY <2>3, <3>1, <3>2, ColumnsAreNodes, OntoPods
    <3>4. podCache[p].ojama = TRUE /\ p \in Unbound /\ (c = "loop" /\ raining') = TRUE
      BY <1>1, <1>2, <2>3, <3>2, <3>3 DEF RainStarts, RainInv
    <3> QED
      BY <1>2, <3>4
  <2>4. CASE c = "loop" /\ AutoPlays
    <3>1. PICK kb \in BOOLEAN : AutoReady(kb) /\ \E x \in AutoPlacements(kb) :
                                   todo' = [todo EXCEPT !["loop"] = x]
      BY <2>4 DEF AutoPlays
    <3>2. todo'[c] \in Onto(Queue, PairSize, ColumnsFor(kb))
      BY <1>0, <2>4, <3>1 DEF AutoPlacements
    <3>3. /\ PairSize \in Nat
          /\ \A i \in 1 .. PairSize :
               Queue[i] \in Unbound /\ ~podCache[Queue[i]].ojama /\ Queue[i] \in Names
      BY <3>1, QueueKinds, SchedulerAssumption DEF AutoReady
    <3>4. PodsOf(todo'[c]) = { Queue[i] : i \in 1 .. PairSize }
      <4>1. ColumnsFor(kb) \in SUBSET DOMAIN Nodes /\ \A i \in 1 .. PairSize : Queue[i] \in Names
        BY <3>3, ColumnsAreNodes
      <4> QED
        BY <3>2, <3>3, <4>1, OntoPods
    <3>5. PICK i \in 1 .. PairSize : p = Queue[i]
      BY <3>4
    <3>6. ~raining'
      BY <1>0, <2>4 DEF AutoPlays, RainInv
    <3>7. podCache[p].ojama = FALSE /\ p \in Unbound /\ (c = "loop" /\ raining') = FALSE
      BY <1>2, <3>3, <3>5, <3>6
    <3> QED
      BY <1>2, <3>7
  <2> QED
    BY <2>1, <2>2, <2>3, <2>4, TodoMoves
<1>5. ChosenKind'
  <2> SUFFICES ASSUME NEW pq \in chosen'
               PROVE  pq[1] # pq[2] /\ KindStays(pq[1], FALSE) /\ KindStays(pq[2], FALSE)
    BY DEF ChosenKind, KindOf, KindStays
  <2>1. CASE pq \in chosen
    <3>1. pq[1] \in Names /\ pq[2] \in Names
      BY <1>0, <2>1
    <3> QED
      BY <1>0, <2>1, <3>1, KindKept DEF ChosenKind
  <2>2. ASSUME NEW t, Distinct(t), pq \in Remember(t), PodsOf(t) \subseteq Names,
               DOMAIN t \subseteq Int, \A p \in PodsOf(t) : KindOf(p, FALSE)
        PROVE  pq[1] # pq[2] /\ KindStays(pq[1], FALSE) /\ KindStays(pq[2], FALSE)
    <3>1. CASE pq \in chosen
      BY <2>1, <3>1
    <3>2. CASE pq \notin chosen
      <4>1. PICK i \in DOMAIN t, j \in DOMAIN t :
                i < j /\ pq[1] = t[i].pod /\ pq[2] = t[j].pod
        BY <2>2, <3>2, RememberPairs
      <4>2. i # j
        BY <2>2, <4>1
      <4>3. pq[1] # pq[2] /\ pq[1] \in PodsOf(t) /\ pq[2] \in PodsOf(t)
        BY <2>2, <4>1, <4>2 DEF Distinct, PodsOf
      <4> QED
        BY <2>2, <4>3, KindKept
    <3> QED
      BY <3>1, <3>2
  <2>3. ASSUME NEW c \in Players, NEW x \in Requests, PlayerDrops(c, x)
        PROVE  pq[1] # pq[2] /\ KindStays(pq[1], FALSE) /\ KindStays(pq[2], FALSE)
    <3>1. chosen' = Remember(x) /\ \E kb \in BOOLEAN : Accepts(listed[c] \ inflight, kb, x)
      BY <2>3 DEF PlayerDrops
    <3>2. \A i \in DOMAIN x : x[i].pod \in listed[c]
      BY <3>1 DEF Accepts
    <3>3. \A p \in PodsOf(x) : KindOf(p, FALSE)
      BY <1>0, <3>2 DEF ListedKind, PodsOf
    <3>4. DOMAIN x \subseteq Int /\ Distinct(x) /\ PodsOf(x) \subseteq Names
      BY RequestParts
    <3> QED
      BY <2>2, <3>1, <3>3, <3>4
  <2>4. CASE LoopDrops /\ chosen' = Remember(todo["loop"]) /\ UNCHANGED << todo, raining >>
    <3>1. pc["loop"] = "check" /\ ~raining
      BY <1>0, <2>4 DEF LoopDrops, RainInv
    <3>2. Players = {} /\ Dropper = "loop"
      BY <1>0, <3>1, DropperIs DEF RainInv
    <3>3. ("loop" = "loop" /\ raining) = FALSE
      BY <1>0, <3>1
    <3>4. \A p \in PodsOf(todo["loop"]) : KindOf(p, "loop" = "loop" /\ raining)
      BY <1>0 DEF TodoKind
    <3>5. DOMAIN todo["loop"] \subseteq Int
      BY TodoList
    <3>6. PodsOf(todo["loop"]) \subseteq Names /\ Distinct(todo["loop"])
      BY <1>0, <3>2, TodoPods DEF DistinctInv
    <3> QED
      BY <2>2, <2>4, <3>3, <3>4, <3>5, <3>6
  <2> QED
    BY <2>1, <2>3, <2>4, ChosenSteps
<1> QED
  BY <1>1, <1>3, <1>4, <1>5 DEF KindInv

\* A name that was not taken is that of a new Pod.
LEMMA Arrivals ==
  ASSUME TypeOK, OrderInv, [Next]_vars, NEW p \in Names, p > created, Lives(pods'[p])
  PROVE  /\ p = created + 1 /\ created' = created + 1 /\ ClusterStep
         /\ pods'[p].order = NoStamp /\ pods'[p].node = NoNode
         /\ pods'[p].ojama => Opponent
<1>0. created \in Nat /\ p \in Nat /\ pods[p] \in Pod
  BY SchedulerAssumption, NamesFinite DEF TypeOK
<1>1. ~Lives(pods[p])
  BY <1>0 DEF OrderInv, Known, Lives
<1>2. ~(UNCHANGED << pods, created >>)
  BY <1>1
<1>3. ASSUME NEW c \in Threads, StampStep(c) \/ BindStep(c) PROVE FALSE
  <2>1. Next1Of(c) \in Names /\ Head(todo[c]).node \in DOMAIN Nodes
    BY <1>3, HeadParts DEF StampStep, BindStep
  <2>2. CASE StampStep(c)
    <3>1. pods'[p].phase = pods[p].phase
      BY <2>1, <2>2, StampKeeps DEF StampStep, Lives
    <3> QED
      BY <1>1, <3>1 DEF Lives
  <2>3. CASE BindStep(c)
    <3>1. [pods[Next1Of(c)] EXCEPT !.node = Head(todo[c]).node] \in Pod
      BY <2>1, ChangedPods DEF TypeOK
    <3>2. \A q \in Names \ {Next1Of(c)} : pods'[q] = pods[q]
      BY <2>1, <2>3, <3>1, WriteOne DEF BindStep
    <3>3. Lives(pods[Next1Of(c)])
      BY <2>3 DEF BindStep, MayBind, Lives
    <3> QED
      BY <1>1, <3>2, <3>3
  <2> QED
    BY <1>3, <2>2, <2>3
<1>4. ClusterStep
  BY <1>2, <1>3, StoreSteps
<1>5. PICK q \in Names, pod \in Pod : Write(q, pod) /\ Ages(q, pod)
  BY <1>4, ClusterAges
<1>6. pods'[q] = pod /\ \A r \in Names \ {q} : pods'[r] = pods[r]
  BY <1>5, WriteOne
<1>7. q = p
  BY <1>1, <1>6
<1>8. /\ q = created + 1 /\ created' = created + 1
      /\ pod.order = NoStamp /\ pod.node = NoNode /\ (pod.ojama => Opponent)
  BY <1>1, <1>5, <1>6, <1>7, GoneIsPod DEF Ages, Bound, Lives
<1> QED
  BY <1>4, <1>6, <1>7, <1>8

\* The dropper binds the Pods of a drop.
Pairing == pc[Dropper] \in {"patch", "bind"} /\ ~(Dropper = "loop" /\ raining)

First == Next1Of(Dropper)

FirstInv ==
  Pairing /\ pc[Dropper] = "bind" /\ Lives(pods[First]) =>
    \A q \in Names \ {First} :
      Lives(pods[q]) /\ ~pods[q].ojama => pods[q].order < pods[First].order

\* Meanwhile the rain stamps garbage only.
LEMMA RainStamps ==
  ASSUME OneDropper, TypeOK, RainInv, TodoKind, NEW c \in Threads, c # Dropper \/ ~Pairing,
         pc[c] \in {"patch", "bind"}, Lives(pods[Next1Of(c)])
  PROVE  pods[Next1Of(c)].ojama = TRUE
<1>1. c = "loop" /\ raining
  <2>1. CASE c # Dropper
    BY <2>1, DropperIs DEF RainInv
  <2>2. CASE c = Dropper
    BY <2>2 DEF Pairing
  <2> QED
    BY <2>1, <2>2
<1>2. Next1Of(c) \in PodsOf(todo[c])
  BY HeadParts DEF PodsOf, Next1Of
<1>3. KindOf(Next1Of(c), c = "loop" /\ raining)
  BY <1>2 DEF TodoKind
<1>4. (c = "loop" /\ raining) = TRUE
  BY <1>1
<1>5. KindOf(Next1Of(c), TRUE)
  BY <1>3, <1>4
<1> QED
  BY <1>5 DEF KindOf

LEMMA FirstStep ==
  ASSUME OneDropper, TypeOK, OrderInv, BindInv, KindInv, FirstInv, [Next]_vars
  PROVE  FirstInv'
<1> SUFFICES ASSUME Pairing', pc'[Dropper] = "bind", Lives(pods'[First']),
                    NEW q \in Names \ {First'}, Lives(pods'[q]), ~pods'[q].ojama
             PROVE  pods'[q].order < pods'[First'].order
  BY DEF FirstInv
<1>0. Dropper \in Threads /\ RainInv /\ TodoKind /\ TypeOK'
      /\ \A r \in Names : r \in Nat /\ pods[r] \in Pod /\ pods'[r] \in Pod
  <2>1. TypeOK'
    BY StepType
  <2> QED
    BY <2>1, DropperIs, NamesFinite DEF KindInv, TypeOK
<1>1. todo'[Dropper] = todo[Dropper] /\ (pc[Dropper] = "bind" \/ StampStep(Dropper))
  BY <1>0, BindReached
<1>2. First' = First /\ First \in Names /\ todo[Dropper] # << >>
  <2>1. pc[Dropper] \in {"patch", "bind"}
    BY <1>1 DEF StampStep
  <2>2. First \in Names /\ todo[Dropper] # << >>
    BY <1>0, <2>1, HeadParts DEF First
  <2> QED
    BY <1>1, <2>2 DEF First, Next1Of
<1>3. Pairing
  <2>1. pc[Dropper] \in {"patch", "bind"}
    BY <1>1 DEF StampStep
  <2>2. Dropper = "loop" => raining' = raining
    <3> SUFFICES ASSUME Dropper = "loop" PROVE raining' = raining
      OBVIOUS
    <3>1. ~RainStarts /\ ~AutoPlays /\ "loop" \notin Players /\ todo'["loop"] # << >>
      BY <1>1, <1>2, <2>1, LoopIsThread DEF RainStarts, Tick, AutoPlays
    <3> QED
      BY <1>0, <3>1, TodoMoves
  <2> QED
    BY <2>1, <2>2 DEF Pairing
<1>4. CASE StampStep(Dropper)
  <2>1. \A r \in Names \ {First} : pods'[r].order < pods'[First].order
    BY <1>2, <1>4, StampKeeps DEF StampStep, First, Lives
  <2> QED
    BY <1>2, <2>1
<1>5. CASE pc[Dropper] = "bind"
  <2>1. First \in Nat /\ created \in Nat /\ q \in Nat /\ First <= created
    BY <1>0, <1>2, <1>5, SchedulerAssumption DEF BindInv, First, TypeOK
  <2>2. Lives(pods[First])
    BY <1>2, <2>1, KindsKept
  <2>3. Stamped(First) /\ KindOf(First, FALSE)
    <3>1. Stamped(First)
      BY <1>0, <1>5, <2>2 DEF BindInv, First
    <3>2. First \in PodsOf(todo[Dropper])
      BY <1>0, <1>5, HeadParts DEF PodsOf, First, Next1Of
    <3>3. (Dropper = "loop" /\ raining) = FALSE
      BY <1>3 DEF Pairing
    <3> QED
      BY <1>0, <3>1, <3>2, <3>3 DEF TodoKind
  <2>4. CASE q <= created
    <3>1. Lives(pods[q]) /\ ~pods[q].ojama
      BY <2>4, KindsKept
    <3>2. pods[q].order < pods[First].order
      BY <1>2, <1>3, <1>5, <2>2, <3>1 DEF FirstInv
    <3>3. ASSUME NEW c \in Threads, StampStep(c) PROVE Next1Of(c) \notin {q, First}
      <4>1. c # Dropper /\ pc[c] = "patch" /\ Lives(pods[Next1Of(c)])
        BY <1>5, <3>3 DEF StampStep
      <4>2. pods[Next1Of(c)].ojama = TRUE
        BY <1>0, <4>1, RainStamps
      <4> QED
        BY <2>2, <2>3, <3>1, <4>2 DEF KindOf
    <3>4. StampsNone({q, First})
      BY <3>3, StoreSteps DEF StampsNone
    <3> QED
      BY <1>2, <2>1, <2>3, <3>2, <3>4, BeneathKept
  <2>5. CASE q > created
    <3>1. pods'[q].order = NoStamp
      BY <2>5, Arrivals
    <3>2. pods'[First].order # NoStamp
      BY <1>2, <2>1, <2>3, StampsKept DEF Stamped
    <3>3. pods'[First].order \in Orders
      BY <1>0, <1>2 DEF Pod, Orders
    <3> QED
      BY <1>2, <3>1, <3>2, <3>3 DEF Orders, NoStamp
  <2> QED
    BY <2>1, <2>4, <2>5
<1> QED
  BY <1>1, <1>4, <1>5

-----------------------------------------------------------------------------
(***************************************************************************)
(* A pair that is bound is stacked the way its drop asked for.             *)
(***************************************************************************)
ToBind == IF Pairing THEN PodsOf(todo[Dropper]) ELSE {}

\* What is asked to land below another Pod is bound before it.
InTurn(pq) ==
  \A i \in DOMAIN todo[Dropper] : todo[Dropper][i].pod = pq[1] =>
    \E j \in DOMAIN todo[Dropper] : i < j /\ todo[Dropper][j].pod = pq[2]

ChosenInv ==
  \A pq \in chosen :
    /\ Pairing => InTurn(pq)
    /\ Bound(pq[1]) /\ Bound(pq[2]) /\ pq[2] \notin ToBind =>
         pods[pq[1]].order < pods[pq[2]].order

DInv == TypeOK /\ OrderInv /\ BindInv /\ KindInv /\ DistinctInv /\ FirstInv /\ ChosenInv

\* A step stamps or binds no Pod of S.
Spares(S) ==
  \/ UNCHANGED << pods, created >>
  \/ \E c \in Threads : (StampStep(c) \/ BindStep(c)) /\ Next1Of(c) \notin S
  \/ ClusterStep

LEMMA SparedPods ==
  ASSUME TypeOK, OrderInv, NEW p \in Names, NEW q \in Names, Spares({p, q}),
         Bound(p)', Bound(q)', Bound(p) /\ Bound(q) => pods[p].order < pods[q].order
  PROVE  pods'[p].order < pods'[q].order
<1>1. Bound(p) /\ Bound(q)
  <2>1. CASE UNCHANGED << pods, created >>
    BY <2>1 DEF Bound
  <2>2. ASSUME NEW c \in Threads, StampStep(c) PROVE Bound(p) /\ Bound(q)
    <3>1. Next1Of(c) \in Names
      BY <2>2, HeadParts DEF StampStep
    <3>2. \A r \in Names : Bound(r)' <=> Bound(r)
      BY <2>2, <3>1, StampKeeps DEF StampStep, Lives
    <3> QED
      BY <3>2
  <2>3. ASSUME NEW c \in Threads, BindStep(c), Next1Of(c) \notin {p, q}
        PROVE  Bound(p) /\ Bound(q)
    <3>1. Next1Of(c) \in Names /\ Head(todo[c]).node \in DOMAIN Nodes
      BY <2>3, HeadParts DEF BindStep
    <3>2. [pods[Next1Of(c)] EXCEPT !.node = Head(todo[c]).node] \in Pod
      BY <3>1, ChangedPods DEF TypeOK
    <3>3. \A r \in Names \ {Next1Of(c)} : pods'[r] = pods[r]
      BY <2>3, <3>1, <3>2, WriteOne DEF BindStep
    <3> QED
      BY <2>3, <3>3 DEF Bound
  <2>4. CASE ClusterStep
    <3>1. PICK r \in Names, pod \in Pod : Write(r, pod) /\ Ages(r, pod)
      BY <2>4, ClusterAges
    <3>2. \A s \in Names : Bound(s)' => Bound(s)
      BY <3>1, AgesOrder
    <3> QED
      BY <3>2
  <2> QED
    BY <2>1, <2>2, <2>3, <2>4 DEF Spares
<1>2. StampsNone({p, q})
  BY DEF Spares, StampsNone
<1>3. q <= created /\ Stamped(q)
  BY <1>1 DEF OrderInv, Known, Bound
<1>4. Lives(pods'[q])
  BY DEF Bound, Lives
<1> QED
  BY <1>1, <1>2, <1>3, <1>4, BeneathKept

LEMMA QuietStep ==
  ASSUME OneDropper, DInv, chosen' \subseteq chosen,
         Pairing' => Pairing /\ todo'[Dropper] = todo[Dropper],
         \A pq \in chosen' :
           Spares({pq[1], pq[2]}) /\ (pq[2] \in ToBind => pq[2] \in ToBind')
  PROVE  ChosenInv'
<1> SUFFICES ASSUME NEW pq \in chosen'
             PROVE  /\ Pairing' => InTurn(pq)'
                    /\ Bound(pq[1])' /\ Bound(pq[2])' /\ pq[2] \notin ToBind' =>
                         pods'[pq[1]].order < pods'[pq[2]].order
  BY DEF ChosenInv
<1>1. TypeOK /\ OrderInv /\ ChosenInv /\ pq \in chosen /\ pq[1] \in Names /\ pq[2] \in Names
  BY DEF DInv, TypeOK
<1>2. Pairing' => InTurn(pq)'
  BY <1>1 DEF ChosenInv, InTurn
<1>3. ASSUME Bound(pq[1])', Bound(pq[2])', pq[2] \notin ToBind'
      PROVE  pods'[pq[1]].order < pods'[pq[2]].order
  <2>1. Spares({pq[1], pq[2]}) /\ pq[2] \notin ToBind
    BY <1>3
  <2>2. Bound(pq[1]) /\ Bound(pq[2]) => pods[pq[1]].order < pods[pq[2]].order
    BY <1>1, <2>1 DEF ChosenInv
  <2> DEFINE p == pq[1]  q == pq[2]
  <2>3. /\ p \in Names /\ q \in Names /\ Spares({p, q}) /\ Bound(p)' /\ Bound(q)'
        /\ Bound(p) /\ Bound(q) => pods[p].order < pods[q].order
    BY <1>1, <1>3, <2>1, <2>2
  <2> HIDE DEF p, q
  <2>4. pods'[p].order < pods'[q].order
    BY <1>1, <2>3, SparedPods
  <2> QED
    BY <2>4 DEF p, q
<1> QED
  BY <1>2, <1>3

\* The dropper goes on with what it does.
LEMMA SameTurn ==
  ASSUME OneDropper, DInv, chosen' \subseteq chosen, Pairing' <=> Pairing,
         Pairing => todo'[Dropper] = todo[Dropper],
         \A pq \in chosen' : Spares({pq[1], pq[2]})
  PROVE  ChosenInv'
<1>1. ToBind' = ToBind
  BY DEF ToBind
<1> QED
  BY <1>1, QuietStep

\* The drop ends with an error.
LEMMA FailsChosen ==
  ASSUME OneDropper, DInv, Pairing, Fails(Dropper),
         UNCHANGED << pods, created >> \/ StampStep(Dropper) \/ BindStep(Dropper)
  PROVE  ChosenInv'
<1>1. /\ Dropper \in Threads /\ todo[Dropper] \in Seq(Placement)
      /\ pc \in [Threads -> Steps]
  BY DropperIs, TypeParts DEF DInv, ThreadsOK
<1>2. { x.pod : x \in ToSet(todo[Dropper]) } = PodsOf(todo[Dropper])
  BY DEF ToSet, PodsOf
<1>3. \A pq \in chosen' : pq \in chosen /\ {pq[1], pq[2]} \cap PodsOf(todo[Dropper]) = {}
  BY <1>2 DEF Fails, Forget
<1>4. ~Pairing'
  BY <1>1 DEF Fails, Done, Pairing
<1>5. First \in PodsOf(todo[Dropper])
  <2>1. pc[Dropper] \in {"patch", "bind"}
    BY DEF Pairing
  <2> QED
    BY <1>1, <2>1, HeadParts DEF DInv, PodsOf, First, Next1Of
<1>6. \A pq \in chosen' : Spares({pq[1], pq[2]}) /\ (pq[2] \in ToBind => pq[2] \in ToBind')
  <2> TAKE pq \in chosen'
  <2>1. First \notin {pq[1], pq[2]} /\ pq[2] \notin ToBind
    BY <1>3, <1>5 DEF ToBind
  <2> QED
    BY <1>1, <2>1 DEF Spares, First
<1> QED
  BY <1>3, <1>4, <1>6, QuietStep

LEMMA StampChosen ==
  ASSUME OneDropper, DInv, Pairing, StampPod(Dropper) \/ StampFault(Dropper)
  PROVE  ChosenInv'
<1>1. CASE Fails(Dropper)
  <2>1. UNCHANGED << pods, created >> \/ StampStep(Dropper)
    BY DEF StampPod, StampFault, StampStep, Next1Of, Lives
  <2> QED
    BY <1>1, <2>1, FailsChosen
<1>2. CASE /\ StampStep(Dropper) /\ pc' = [pc EXCEPT ![Dropper] = "bind"]
           /\ UNCHANGED << todo, raining, chosen >>
  <2>1. /\ Dropper \in Threads /\ pc \in [Threads -> Steps] /\ todo[Dropper] \in Seq(Placement)
    BY DropperIs, TypeParts DEF DInv, ThreadsOK
  <2>2. Pairing'
    BY <1>2, <2>1 DEF Pairing
  <2>3. \A pq \in chosen : InTurn(pq)
    BY DEF DInv, ChosenInv
  <2>4. 1 \in DOMAIN todo[Dropper] /\ First = todo[Dropper][1].pod
    BY <1>2, <2>1, HeadParts DEF StampStep, DInv, First, Next1Of
  <2>5. ASSUME NEW pq \in chosen', Bound(pq[1])', Bound(pq[2])', pq[2] \notin ToBind'
        PROVE  pods'[pq[1]].order < pods'[pq[2]].order
    <3>1. pq[2] \notin PodsOf(todo[Dropper]) /\ pq \in chosen
      BY <1>2, <2>2, <2>5 DEF ToBind
    <3>2. First \notin {pq[1], pq[2]}
      BY <2>3, <2>4, <3>1 DEF InTurn, PodsOf
    <3>3. Spares({pq[1], pq[2]})
      BY <1>2, <2>1, <3>2 DEF Spares, First
    <3>4. Bound(pq[1]) /\ Bound(pq[2]) => pods[pq[1]].order < pods[pq[2]].order
      BY <3>1 DEF DInv, ChosenInv, ToBind
    <3> DEFINE p == pq[1]  q == pq[2]
    <3>5. /\ p \in Names /\ q \in Names /\ Spares({p, q}) /\ Bound(p)' /\ Bound(q)'
          /\ Bound(p) /\ Bound(q) => pods[p].order < pods[q].order
      BY <2>5, <3>1, <3>3, <3>4 DEF DInv, TypeOK
    <3> HIDE DEF p, q
    <3>6. pods'[p].order < pods'[q].order
      BY <3>5, SparedPods DEF DInv
    <3> QED
      BY <3>6 DEF p, q
  <2> QED
    BY <1>2, <2>3, <2>5 DEF ChosenInv, InTurn
<1> QED
  BY <1>1, <1>2 DEF StampPod, StampFault, StampStep, Next1Of, Lives

LEMMA BindChosen ==
  ASSUME OneDropper, DInv, Pairing, BindPod(Dropper) \/ BindFault(Dropper)
  PROVE  ChosenInv'
<1> DEFINE t == todo[Dropper]
<1>0. /\ Dropper \in Threads /\ pc \in [Threads -> Steps] /\ t \in Seq(Placement)
      /\ todo \in [Threads -> Seq(Placement)]
      /\ TypeOK /\ OrderInv /\ KindInv /\ ChosenInv /\ pc[Dropper] = "bind"
  BY DropperIs, TypeParts DEF DInv, ThreadsOK, BindPod, BindFault
<1>1. CASE Fails(Dropper)
  <2>1. UNCHANGED << pods, created >> \/ BindStep(Dropper)
    BY DEF BindPod, BindFault, BindStep, Next1Of, storeVars
  <2> QED
    BY <1>1, <2>1, FailsChosen
<1>2. CASE BindStep(Dropper) /\ Advance(Dropper) /\ UNCHANGED chosen
  <2>1. /\ First \in Names /\ Head(t).node \in DOMAIN Nodes /\ t # << >>
        /\ 1 \in DOMAIN t /\ First = t[1].pod
    BY <1>0, HeadParts DEF First, Next1Of
  <2>2. /\ DOMAIN t = 1 .. Len(t) /\ Len(t) \in Nat \ {0}
        /\ DOMAIN Tail(t) = 1 .. Len(t) - 1
        /\ \A i \in DOMAIN Tail(t) : i + 1 \in DOMAIN t /\ Tail(t)[i] = t[i + 1]
    BY <1>0, <2>1, TailParts
  <2>3. \/ Len(t) = 1 /\ ~Pairing'
        \/ todo'[Dropper] = Tail(t) /\ Pairing'
    BY <1>0, <1>2 DEF Advance, Done, Pairing
  <2>4. \A i \in DOMAIN t : i = 1 \/ (i - 1 \in DOMAIN Tail(t) /\ Tail(t)[i - 1] = t[i])
    <3> TAKE i \in DOMAIN t
    <3>1. i # 1 => i - 1 \in 1 .. Len(t) - 1 /\ (i - 1) + 1 = i
      BY <2>2
    <3> QED
      BY <2>2, <3>1
  <2>5. pods'[First].order = pods[First].order /\ \A q \in Names \ {First} : pods'[q] = pods[q]
    <3>1. pods[First] \in Pod /\ [pods[First] EXCEPT !.node = Head(t).node] \in Pod
      BY <1>0, <2>1, ChangedPods DEF TypeOK
    <3>2. /\ pods'[First] = [pods[First] EXCEPT !.node = Head(t).node]
          /\ \A q \in Names \ {First} : pods'[q] = pods[q]
      BY <1>0, <1>2, <2>1, <3>1, WriteOne DEF BindStep, First
    <3> QED
      BY <3>1, <3>2 DEF Pod
  <2>6. ASSUME NEW pq \in chosen
        PROVE  /\ Pairing' => InTurn(pq)'
               /\ Bound(pq[1])' /\ Bound(pq[2])' /\ pq[2] \notin ToBind' =>
                    pods'[pq[1]].order < pods'[pq[2]].order
    <3>1. /\ pq[1] \in Names /\ pq[2] \in Names /\ pq[1] # pq[2] /\ KindOf(pq[1], FALSE)
          /\ InTurn(pq)
      BY <1>0 DEF TypeOK, KindInv, ChosenKind, ChosenInv
    <3>2. ASSUME Pairing' PROVE InTurn(pq)'
      <4>1. todo'[Dropper] = Tail(t)
        BY <2>3, <3>2
      <4>2. ASSUME NEW i \in DOMAIN Tail(t), Tail(t)[i].pod = pq[1]
            PROVE  \E j \in DOMAIN Tail(t) : i < j /\ Tail(t)[j].pod = pq[2]
        <5>1. i \in Int /\ i >= 1 /\ i + 1 \in DOMAIN t /\ t[i + 1].pod = pq[1]
          BY <2>2, <4>2
        <5>2. PICK k \in DOMAIN t : i + 1 < k /\ t[k].pod = pq[2]
          BY <3>1, <5>1 DEF InTurn
        <5>3. k \in Int /\ k # 1 /\ i < k - 1
          BY <2>2, <5>1, <5>2
        <5> QED
          BY <2>4, <5>2, <5>3
      <4> QED
        BY <4>1, <4>2 DEF InTurn
    <3>3. ASSUME Bound(pq[1])', Bound(pq[2])', pq[2] \notin ToBind', pq[2] = First
          PROVE  pods'[pq[1]].order < pods'[pq[2]].order
      <4>1. Lives(pods[First]) /\ pods'[pq[1]] = pods[pq[1]] /\ Lives(pods[pq[1]])
        BY <1>2, <2>5, <3>1, <3>3 DEF BindStep, MayBind, First, Lives, Bound
      <4>2. pq[1] \in Names \ {First} /\ ~pods[pq[1]].ojama
        BY <3>1, <3>3, <4>1 DEF KindOf
      <4>3. pods[pq[1]].order < pods[First].order
        BY <1>0, <4>1, <4>2 DEF DInv, FirstInv
      <4> QED
        BY <2>5, <3>3, <4>1, <4>3
    <3>4. ASSUME Bound(pq[1])', Bound(pq[2])', pq[2] \notin ToBind', pq[2] # First
          PROVE  pods'[pq[1]].order < pods'[pq[2]].order
      <4>1. pq[2] \notin PodsOf(t)
        <5> SUFFICES ASSUME NEW i \in DOMAIN t, t[i].pod = pq[2] PROVE FALSE
          BY DEF PodsOf
        <5>1. i # 1
          BY <2>1, <3>4
        <5>2. i - 1 \in DOMAIN Tail(t) /\ Tail(t)[i - 1].pod = pq[2]
          BY <2>4, <5>1
        <5>3. Len(t) # 1
          BY <2>2, <5>1
        <5>4. Pairing' /\ todo'[Dropper] = Tail(t)
          BY <2>3, <5>3
        <5> QED
          BY <3>4, <5>2, <5>4 DEF ToBind, PodsOf
      <4>2. First # pq[1]
        BY <2>1, <3>1, <4>1 DEF InTurn, PodsOf
      <4>3. pods'[pq[1]] = pods[pq[1]] /\ pods'[pq[2]] = pods[pq[2]]
        BY <2>5, <3>1, <3>4, <4>2
      <4>4. pq[2] \notin ToBind
        BY <4>1 DEF ToBind
      <4> QED
        BY <1>0, <3>4, <4>3, <4>4 DEF ChosenInv, Bound
    <3> QED
      BY <3>2, <3>3, <3>4
  <2> QED
    BY <1>2, <2>6 DEF ChosenInv
<1> QED
  BY <1>1, <1>2 DEF BindPod, BindFault, BindStep, Next1Of

\* A drop that begins.
LEMMA DropChosen ==
  ASSUME OneDropper, DInv, NEW t \in Seq(Placement), Distinct(t), ~Pairing,
         chosen' = Remember(t), todo'[Dropper] = t, Pairing', UNCHANGED pods
  PROVE  ChosenInv'
<1> SUFFICES ASSUME NEW pq \in Remember(t)
             PROVE  /\ InTurn(pq)'
                    /\ Bound(pq[1])' /\ Bound(pq[2])' /\ pq[2] \notin ToBind' =>
                         pods'[pq[1]].order < pods'[pq[2]].order
  BY DEF ChosenInv
<1>1. CASE pq \in chosen /\ pq[1] \notin PodsOf(t) /\ pq[2] \notin PodsOf(t)
  <2>1. InTurn(pq)'
    BY <1>1 DEF InTurn, PodsOf
  <2>2. pq[2] \notin ToBind
    BY DEF ToBind
  <2> QED
    BY <1>1, <2>1, <2>2 DEF DInv, ChosenInv, Bound
<1>2. ASSUME NEW i \in DOMAIN t, NEW j \in DOMAIN t, i < j, pq[1] = t[i].pod, pq[2] = t[j].pod
      PROVE  InTurn(pq)' /\ pq[2] \in ToBind'
  <2>1. \A k \in DOMAIN t : t[k].pod = pq[1] => k = i
    BY <1>2 DEF Distinct
  <2>2. InTurn(pq)'
    BY <1>2, <2>1 DEF InTurn
  <2> QED
    BY <1>2, <2>2 DEF ToBind, PodsOf
<1> QED
  BY <1>1, <1>2, RememberPairs

\* The rain stamps and binds.
LEMMA RainChosen ==
  ASSUME OneDropper, DInv, NEW c \in Threads, c # Dropper \/ ~Pairing,
         StampPod(c) \/ StampFault(c) \/ BindPod(c) \/ BindFault(c)
  PROVE  ChosenInv'
<1>0. /\ Dropper \in Threads /\ pc \in [Threads -> Steps] /\ todo \in [Threads -> Seq(Placement)]
      /\ TypeOK /\ RainInv /\ TodoKind /\ ChosenKind
      /\ pc[c] \in {"patch", "bind"}
      /\ raining \in BOOLEAN
  BY DropperIs, TypeParts
  DEF DInv, KindInv, ThreadsOK, StampPod, StampFault, BindPod, BindFault
<1>1. chosen' \subseteq chosen
  BY DEF StampPod, StampFault, BindPod, BindFault, Fails, Forget
<1>2. c = "loop" /\ raining
  BY <1>0, DropperIs DEF RainInv, Pairing
<1>3. (Pairing' <=> Pairing) /\ (Pairing => todo'[Dropper] = todo[Dropper])
  <2>1. CASE c # Dropper
    <3>1. pc'[Dropper] = pc[Dropper] /\ todo'[Dropper] = todo[Dropper] /\ Dropper # "loop"
      BY <1>0, <1>2, <2>1
      DEF StampPod, StampFault, BindPod, BindFault, Fails, Done, Advance
    <3> QED
      BY <3>1 DEF Pairing
  <2>2. CASE c = Dropper
    <3>1. raining' \/ pc'["loop"] \notin {"patch", "bind"}
      BY <1>0, <1>2, <2>2
      DEF StampPod, StampFault, BindPod, BindFault, Fails, Done, Advance
    <3>2. ~Pairing' /\ ~Pairing
      BY <1>2, <2>2, <3>1 DEF Pairing
    <3> QED
      BY <3>2
  <2> QED
    BY <2>1, <2>2
<1>4. ASSUME NEW pq \in chosen' PROVE Spares({pq[1], pq[2]})
  <2>1. UNCHANGED << pods, created >> \/ StampStep(c) \/ BindStep(c)
    BY DEF StampPod, StampFault, BindPod, BindFault, StampStep, BindStep, Next1Of, Lives, storeVars
  <2>2. ASSUME StampStep(c) \/ BindStep(c) PROVE Next1Of(c) \notin {pq[1], pq[2]}
    <3>1. Lives(pods[Next1Of(c)])
      BY <2>2 DEF StampStep, BindStep, MayBind, Lives
    <3>2. pods[Next1Of(c)].ojama = TRUE
      BY <1>0, <3>1, RainStamps
    <3>3. KindOf(pq[1], FALSE) /\ KindOf(pq[2], FALSE)
      BY <1>0, <1>1 DEF ChosenKind
    <3> QED
      BY <3>1, <3>2, <3>3 DEF KindOf
  <2> QED
    BY <2>1, <2>2 DEF Spares
<1> QED
  BY <1>1, <1>3, <1>4, SameTurn

LEMMA PlayerChosen ==
  ASSUME OneDropper, DInv, NEW c \in Players,
         \/ PlayerLists(c) \/ PlayerRefused(c)
         \/ \E x \in Requests : PlayerDrops(c, x)
  PROVE  ChosenInv'
<1>0. /\ c = Dropper /\ Dropper # "loop" /\ Dropper \in Threads
      /\ pc \in [Threads -> Steps] /\ todo \in [Threads -> Seq(Placement)]
  BY DropperIs, TypeParts DEF DInv, ThreadsOK
<1>1. CASE PlayerLists(c) \/ PlayerRefused(c)
  <2>1. UNCHANGED << pods, created, chosen, todo >> /\ ~Pairing /\ ~Pairing'
    BY <1>0, <1>1 DEF PlayerLists, PlayerRefused, storeVars, Pairing
  <2> QED
    BY <2>1, SameTurn DEF Spares
<1>2. ASSUME NEW x \in Requests, PlayerDrops(c, x) PROVE ChosenInv'
  <2>1. /\ UNCHANGED pods /\ ~Pairing /\ Pairing' /\ todo'[Dropper] = x
        /\ chosen' = Remember(x)
    BY <1>0, <1>2 DEF PlayerDrops, storeVars, Pairing
  <2> QED
    BY <2>1, RequestParts, DropChosen
<1> QED
  BY <1>1, <1>2

LEMMA LoopChosen ==
  ASSUME OneDropper, DInv, Loop
  PROVE  ChosenInv'
<1>0. /\ Dropper \in Threads /\ "loop" \in Threads /\ "loop" \notin Players
      /\ pc \in [Threads -> Steps] /\ todo \in [Threads -> Seq(Placement)]
      /\ RainInv /\ DistinctInv /\ UNCHANGED << pods, created >>
  BY DropperIs, TypeParts
  DEF DInv, KindInv, ThreadsOK, Loop, Tick, AutoPlays, AutoWaits, LoopDrops, storeVars
<1>1. ASSUME Dropper # "loop", chosen' \subseteq chosen PROVE ChosenInv'
  <2>1. pc'[Dropper] = pc[Dropper] /\ todo'[Dropper] = todo[Dropper]
    BY <1>0, <1>1 DEF Loop, Tick, AutoPlays, AutoWaits, LoopDrops, Done
  <2>2. Pairing' <=> Pairing
    BY <1>1, <2>1 DEF Pairing
  <2> QED
    BY <1>0, <1>1, <2>1, <2>2, SameTurn DEF Spares
<1>2. ASSUME Dropper = "loop", chosen' \subseteq chosen, ~Pairing' PROVE ChosenInv'
  <2>1. ~Pairing
    BY <1>2 DEF Pairing, Loop, Tick, AutoPlays, AutoWaits, LoopDrops
  <2> QED
    BY <1>0, <1>2, <2>1, SameTurn DEF Spares
<1>3. CASE Tick \/ AutoPlays \/ AutoWaits
  <2>1. chosen' = chosen
    BY <1>3 DEF Tick, AutoPlays, AutoWaits
  <2>2. Dropper = "loop" => ~Pairing'
    BY <1>0, <1>3 DEF Tick, AutoPlays, AutoWaits, Pairing
  <2> QED
    BY <1>1, <1>2, <2>1, <2>2
<1>4. CASE LoopDrops /\ Done("loop") /\ UNCHANGED chosen
  <2>1. Dropper = "loop" => ~Pairing'
    BY <1>0, <1>4 DEF Done, Pairing
  <2> QED
    BY <1>1, <1>2, <1>4, <2>1
<1>5. CASE /\ LoopDrops /\ pc' = [pc EXCEPT !["loop"] = "patch"]
           /\ chosen' = Remember(todo["loop"]) /\ UNCHANGED << todo, raining >>
  <2>1. pc["loop"] = "check" /\ ~raining
    BY <1>0, <1>5 DEF LoopDrops, RainInv
  <2>2. Dropper = "loop"
    BY <1>0, <2>1, DropperIs DEF RainInv
  <2>3. ~Pairing /\ Pairing'
    BY <1>0, <1>5, <2>1, <2>2 DEF Pairing
  <2> QED
    BY <1>0, <1>5, <2>2, <2>3, DropChosen DEF DistinctInv
<1> QED
  BY <1>3, <1>4, <1>5 DEF Loop, LoopDrops

LEMMA OtherChosen ==
  ASSUME OneDropper, DInv,
         \/ \E p \in Names : Expire(p)
         \/ \E m \in Modes : SetMode(m)
         \/ Restart \/ SyncPods \/ ClusterStep
  PROVE  ChosenInv'
<1>1. CASE Restart
  <2>0. /\ Dropper \in Threads /\ todo \in [Threads -> Seq(Placement)]
        /\ UNCHANGED << pods, created >>
    BY <1>1, DropperIs DEF DInv, TypeOK, Restart
  <2>1. ~Pairing'
    BY <1>1, <2>0 DEF Restart, Pairing
  <2>2. { x.pod : x \in ToSet(todo[Dropper]) } = PodsOf(todo[Dropper])
    BY DEF ToSet, PodsOf
  <2>3. chosen' \subseteq chosen /\ \A pq \in chosen' : pq[2] \notin PodsOf(todo[Dropper])
    BY <1>1, <2>0, <2>2 DEF Restart, Forget
  <2> QED
    BY <2>0, <2>1, <2>3, QuietStep DEF Spares, ToBind
<1>2. CASE ~Restart
  <2>1. UNCHANGED << pc, todo, raining, chosen >>
    BY <1>2, ClusterAges DEF Expire, SetMode, SyncPods, threadVars, DInv
  <2>2. UNCHANGED << pods, created >> \/ ClusterStep
    BY <1>2 DEF Expire, SetMode, SyncPods, storeVars
  <2> QED
    BY <2>1, <2>2, SameTurn DEF Pairing, Spares
<1> QED
  BY <1>1, <1>2

LEMMA InitDrop == OneDropper /\ Init => DInv
<1> SUFFICES ASSUME OneDropper, Init PROVE DInv
  OBVIOUS
<1>1. TypeOK /\ OrderInv
  BY InitTop DEF LInv
<1>2. Dropper \in Threads /\ "loop" \in Threads
  BY DropperIs
<1>3. /\ \A c \in Threads : pc[c] = "idle" /\ todo[c] = << >>
      /\ \A p \in Names : ~Lives(podCache[p])
      /\ \A c \in Players : listed[c] = {}
      /\ podFeed = << >> /\ chosen = {} /\ ~raining
  BY GoneIsPod DEF Init, Lives
<1>4. BindInv /\ DistinctInv /\ FirstInv /\ ChosenInv
  BY <1>2, <1>3 DEF BindInv, DistinctInv, Distinct, FirstInv, ChosenInv
<1>5. PodsOf(<< >>) = {} /\ DOMAIN podFeed = {}
  BY <1>3 DEF PodsOf
<1>6. RainInv
  BY <1>2, <1>3 DEF RainInv
<1>7. HeardKind
  BY <1>3, <1>5 DEF HeardKind
<1>8. ListedKind /\ TodoKind /\ ChosenKind
  BY <1>3, <1>5 DEF ListedKind, TodoKind, ChosenKind
<1> QED
  BY <1>1, <1>4, <1>6, <1>7, <1>8 DEF DInv, KindInv

LEMMA StepDrop == OneDropper /\ DInv /\ [Next]_vars => DInv'
<1> SUFFICES ASSUME OneDropper, DInv, [Next]_vars PROVE DInv'
  OBVIOUS
<1>1. TypeOK' /\ OrderInv' /\ BindInv' /\ KindInv' /\ DistinctInv' /\ FirstInv'
  BY StepType, StepOrder, KindStep, DistinctStep, FirstStep DEF DInv
<1>2. ChosenInv'
  <2>1. ASSUME NEW c \in Threads, StampPod(c) \/ StampFault(c) \/ BindPod(c) \/ BindFault(c)
        PROVE  ChosenInv'
    BY <2>1, StampChosen, BindChosen, RainChosen
  <2>2. CASE UNCHANGED vars
    BY <2>2 DEF vars, DInv, ChosenInv, Pairing, InTurn, Bound, ToBind
  <2> QED
    BY <2>1, <2>2, PlayerChosen, LoopChosen, OtherChosen DEF Next, ClusterStep
<1> QED
  BY <1>1, <1>2 DEF DInv

\* A pair lands the way its drop asked for, whatever fails, however old the cache
\* and whatever garbage arrives, when one thread drops pairs: each Pod of a drop
\* is stamped after the one that is to lie beneath it and before it is bound,
\* and nothing else stamps a Pod of a pair.
THEOREM OneDropperLandsAsChosen ==
  ASSUME OneDropper
  PROVE  Spec => []LandsAsChosen
<1>1. Init => DInv
  BY InitDrop
<1>2. DInv /\ [Next]_vars => DInv'
  BY StepDrop
<1>3. DInv => LandsAsChosen
  <2> SUFFICES ASSUME DInv, NEW pq \in chosen, Bound(pq[1]), Bound(pq[2]),
                      \A c \in Threads : pq[2] \notin { x.pod : x \in ToSet(todo[c]) }
               PROVE  Below(pods, pq[1], pq[2])
    BY DEF LandsAsChosen
  <2>1. pq[2] \notin ToBind
    BY DropperIs DEF ToBind, PodsOf, ToSet
  <2>2. pods[pq[1]].order < pods[pq[2]].order
    BY <2>1 DEF DInv, ChosenInv
  <2>3. pods[pq[1]].order # NoStamp /\ pods[pq[2]].order # NoStamp
    BY DEF DInv, OrderInv, Stamped, TypeOK
  <2> QED
    BY <2>2, <2>3 DEF Below, StackOrder
<1> QED
  BY <1>1, <1>2, <1>3, PTL DEF Spec

\* Without an opponent there is no garbage.
NoGarbage == \A p \in Names : Lives(pods[p]) => ~pods[p].ojama

LEMMA GarbageStep ==
  ASSUME ~Opponent, TypeOK, OrderInv, NoGarbage, [Next]_vars
  PROVE  NoGarbage'
<1> SUFFICES ASSUME NEW p \in Names, Lives(pods'[p]) PROVE ~pods'[p].ojama
  BY DEF NoGarbage
<1>1. p \in Nat /\ created \in Nat
  BY NamesFinite, SchedulerAssumption DEF TypeOK
<1>2. CASE p <= created
  BY <1>2, KindsKept DEF NoGarbage
<1>3. CASE p > created
  BY <1>3, Arrivals
<1> QED
  BY <1>1, <1>2, <1>3

\* What is bound is what a thread had to bind next.
LEMMA BoundByThread ==
  ASSUME TypeOK, OrderInv, [Next]_vars, NEW p \in Names, ~Bound(p), Bound(p)'
  PROVE  \E c \in Threads :
           BindStep(c) /\ p = Next1Of(c) /\ pods'[p].node = Head(todo[c]).node
<1>1. ~(UNCHANGED << pods, created >>)
  BY DEF Bound
<1>2. ASSUME NEW c \in Threads, StampStep(c) PROVE FALSE
  <2>1. Next1Of(c) \in Names
    BY <1>2, HeadParts DEF StampStep
  <2> QED
    BY <1>2, <2>1, StampKeeps DEF StampStep, Lives
<1>3. ~ClusterStep
  BY ClusterAges, AgesOrder
<1>4. PICK c \in Threads : BindStep(c)
  BY <1>1, <1>2, <1>3, StoreSteps
<1>5. Next1Of(c) \in Names /\ Head(todo[c]).node \in DOMAIN Nodes /\ pods[Next1Of(c)] \in Pod
  BY <1>4, HeadParts DEF BindStep, TypeOK
<1>6. [pods[Next1Of(c)] EXCEPT !.node = Head(todo[c]).node] \in Pod
  BY <1>5, ChangedPods
<1>7. /\ pods'[Next1Of(c)] = [pods[Next1Of(c)] EXCEPT !.node = Head(todo[c]).node]
      /\ \A q \in Names \ {Next1Of(c)} : pods'[q] = pods[q]
  BY <1>4, <1>5, <1>6, WriteOne DEF BindStep
<1>8. p = Next1Of(c)
  BY <1>7 DEF Bound
<1> QED
  BY <1>4, <1>5, <1>7, <1>8 DEF Pod

LEMMA DropOnTop == OneDropper /\ DInv /\ NoGarbage /\ [Next]_vars => OnTop
<1> SUFFICES ASSUME OneDropper, DInv, NoGarbage, [Next]_vars,
                    NEW p \in Names, ~Bound(p), Bound(p)', NEW q \in Names \ {p}, Bound(q)
             PROVE  Below(pods', q, p)
  BY DEF OnTop
<1>0. TypeOK /\ OrderInv /\ BindInv /\ RainInv /\ TodoKind /\ FirstInv
  BY DEF DInv, KindInv
<1>1. PICK c \in Threads : BindStep(c) /\ p = Next1Of(c)
  BY <1>0, BoundByThread
<1>2. Lives(pods[p]) /\ ~pods[p].ojama /\ pc[c] = "bind"
  BY <1>1 DEF BindStep, MayBind, Lives, NoGarbage
<1>3. c = Dropper /\ Pairing
  <2>1. CASE c # Dropper \/ ~Pairing
    <3>1. pods[p].ojama = TRUE
      BY <1>0, <1>1, <1>2, <2>1, RainStamps
    <3> QED
      BY <1>2, <3>1
  <2> QED
    BY <2>1
<1>4. pods[q].order < pods[p].order /\ Stamped(p) /\ Stamped(q)
  BY <1>0, <1>1, <1>2, <1>3 DEF FirstInv, First, NoGarbage, Bound, Lives, BindInv, OrderInv
<1>5. /\ [pods[p] EXCEPT !.node = Head(todo[c]).node] \in Pod
      /\ pods[p] \in Pod
  BY <1>0, <1>1, <1>2, HeadParts, ChangedPods DEF TypeOK
<1>6. pods'[p] = [pods[p] EXCEPT !.node = Head(todo[c]).node] /\ pods'[q] = pods[q]
  BY <1>0, <1>1, <1>5, WriteOne DEF BindStep
<1>7. pods'[p].order = pods[p].order /\ pods'[q].order = pods[q].order
  BY <1>5, <1>6 DEF Pod
<1> QED
  BY <1>4, <1>7 DEF Below, StackOrder, Stamped

\* What a client binds lands on top of its column too, whatever fails, when it is
\* the only one that drops and there is no garbage: the rain may stamp between
\* the stamp and the binding of a client, and the client then lands beneath.
THEOREM OneDropperLandsOnTop ==
  ASSUME OneDropper, ~Opponent
  PROVE  Spec => LandsOnTop
<1>1. Init => DInv /\ NoGarbage
  BY InitDrop, GoneIsPod DEF Init, NoGarbage, Lives
<1>2. DInv /\ NoGarbage /\ [Next]_vars => (DInv /\ NoGarbage)'
  BY StepDrop, GarbageStep DEF DInv
<1>3. DInv /\ NoGarbage /\ [Next]_vars =>
        [\A p \in Names :
           ~Bound(p) /\ Bound(p)' =>
             \A q \in Names \ {p} :
               (Bound(q) /\ pods[q].node = pods'[p].node) => Below(pods', q, p)]_vars
  BY DropOnTop DEF OnTop
<1> QED
  BY <1>1, <1>2, <1>3, PTL DEF Spec, LandsOnTop

-----------------------------------------------------------------------------
(***************************************************************************)
(* The Kbkb is read twice for a pair of the loop.                          *)
(***************************************************************************)
\* A placement is on a node that is no column.
Off(t) == \E i \in DOMAIN t : t[i].node \notin ColumnsFor(TRUE)

ReadInv ==
  /\ pc["loop"] = "check" /\ Off(todo["loop"]) => faults >= 1
  /\ pc["loop"] \in {"patch", "bind"} /\ ~raining /\ Off(todo["loop"]) => faults >= 2

LEMMA FaultsRise ==
  ASSUME TypeOK, [Next]_vars
  PROVE  faults \in Nat /\ faults' \in {faults, faults + 1}
BY FaultsGrow, SchedulerAssumption DEF TypeOK

LEMMA OnColumns ==
  /\ \A t : ~Off(<< >>)
  /\ \A queue, t : Accepts(queue, TRUE, t) => ~Off(t)
  /\ \A t \in Seq(Placement) : t # << >> /\ Off(Tail(t)) => Off(t)
<1>1. ~Off(<< >>)
  BY DEF Off
<1>2. \A queue, t : Accepts(queue, TRUE, t) => ~Off(t)
  BY DEF Accepts, Off
<1>3. ASSUME NEW t \in Seq(Placement), t # << >>, Off(Tail(t)) PROVE Off(t)
  BY <1>3, TailParts DEF Off
<1> QED
  BY <1>1, <1>2, <1>3

LEMMA ReadStep ==
  ASSUME TypeOK, ReadInv, [Next]_vars
  PROVE  ReadInv'
<1>0. /\ "loop" \in Threads /\ Players \subseteq Threads /\ "loop" \notin Players
      /\ pc \in [Threads -> Steps] /\ todo \in [Threads -> Seq(Placement)]
      /\ raining \in BOOLEAN /\ faults \in Nat /\ faults' \in {faults, faults + 1}
      /\ pc["loop"] \in {"check", "patch", "bind"} <=> todo["loop"] # << >>
  BY LoopIsThread, FaultsRise, TypeParts DEF ThreadsOK
<1>1. ASSUME pc'["loop"] = pc["loop"], todo'["loop"] = todo["loop"], raining' = raining
      PROVE  ReadInv'
  BY <1>0, <1>1 DEF ReadInv
<1>2. ASSUME todo'["loop"] = << >> PROVE ReadInv'
  BY <1>2, OnColumns DEF ReadInv
<1>3. ASSUME NEW c \in Players,
             PlayerLists(c) \/ PlayerRefused(c) \/ (\E x \in Requests : PlayerDrops(c, x))
      PROVE  ReadInv'
  BY <1>0, <1>1, <1>3 DEF PlayerLists, PlayerRefused, PlayerDrops
<1>4. ASSUME NEW c \in Threads, c # "loop",
             StampPod(c) \/ StampFault(c) \/ BindPod(c) \/ BindFault(c)
      PROVE  ReadInv'
  BY <1>0, <1>1, <1>4 DEF StampPod, StampFault, BindPod, BindFault, Fails, Done, Advance
<1>5. CASE StampPod("loop") \/ StampFault("loop") \/ BindFault("loop")
  <2>1. CASE todo'["loop"] = << >>
    BY <1>2, <2>1
  <2>2. CASE todo'["loop"] # << >>
    <3>1. pc["loop"] = "patch" /\ pc'["loop"] = "bind" /\ UNCHANGED << todo, raining >>
      BY <1>0, <1>5, <2>2 DEF StampPod, StampFault, BindFault, Fails, Done
    <3> QED
      BY <1>0, <3>1 DEF ReadInv
  <2> QED
    BY <2>1, <2>2
<1>6. CASE BindPod("loop")
  <2>1. CASE todo'["loop"] = << >>
    BY <1>2, <2>1
  <2>2. CASE todo'["loop"] # << >>
    <3>1. /\ pc["loop"] = "bind" /\ pc'["loop"] = "patch" /\ raining' = raining
          /\ todo'["loop"] = Tail(todo["loop"])
      BY <1>0, <1>6, <2>2 DEF BindPod, Fails, Done, Advance
    <3> QED
      BY <1>0, <3>1, OnColumns DEF ReadInv
  <2> QED
    BY <2>1, <2>2
<1>7. CASE Tick
  BY <1>0, <1>7 DEF Tick, ReadInv
<1>8. CASE AutoPlays
  <2>1. pc'["loop"] = "check"
    BY <1>0, <1>8 DEF AutoPlays
  <2>2. PICK kb \in BOOLEAN : ReadsKbkb(kb) /\ \E x \in AutoPlacements(kb) :
                                todo' = [todo EXCEPT !["loop"] = x]
    BY <1>8 DEF AutoPlays
  <2>3. CASE kb = TRUE
    BY <1>0, <2>1, <2>2, <2>3, OnColumns DEF AutoPlacements, ReadInv
  <2>4. CASE kb = FALSE
    BY <1>0, <2>1, <2>2, <2>4 DEF ReadsKbkb, Fault, ReadInv
  <2> QED
    BY <2>2, <2>3, <2>4
<1>9. CASE AutoWaits
  BY <1>0, <1>9 DEF AutoWaits, ReadInv
<1>10. CASE LoopDrops
  <2>1. PICK kb \in BOOLEAN :
          /\ ReadsKbkb(kb)
          /\ \/ /\ Accepts(ToSet(Queue), kb, todo["loop"])
                /\ pc' = [pc EXCEPT !["loop"] = "patch"]
                /\ UNCHANGED << todo, raining >>
             \/ Done("loop")
    BY <1>10 DEF LoopDrops
  <2>2. CASE todo'["loop"] = << >>
    BY <1>2, <2>2
  <2>3. CASE todo'["loop"] # << >>
    <3>1. /\ Accepts(ToSet(Queue), kb, todo["loop"]) /\ UNCHANGED << todo, raining >>
          /\ pc["loop"] = "check" /\ pc'["loop"] = "patch"
      BY <1>0, <1>10, <2>1, <2>3 DEF LoopDrops, Done
    <3>2. CASE kb = TRUE
      BY <3>1, <3>2, OnColumns DEF ReadInv
    <3>3. CASE kb = FALSE
      BY <1>0, <2>1, <3>1, <3>3 DEF ReadsKbkb, Fault, ReadInv
    <3> QED
      BY <3>2, <3>3
  <2> QED
    BY <2>2, <2>3
<1>11. CASE Restart
  BY <1>0, <1>2, <1>11 DEF Restart
<1>12. CASE (\E p \in Names : Expire(p)) \/ (\E m \in Modes : SetMode(m)) \/ SyncPods
  BY <1>1, <1>12 DEF Expire, SetMode, SyncPods, threadVars
<1>13. CASE ClusterStep
  BY <1>1, <1>13, ClusterAges DEF threadVars
<1>14. CASE UNCHANGED vars
  BY <1>1, <1>14 DEF vars
<1> QED
  BY <1>3, <1>4, <1>5, <1>6, <1>7, <1>8, <1>9, <1>10, <1>11, <1>12, <1>13, <1>14
  DEF Next, ClusterStep, Loop

\* What the loop binds is where it was to bind it.
LEMMA LoopBindsThere ==
  ASSUME TypeOK, [Next]_vars, NEW p \in Names, LoopBinds(p)
  PROVE  pods'[p].node = Head(todo["loop"]).node
<1>0. /\ "loop" \in Threads /\ Players \subseteq Threads /\ "loop" \notin Players
      /\ pc \in [Threads -> Steps]
      /\ p = Next1Of("loop") /\ pc["loop"] = "bind" /\ pc'["loop"] # "bind"
      /\ Head(todo["loop"]).node \in DOMAIN Nodes /\ ~Bound(p) /\ Bound(p)'
  BY LoopIsThread, HeadParts, TypeParts DEF LoopBinds, Next1Of, ThreadsOK
<1>1. pods' # pods
  BY <1>0 DEF Bound
<1>2. ASSUME NEW c \in Players, PlayerLists(c) \/ PlayerRefused(c)
                                \/ \E x \in Requests : PlayerDrops(c, x)
      PROVE  FALSE
  BY <1>1, <1>2 DEF PlayerLists, PlayerRefused, PlayerDrops, storeVars
<1>3. ASSUME NEW c \in Threads, c # "loop",
             StampPod(c) \/ StampFault(c) \/ BindPod(c) \/ BindFault(c)
      PROVE  FALSE
  BY <1>0, <1>3 DEF StampPod, StampFault, BindPod, BindFault, Fails, Done, Advance
<1>4. ~StampPod("loop") /\ ~StampFault("loop")
  BY <1>0 DEF StampPod, StampFault
<1>5. ~Loop
  BY <1>0 DEF Loop, Tick, AutoPlays, AutoWaits, LoopDrops
<1>6. ASSUME (\E q \in Names : Expire(q)) \/ (\E m \in Modes : SetMode(m)) \/ Restart \/ SyncPods
      PROVE  FALSE
  BY <1>1, <1>6 DEF Expire, SetMode, Restart, SyncPods, storeVars
<1>7. ~ClusterStep
  BY <1>0, ClusterAges DEF threadVars
<1>8. BindPod("loop") \/ BindFault("loop")
  <2>1. ~UNCHANGED vars
    BY <1>1 DEF vars
  <2>2. \A c \in Players : /\ ~PlayerLists(c) /\ ~PlayerRefused(c)
                           /\ \A x \in Requests : ~PlayerDrops(c, x)
    BY <1>2
  <2>3. \A c \in Threads : c # "loop" =>
          ~StampPod(c) /\ ~StampFault(c) /\ ~BindPod(c) /\ ~BindFault(c)
    BY <1>3
  <2> QED
    BY <1>4, <1>5, <1>6, <1>7, <2>1, <2>2, <2>3 DEF Next, ClusterStep
<1>9. Write(p, [pods[p] EXCEPT !.node = Head(todo["loop"]).node])
  <2>1. ~UNCHANGED storeVars
    BY <1>1 DEF storeVars
  <2>2. CASE BindPod("loop")
    BY <1>0, <2>1, <2>2 DEF BindPod, Next1Of
  <2>3. CASE BindFault("loop")
    BY <1>0, <2>1, <2>3 DEF BindFault, Next1Of
  <2> QED
    BY <1>8, <2>2, <2>3
<1>10. pods[p] \in Pod /\ [pods[p] EXCEPT !.node = Head(todo["loop"]).node] \in Pod
  BY <1>0, ChangedPods DEF TypeOK
<1>11. pods'[p] = [pods[p] EXCEPT !.node = Head(todo["loop"]).node]
  BY <1>9, <1>10, WriteOne
<1> QED
  BY <1>10, <1>11 DEF Pod

\* What autoDrop binds, it binds to a column of the Kbkb, as long as at most one
\* request has failed: the columns are those of two reads.  Two failed reads
\* put a pair on any node.
THEOREM OneFaultStaysOnColumns == Spec => LoopStaysOnColumns
<1>1. Init => TypeOK /\ ReadInv
  BY InitType, LoopIsThread DEF Init, ReadInv
<1>2. TypeOK /\ ReadInv /\ [Next]_vars => (TypeOK /\ ReadInv)'
  BY StepType, ReadStep
<1>3. TypeOK /\ ReadInv /\ [Next]_vars =>
        [faults' <= 1 =>
           \A p \in Names : LoopBinds(p) => pods'[p].node \in ColumnsFor(TRUE)]_vars
  <2> SUFFICES ASSUME TypeOK, ReadInv, [Next]_vars, faults' <= 1, NEW p \in Names, LoopBinds(p)
               PROVE  pods'[p].node \in ColumnsFor(TRUE)
    OBVIOUS
  <2>1. faults \in Nat /\ faults <= 1
    BY FaultsRise
  <2>2. ~Off(todo["loop"])
    BY <2>1 DEF ReadInv, LoopBinds
  <2>3. 1 \in DOMAIN todo["loop"] /\ Head(todo["loop"]) = todo["loop"][1]
    BY LoopIsThread, HeadParts DEF LoopBinds
  <2> QED
    BY <2>2, <2>3, LoopBindsThere DEF Off
<1> QED
  BY <1>1, <1>2, <1>3, PTL DEF Spec, LoopStaysOnColumns

-----------------------------------------------------------------------------
(***************************************************************************)
(* Pairs by creation.  A pair begins after every PairSize-th Pod.          *)
(***************************************************************************)
Begins(k) == k % PairSize = 0

\* Between the two a pair begins: q is of an older pair than a.
Older(q, a) == \E k \in q .. a - 1 : Begins(k)

LEMMA Quotient ==
  ASSUME NEW b \in Nat, b >= 1, NEW x \in Nat
  PROVE  x % b \in 0 .. b - 1 /\ x \div b \in Int /\ x = b * (x \div b) + (x % b)
<1>1. x % b \in 0 .. b - 1
  OBVIOUS
<1>2. x \div b \in Int /\ x = b * (x \div b) + (x % b)
  OBVIOUS
<1> QED
  BY <1>1, <1>2

LEMMA MultipleBegins ==
  ASSUME NEW b \in Nat, b >= 1, NEW d \in Int
  PROVE  (b * d) % b = 0
<1> DEFINE m == (b * d) % b
           e == (b * d) \div b
<1>1. m \in 0 .. b - 1 /\ e \in Int /\ b * d = b * e + m
  OBVIOUS
<1> HIDE DEF m, e
<1>2. CASE d - e >= 1
  BY <1>1, <1>2
<1>3. CASE d - e <= -1
  BY <1>1, <1>3
<1>4. CASE d = e
  BY <1>1, <1>4
<1>5. m = 0
  BY <1>1, <1>2, <1>3, <1>4
<1> QED
  BY <1>5 DEF m

\* One of PairSize numbers in a row begins a pair.
LEMMA SomeBegins ==
  ASSUME NEW x \in Nat
  PROVE  \E k \in x .. x + PairSize - 1 : Begins(k)
<1> DEFINE d == x \div PairSize
           m == x % PairSize
<1>0. PairSize \in Nat /\ PairSize >= 1
  BY SchedulerAssumption
<1>1. m \in 0 .. PairSize - 1 /\ x = PairSize * d + m /\ d \in Int
  BY <1>0, Quotient
<1>2. CASE m = 0
  BY <1>0, <1>2 DEF Begins
<1>3. CASE m # 0
  <2> DEFINE e == d + 1
  <2> HIDE DEF d, m
  <2>1. e \in Int /\ PairSize * e = x + PairSize - m
    BY <1>0, <1>1 DEF e
  <2> HIDE DEF e
  <2>2. Begins(PairSize * e)
    BY <1>0, <2>1, MultipleBegins DEF Begins
  <2>3. x + PairSize - m \in x .. x + PairSize - 1
    BY <1>0, <1>1, <1>3
  <2> QED
    BY <2>1, <2>2, <2>3
<1> QED
  BY <1>2, <1>3

LEMMA GreatestOf ==
  ASSUME NEW n \in Nat, NEW S \in SUBSET (1 .. n), S # {}
  PROVE  \E p \in S : \A q \in S : q <= p
<1> DEFINE g == [i \in 1 .. n |-> IF i \in S THEN i ELSE 0]
<1>1. PICK s \in S : TRUE
  OBVIOUS
<1>2. g \in [1 .. n -> Int] /\ s \in 1 .. n
  OBVIOUS
<1>3. \A i \in S : i \in 1 .. n /\ g[i] = i /\ i >= 1
  OBVIOUS
<1>4. \A i \in 1 .. n : i \notin S => g[i] = 0
  OBVIOUS
<1> HIDE DEF g
<1>5. PICK m \in 1 .. n : \A i \in 1 .. n : g[i] <= g[m]
  BY <1>2, HasGreatest
<1>6. m \in S
  BY <1>1, <1>3, <1>4, <1>5
<1> QED
  BY <1>3, <1>5, <1>6

\* PairSize Pods of one pair are all of it: the names up to a p that ends it.
LEMMA WholePair ==
  ASSUME NEW T \in SUBSET Names, Cardinality(T) = PairSize,
         \A p, q \in T : ~Older(p, q)
  PROVE  \E p \in T : Begins(p) /\ T = p - PairSize + 1 .. p
<1>0. PairSize \in Nat /\ PairSize >= 1 /\ IsFiniteSet(T) /\ \A q \in T : q \in Nat /\ q >= 1
  BY SchedulerAssumption, NamesFinite DEF Names
<1>1. T # {}
  BY <1>0, FS_EmptySet
<1>2. PICK p \in T : \A q \in T : q <= p
  BY <1>1, GreatestOf, SchedulerAssumption DEF Names
<1>3. ASSUME NEW q \in T PROVE q \in p - PairSize + 1 .. p
  <2>1. PICK k \in q .. q + PairSize - 1 : Begins(k)
    BY <1>0, SomeBegins
  <2>2. ~(k \in q .. p - 1)
    BY <1>3, <2>1 DEF Older
  <2> QED
    BY <1>0, <1>2, <2>1, <2>2
<1> DEFINE I == p - PairSize + 1 .. p
<1>4. IsFiniteSet(I) /\ Cardinality(I) = PairSize
  <2> DEFINE a == p - PairSize + 1
  <2>1. a \in Int /\ p \in Int /\ ~(a > p) /\ p - a + 1 = PairSize
    BY <1>0, <1>2
  <2> HIDE DEF a
  <2>2. IsFiniteSet(a .. p) /\ Cardinality(a .. p) = p - a + 1
    BY <2>1, FS_Interval
  <2> QED
    BY <2>1, <2>2 DEF a
<1>5. T = I
  BY <1>3, <1>4, FS_Subset
<1>6. p - PairSize + 1 \in T
  BY <1>0, <1>2, <1>5
<1>7. PICK k \in p - PairSize + 1 .. p : Begins(k)
  <2>1. p - PairSize + 1 \in Nat
    BY <1>0, <1>6
  <2>2. \E k \in p - PairSize + 1 .. p - PairSize + 1 + PairSize - 1 : Begins(k)
    BY <2>1, SomeBegins
  <2>3. p - PairSize + 1 + PairSize - 1 = p
    BY <1>0, <1>2
  <2> QED
    BY <2>2, <2>3
<1>8. k = p
  <2>1. ~(k \in p - PairSize + 1 .. p - 1)
    BY <1>2, <1>6, <1>7 DEF Older
  <2> QED
    BY <1>0, <1>2, <1>7, <2>1
<1> QED
  BY <1>2, <1>5, <1>7, <1>8

-----------------------------------------------------------------------------
(***************************************************************************)
(* What a step may do when no request fails and there is no garbage.       *)
(***************************************************************************)
RoomCase ==
  /\ OneDropper /\ (Players = {} \/ PairSize = 2)
  /\ StaysCalm

\* The Pod can be bound.
Waits(r) == Lives(r) /\ r.node = NoNode /\ ~r.deleting

LEMMA NoFaults ==
  ASSUME TypeOK, RoomCase
  PROVE  ~Fault /\ faults' = 0 /\ \A kb \in BOOLEAN : ReadsKbkb(kb) => kb = TRUE
<1>1. faults \in Nat /\ faults' = 0
  BY SchedulerAssumption DEF TypeOK, RoomCase, StaysCalm
<1> QED
  BY <1>1 DEF Fault, ReadsKbkb

LEMMA CalmGarbage ==
  ASSUME RoomCase, TypeOK, OrderInv, NoGarbage, [Next]_vars
  PROVE  NoGarbage'
<1> SUFFICES ASSUME NEW p \in Names, Lives(pods'[p]) PROVE ~pods'[p].ojama
  BY DEF NoGarbage
<1>1. p \in Nat /\ created \in Nat
  BY NamesFinite, SchedulerAssumption DEF TypeOK
<1>2. CASE p <= created
  BY <1>2, KindsKept DEF NoGarbage
<1>3. CASE p > created
  <2>1. p = created' /\ created' # created
    BY <1>1, <1>3, Arrivals
  <2> QED
    BY <2>1 DEF RoomCase, StaysCalm, Crowds
<1> QED
  BY <1>1, <1>2, <1>3

\* The dropper binds its next Pod; a bound Pod starts or is marked; a Pod is gone;
\* a Pod is new, and the first of a pair only when none waits.
Changes(p, pod) ==
  /\ Write(p, pod) /\ UNCHANGED podCache
  /\ \/ /\ Pairing /\ BindStep(Dropper) /\ p = First /\ p <= created /\ created' = created
        /\ Waits(pods[p]) /\ Placed(pod) /\ pod.node = Head(todo[Dropper]).node
     \/ /\ Bound(p) /\ p <= created /\ created' = created
        /\ Placed(pod) /\ pod.node = pods[p].node
     \/ /\ p <= created /\ created' = created
        /\ ~Lives(pod) /\ pod.node = NoNode
     \/ /\ p = created + 1 /\ created' = created + 1 /\ ~Placed(pod) /\ pod.node = NoNode
        /\ Begins(created) => \A q \in Names : ~Waits(pods[q])

\* Nothing changes but stamps.
Stands ==
  /\ UNCHANGED << podFeed, podCache, created >>
  /\ \A q \in Names :
       /\ pods'[q].phase = pods[q].phase /\ pods'[q].node = pods[q].node
       /\ pods'[q].deleting = pods[q].deleting

LEMMA ClusterBegins ==
  ASSUME RoomCase, TypeOK, NoGarbage, ClusterStep, created' # created, Begins(created)
  PROVE  \A q \in Names : ~Waits(pods[q])
<1>1. PICK ojama \in BOOLEAN : Arrive(ojama)
  BY DEF ClusterStep, Run, Delete, Removed
<1>2. QueuedInStore = {}
  BY DEF RoomCase, StaysCalm, Crowds, Begins
<1> QED
  BY <1>2 DEF QueuedInStore, NoGarbage, Waits, Lives

LEMMA ClusterChanges ==
  ASSUME RoomCase, TypeOK, OrderInv, NoGarbage, ClusterStep
  PROVE  \E p \in Names : \E pod \in Pod : Changes(p, pod)
<1>1. PICK p \in Names, pod \in Pod : Write(p, pod) /\ Ages(p, pod)
  BY ClusterAges
<1>2. UNCHANGED podCache
  BY ClusterAges
<1>3. created \in Nat /\ p \in Nat
  BY NamesFinite DEF TypeOK
<1>4. Begins(created) /\ created' = created + 1 => \A q \in Names : ~Waits(pods[q])
  BY <1>3, ClusterBegins
<1>5. Changes(p, pod)
  BY <1>1, <1>2, <1>4, GoneIsPod DEF Changes, Ages, OrderInv, Known, Bound, Lives, Placed
<1> QED
  BY <1>5

\* The rain finds no garbage to bind.
LEMMA OnlyPairs ==
  ASSUME RoomCase, DInv, NoGarbage, NEW c \in Threads, BindStep(c)
  PROVE  c = Dropper /\ Pairing /\ Waits(pods[Next1Of(c)]) /\ Next1Of(c) \in Names
<1>0. OneDropper /\ TypeOK /\ RainInv /\ TodoKind
  BY DEF RoomCase, DInv, KindInv
<1> DEFINE p == Next1Of(c)
<1>1. p \in Names
  BY <1>0, HeadParts DEF BindStep
<1>2. Lives(pods[p]) /\ Waits(pods[p])
  BY DEF BindStep, MayBind, Lives, Waits
<1>3. CASE c # Dropper \/ ~Pairing
  <2>1. pods[p].ojama = TRUE
    BY <1>0, <1>2, <1>3, RainStamps DEF BindStep
  <2> QED
    BY <1>1, <1>2, <2>1 DEF NoGarbage
<1> QED
  BY <1>1, <1>2, <1>3

LEMMA BindChanges ==
  ASSUME RoomCase, DInv, NoGarbage, NEW c \in Threads, BindStep(c)
  PROVE  \E p \in Names : \E pod \in Pod : Changes(p, pod)
<1>0. TypeOK /\ OrderInv
  BY DEF DInv
<1> DEFINE p == Next1Of(c)
           pod == [pods[p] EXCEPT !.node = Head(todo[c]).node]
<1>1. p \in Names /\ Head(todo[c]).node \in DOMAIN Nodes
  BY <1>0, HeadParts DEF BindStep
<1>2. c = Dropper /\ Pairing /\ Lives(pods[p]) /\ Waits(pods[p])
  BY OnlyPairs DEF Waits
<1>3. pod \in Pod /\ pods[p] \in Pod
  BY <1>0, <1>1, ChangedPods DEF TypeOK
<1>4. pod.node = Head(todo[c]).node /\ pod.phase = pods[p].phase
  BY <1>3 DEF Pod
<1>5. p <= created
  BY <1>0, <1>1, <1>2 DEF OrderInv, Known, Lives
<1>6. Placed(pod)
  BY <1>1, <1>2, <1>4, SchedulerAssumption DEF Placed, Lives
<1>7. Write(p, pod) /\ UNCHANGED << podCache, created >> /\ p = First
  BY <1>2 DEF BindStep, First
<1> HIDE DEF p, pod
<1>8. Changes(p, pod)
  BY <1>2, <1>4, <1>5, <1>6, <1>7 DEF Changes
<1> QED
  BY <1>1, <1>3, <1>8

LEMMA StepChanges ==
  ASSUME RoomCase, DInv, NoGarbage, [Next]_vars
  PROVE  \/ Stands \/ SyncPods
         \/ \E p \in Names : \E pod \in Pod : Changes(p, pod)
<1>0. TypeOK /\ OrderInv
  BY DEF DInv
<1>1. ~Restart
  BY <1>0, NoFaults DEF Restart
<1>2. CASE UNCHANGED << podFeed, podCache >> /\ UNCHANGED << pods, created >>
  BY <1>2 DEF Stands
<1>3. ASSUME NEW c \in Threads, StampStep(c) PROVE Stands
  <2>1. Next1Of(c) \in Names
    BY <1>0, <1>3, HeadParts DEF StampStep
  <2>2. \A q \in Names : \E o \in Orders : pods'[q] = [pods[q] EXCEPT !.order = o]
    BY <1>0, <1>3, <2>1, StampNewest DEF StampStep, TypeOK
  <2>3. \A q \in Names : pods[q] \in Pod
    BY <1>0 DEF TypeOK
  <2> QED
    BY <1>3, <2>2, <2>3 DEF StampStep, Stands, Pod
<1> QED
  BY <1>0, <1>1, <1>2, <1>3, FeedSteps, StoreSteps, BindChanges, ClusterChanges DEF SyncPods

-----------------------------------------------------------------------------
(***************************************************************************)
(* What the scheduler hears of a pair, it hears after the older pairs have *)
(* landed or gone.  Heard(i, a): after i more events the cache has had a.  *)
(***************************************************************************)
Heard(i, a) == Lives(podCache[a]) \/ \E j \in 1 .. i : podFeed[j].pod = a

Passed(i, q) ==
  \/ Waits(podCache[q])
  \/ \E j \in 1 .. i : podFeed[j].pod = q /\ Waits(podFeed[j].now)
  => \E j \in 1 .. i : podFeed[j].pod = q /\ ~Waits(podFeed[j].now)

Shown(i, q) ==
  Placed(podCache[q]) \/ \E j \in 1 .. i : podFeed[j].pod = q /\ Placed(podFeed[j].now)

Caught(i, q) == Passed(i, q) /\ (Bound(q) => Shown(i, q))

GoneInv == \A p \in Names : ~Lives(pods[p]) => pods[p].node = NoNode

\* Only Pods of the newest pair wait.
AgeInv == \A q \in Names : Older(q, created) => ~Waits(pods[q])

HeardInv == \A q \in Names : ~Waits(pods[q]) => Caught(Len(podFeed), q)

OlderInv ==
  \A i \in 0 .. Len(podFeed) : \A a, q \in Names :
    Older(q, a) /\ Heard(i, a) => Caught(i, q)

\* A Pod waits in the first event about it only.
FirstHeard ==
  \A i, j \in DOMAIN podFeed :
    i < j /\ podFeed[i].pod = podFeed[j].pod => ~Waits(podFeed[j].now)

\* A Pod is shown on no node but its own.
NodeInv ==
  /\ \A q \in Names : Placed(podCache[q]) /\ Bound(q) => podCache[q].node = pods[q].node
  /\ \A i \in DOMAIN podFeed :
       Placed(podFeed[i].now) /\ Bound(podFeed[i].pod)
         => podFeed[i].now.node = pods[podFeed[i].pod].node

ViewInv ==
  /\ FeedInv /\ CacheInv /\ GoneInv /\ AgeInv
  /\ HeardInv /\ OlderInv /\ FirstHeard /\ NodeInv

LEMMA StandsView ==
  ASSUME TypeOK, ViewInv, Stands
  PROVE  ViewInv'
<1>0. \A i \in DOMAIN podFeed : podFeed[i].pod \in Names
  BY FeedParts
<1>1. /\ UNCHANGED << podFeed, podCache, created >>
      /\ \A q \in Names : pods'[q].phase = pods[q].phase /\ pods'[q].node = pods[q].node
                          /\ pods'[q].deleting = pods[q].deleting
  BY DEF Stands
<1>2. \A p \in Names : /\ Lives(pods'[p]) <=> Lives(pods[p])
                       /\ Placed(pods'[p]) <=> Placed(pods[p])
                       /\ Waits(pods'[p]) <=> Waits(pods[p])
                       /\ Bound(p)' <=> Bound(p)
  BY <1>1 DEF Lives, Placed, Waits, Bound
<1>3. FeedInv'
  BY <1>0, <1>1, <1>2 DEF ViewInv, FeedInv, Follows
<1>4. CacheInv'
  BY <1>0, <1>1, <1>2 DEF ViewInv, CacheInv, Follows
<1>5. GoneInv' /\ AgeInv' /\ FirstHeard'
  BY <1>1, <1>2 DEF ViewInv, GoneInv, AgeInv, FirstHeard
<1>6. \A i : \A q \in Names : Caught(i, q) => Caught(i, q)'
  BY <1>1, <1>2 DEF Caught, Passed, Shown
<1>7. HeardInv'
  BY <1>1, <1>2, <1>6 DEF ViewInv, HeardInv
<1>8. \A i : \A a \in Names : Heard(i, a)' => Heard(i, a)
  BY <1>1 DEF Heard
<1>9. OlderInv'
  BY <1>1, <1>6, <1>8 DEF ViewInv, OlderInv
<1>10. NodeInv'
  BY <1>0, <1>1, <1>2 DEF ViewInv, NodeInv
<1> QED
  BY <1>3, <1>4, <1>5, <1>7, <1>9, <1>10 DEF ViewInv

\* The oldest event has reached the cache.
LEMMA SyncView ==
  ASSUME TypeOK, ViewInv, SyncPods
  PROVE  ViewInv'
<1> DEFINE n == Len(podFeed)
           p == podFeed[1].pod
           now == podFeed[1].now
<1>1. /\ n \in Nat \ {0} /\ DOMAIN podFeed = 1 .. n
      /\ DOMAIN podFeed' = 1 .. n - 1 /\ 1 \in DOMAIN podFeed
      /\ \A i \in DOMAIN podFeed' : i + 1 \in DOMAIN podFeed /\ podFeed'[i] = podFeed[i + 1]
      /\ p \in Names /\ podCache'[p] = now
      /\ \A q \in Names \ {p} : podCache'[q] = podCache[q]
      /\ UNCHANGED << pods, created >>
  BY SyncParts
<1>2. Len(podFeed') = n - 1
  BY SyncParts
<1>3. \A q \in Names : Bound(q)' <=> Bound(q)
  BY <1>1 DEF Bound
<1>4. FeedInv' /\ CacheInv'
  BY SyncFeeds DEF ViewInv
<1>5. GoneInv' /\ AgeInv'
  BY <1>1 DEF ViewInv, GoneInv, AgeInv
<1>6. FirstHeard'
  <2>1. ASSUME NEW i \in 1 .. n - 1, NEW j \in 1 .. n - 1, i < j,
               podFeed'[i].pod = podFeed'[j].pod
        PROVE  ~Waits(podFeed'[j].now)
    <3>1. i + 1 \in 1 .. n /\ j + 1 \in 1 .. n /\ i + 1 < j + 1
      BY <1>1, <2>1
    <3> QED
      BY <1>1, <2>1, <3>1 DEF ViewInv, FirstHeard
  <2> QED
    BY <1>1, <2>1 DEF FirstHeard
<1>7. NodeInv'
  <2>1. \A q \in Names : Placed(podCache'[q]) /\ Bound(q) => podCache'[q].node = pods[q].node
    BY <1>1 DEF ViewInv, NodeInv
  <2>2. \A i \in 1 .. n - 1 : Placed(podFeed'[i].now) /\ Bound(podFeed'[i].pod)
                               => podFeed'[i].now.node = pods[podFeed'[i].pod].node
    BY <1>1 DEF ViewInv, NodeInv
  <2>3. \A i \in 1 .. n - 1 : podFeed'[i].pod \in Names
    BY <1>1, FeedParts
  <2> QED
    BY <1>1, <1>3, <2>1, <2>2, <2>3 DEF NodeInv
<1>8. Bound(p) => Lives(now) /\ Follows(podCache[p], now)
  BY <1>1 DEF ViewInv, FeedInv, CacheInv, Bound, Lives
<1>9. \A j \in 1 .. n : 1 < j /\ podFeed[j].pod = p => ~Waits(podFeed[j].now)
  BY <1>1 DEF ViewInv, FirstHeard
<1> HIDE DEF n, p, now
<1>10. ASSUME NEW i \in 0 .. n - 1, NEW q \in Names, Caught(i + 1, q)
       PROVE  Caught(i, q)'
  <2>1. \A j \in 1 .. i : j \in 1 .. n - 1 /\ j + 1 \in 1 .. i + 1 /\ j + 1 > 1
                          /\ j + 1 \in 1 .. n
    BY <1>1
  <2>2. \A j \in 1 .. i + 1 : j = 1 \/ (j - 1 \in 1 .. i /\ podFeed'[j - 1] = podFeed[j])
    <3> TAKE j \in 1 .. i + 1
    <3>1. j # 1 => j - 1 \in 1 .. i /\ j - 1 \in 1 .. n - 1 /\ (j - 1) + 1 = j
      BY <1>1
    <3> QED
      BY <1>1, <3>1
  <2>3. \A j \in 1 .. i : podFeed'[j] = podFeed[j + 1]
    BY <1>1, <2>1
  <2>4. podFeed[1].pod = p /\ podFeed[1].now = now
    BY DEF p, now
  <2>5. Passed(i, q)'
    <3>1. CASE q # p
      <4>1. podCache'[q] = podCache[q]
        BY <1>1, <3>1
      <4>2. ASSUME Waits(podCache'[q]) \/ \E j \in 1 .. i : podFeed'[j].pod = q /\ Waits(podFeed'[j].now)
            PROVE  \E j \in 1 .. i : podFeed'[j].pod = q /\ ~Waits(podFeed'[j].now)
        <5>1. PICK j \in 1 .. i + 1 : podFeed[j].pod = q /\ ~Waits(podFeed[j].now)
          BY <1>10, <2>1, <2>3, <4>1, <4>2 DEF Caught, Passed
        <5> QED
          BY <2>2, <2>4, <3>1, <5>1
      <4> QED
        BY <4>2 DEF Passed
    <3>2. CASE q = p /\ Waits(now)
      <4>1. 1 \in 1 .. i + 1
        BY <1>1
      <4>2. PICK j \in 1 .. i + 1 : podFeed[j].pod = q /\ ~Waits(podFeed[j].now)
        BY <1>10, <2>4, <3>2, <4>1 DEF Caught, Passed
      <4>3. \E k \in 1 .. i : podFeed'[k].pod = q /\ ~Waits(podFeed'[k].now)
        BY <2>2, <2>4, <3>2, <4>2
      <4> QED
        BY <4>3 DEF Passed
    <3>3. CASE q = p /\ ~Waits(now)
      <4>1. ~Waits(podCache'[q])
        BY <1>1, <3>3
      <4>2. \A j \in 1 .. i : podFeed'[j].pod = q => ~Waits(podFeed'[j].now)
        BY <1>9, <2>1, <2>3, <3>3
      <4> QED
        BY <4>1, <4>2 DEF Passed
    <3> QED
      BY <3>1, <3>2, <3>3
  <2>6. ASSUME Bound(q) PROVE Shown(i, q)'
    <3>1. Shown(i + 1, q)
      BY <1>10, <2>6 DEF Caught
    <3>2. CASE Placed(podCache[q])
      <4>1. Placed(podCache'[q])
        BY <1>1, <1>8, <2>6, <3>2 DEF Follows
      <4> QED
        BY <4>1 DEF Shown
    <3>3. ASSUME NEW j \in 1 .. i + 1, podFeed[j].pod = q, Placed(podFeed[j].now)
          PROVE  Shown(i, q)'
      <4>1. CASE j = 1
        BY <1>1, <2>4, <3>3, <4>1 DEF Shown
      <4>2. CASE j # 1
        BY <2>2, <3>3, <4>2 DEF Shown
      <4> QED
        BY <4>1, <4>2
    <3> QED
      BY <3>1, <3>2, <3>3 DEF Shown
  <2> QED
    BY <1>3, <2>5, <2>6 DEF Caught
<1>11. ASSUME NEW i \in 0 .. n - 1, NEW a \in Names, Heard(i, a)'
       PROVE  Heard(i + 1, a)
  <2>1. \A j \in 1 .. i : j + 1 \in 1 .. i + 1 /\ podFeed'[j] = podFeed[j + 1]
    BY <1>1
  <2>2. 1 \in 1 .. i + 1 /\ podFeed[1].pod = p
    BY <1>1 DEF p
  <2>3. CASE \E j \in 1 .. i : podFeed'[j].pod = a
    BY <2>1, <2>3 DEF Heard
  <2>4. CASE Lives(podCache'[a])
    BY <1>1, <2>2, <2>4 DEF Heard
  <2> QED
    BY <1>11, <2>3, <2>4 DEF Heard
<1>12. HeardInv'
  <2> SUFFICES ASSUME NEW q \in Names, ~Waits(pods'[q])
               PROVE  Caught(Len(podFeed), q)'
    BY DEF HeardInv
  <2>1. Caught(Len(podFeed), q)
    BY <1>1 DEF ViewInv, HeardInv
  <2>2. PICK k \in 0 .. n - 1 : k = n - 1
    BY <1>1
  <2>3. k + 1 = Len(podFeed) /\ k = Len(podFeed')
    BY <1>1, <1>2, <2>2 DEF n
  <2>4. Caught(k, q)'
    BY <1>10, <2>1, <2>3
  <2> QED
    BY <2>3, <2>4
<1>13. OlderInv'
  <2>1. \A i \in 0 .. n : \A a, q \in Names : Older(q, a) /\ Heard(i, a) => Caught(i, q)
    BY DEF ViewInv, OlderInv, n
  <2>2. \A i \in 0 .. n - 1 : i + 1 \in 0 .. n
    BY <1>1
  <2>3. \A i \in 0 .. n - 1 : \A a, q \in Names : Older(q, a) /\ Heard(i, a)' => Caught(i, q)'
    BY <1>10, <1>11, <2>1, <2>2
  <2> QED
    BY <1>2, <2>3 DEF OlderInv
<1> QED
  BY <1>4, <1>5, <1>6, <1>7, <1>12, <1>13 DEF ViewInv

\* A Pod that is bound by the step has waited until then; a Pod that waits after it
\* has waited before, or is new.
LEMMA ChangedOne ==
  ASSUME TypeOK, OrderInv, NEW p \in Names, NEW pod \in Pod, Changes(p, pod)
  PROVE  /\ pods'[p] = pod /\ \A q \in Names \ {p} : pods'[q] = pods[q]
         /\ created \in Nat /\ created' \in {created, created + 1} /\ p <= created'
         /\ \A q \in Names : Bound(q)' <=> Placed(pods'[q])
         /\ \A q \in Names : Bound(q)' /\ ~Bound(q) => q = p /\ Waits(pods[p])
         /\ \A q \in Names : Bound(q)' /\ Bound(q) => pods'[q].node = pods[q].node
         /\ \A q \in Names : q <= created /\ Waits(pods'[q]) => Waits(pods[q]) /\ q # p
         /\ \A q \in Names : Waits(pods'[q]) => q <= created \/ (q = p /\ p = created + 1)
<1>1. pods'[p] = pod /\ \A q \in Names \ {p} : pods'[q] = pods[q]
  BY WriteOne DEF Changes
<1>2. created \in Nat /\ p \in Nat /\ \A q \in Names : q \in Nat
  BY NamesFinite DEF TypeOK
<1>3. created' \in {created, created + 1} /\ p <= created'
  BY <1>2 DEF Changes
<1>4. \A q \in Names : Bound(q)' <=> Placed(pods'[q])
  BY DEF Bound, Placed, Lives
<1>5. \A q \in Names : Bound(q) <=> Placed(pods[q])
  BY DEF Bound, Placed, Lives
<1>6. Placed(pod) => Waits(pods[p]) \/ (Bound(p) /\ pod.node = pods[p].node)
  BY DEF Changes, Placed
<1>7. Placed(pod) /\ Bound(p) => pod.node = pods[p].node
  BY DEF Changes, Placed, Waits, Bound
<1>8. \A q \in Names : Bound(q)' /\ ~Bound(q) => q = p /\ Waits(pods[p])
  BY <1>1, <1>4, <1>5, <1>6
<1>9. \A q \in Names : Bound(q)' /\ Bound(q) => pods'[q].node = pods[q].node
  BY <1>1, <1>4, <1>7
<1>10. Waits(pod) => p = created + 1
  BY DEF Changes, Placed, Waits
<1>11. \A q \in Names : q <= created /\ Waits(pods'[q]) => Waits(pods[q]) /\ q # p
  BY <1>1, <1>2, <1>10
<1>12. \A q \in Names : Waits(pods[q]) => q <= created
  BY DEF OrderInv, Known, Waits, Lives
<1>13. \A q \in Names : Waits(pods'[q]) => q <= created \/ (q = p /\ p = created + 1)
  BY <1>1, <1>10, <1>12
<1> QED
  BY <1>1, <1>2, <1>3, <1>4, <1>8, <1>9, <1>11, <1>13

LEMMA WriteFeedView ==
  ASSUME TypeOK, OrderInv, ViewInv, NEW p \in Names, NEW pod \in Pod, Changes(p, pod)
  PROVE  FeedInv' /\ CacheInv'
<1>1. created \in Nat /\ created' \in {created, created + 1} /\ p <= created'
  BY ChangedOne
<1>2. p = created + 1 => ~Lives(pods[p])
  BY <1>1 DEF OrderInv, Known, Lives
<1>3. Lives(pod) /\ p <= created => Lives(pods[p])
  BY <1>1 DEF Changes, Waits, Bound, Lives
<1>4. Follows(pods[p], pod)
  BY <1>2 DEF Changes, Follows, Waits, Placed
<1>5. Write(p, pod) /\ UNCHANGED podCache /\ FeedInv /\ CacheInv
  BY DEF Changes, ViewInv
<1>6. created <= created' /\ created' \in Nat
  BY <1>1
<1> QED
  BY <1>1, <1>3, <1>4, <1>5, <1>6, WriteFeeds

LEMMA WriteAge ==
  ASSUME TypeOK, OrderInv, AgeInv, NEW p \in Names, NEW pod \in Pod, Changes(p, pod)
  PROVE  AgeInv'
<1> SUFFICES ASSUME NEW q \in Names, Older(q, created'), Waits(pods'[q]) PROVE FALSE
  BY DEF AgeInv
<1>1. created \in Nat /\ q \in Nat
  BY NamesFinite DEF TypeOK
<1>2. PICK k \in q .. created' - 1 : Begins(k)
  BY DEF Older
<1>3. q <= created
  BY <1>1, <1>2, ChangedOne
<1>4. Waits(pods[q]) /\ q # p
  BY <1>3, ChangedOne
<1>5. ~Older(q, created)
  BY <1>4 DEF AgeInv
<1>6. k = created /\ created' = created + 1
  BY <1>1, <1>2, <1>5, ChangedOne DEF Older
<1>7. \A r \in Names : ~Waits(pods[r])
  BY <1>1, <1>2, <1>6 DEF Changes
<1> QED
  BY <1>4, <1>7

LEMMA WriteView ==
  ASSUME TypeOK, OrderInv, ViewInv, NEW p \in Names, NEW pod \in Pod, Changes(p, pod)
  PROVE  ViewInv'
<1> DEFINE n == Len(podFeed)
           now == Unordered(pod)
<1>1. /\ n \in Nat /\ DOMAIN podFeed = 1 .. n
      /\ DOMAIN podFeed' = 1 .. n + 1 /\ Len(podFeed') = n + 1
      /\ \A i \in 1 .. n : podFeed'[i] = podFeed[i]
      /\ podFeed'[n + 1].pod = p /\ podFeed'[n + 1].now = now
      /\ \A i \in 1 .. n + 1 : i \in 1 .. n \/ i = n + 1
      /\ UNCHANGED podCache
  <2>1. Write(p, pod) /\ UNCHANGED podCache
    BY DEF Changes
  <2>2. /\ n \in Nat /\ DOMAIN podFeed = 1 .. n
        /\ DOMAIN podFeed' = 1 .. n + 1 /\ Len(podFeed') = n + 1
        /\ \A i \in DOMAIN podFeed : podFeed'[i] = podFeed[i]
        /\ podFeed'[n + 1] = [pod |-> p, now |-> now]
        /\ \A i \in DOMAIN podFeed' : i \in DOMAIN podFeed \/ i = n + 1
    BY <2>1, WriteParts
  <2> QED
    BY <2>1, <2>2
<1>2. \A i \in 1 .. n : podFeed[i].pod \in Names /\ podFeed[i].pod <= created
  BY <1>1, FeedParts DEF ViewInv, FeedInv
<1>3. /\ Lives(now) = Lives(pod) /\ Placed(now) = Placed(pod) /\ Waits(now) = Waits(pod)
      /\ now.node = pod.node
  BY DEF Unordered, Pod, Lives, Placed, Waits
<1> HIDE DEF n, now
<1>4. /\ pods'[p] = pod /\ \A q \in Names \ {p} : pods'[q] = pods[q]
      /\ created \in Nat /\ created' \in {created, created + 1} /\ p <= created'
      /\ \A q \in Names : Bound(q)' <=> Placed(pods'[q])
      /\ \A q \in Names : Bound(q)' /\ ~Bound(q) => q = p /\ Waits(pods[p])
      /\ \A q \in Names : Bound(q)' /\ Bound(q) => pods'[q].node = pods[q].node
  BY ChangedOne
<1>5. FeedInv' /\ CacheInv'
  BY WriteFeedView
<1>6. AgeInv'
  BY WriteAge DEF ViewInv
<1>7. GoneInv'
  <2>1. ~Lives(pod) => pod.node = NoNode
    BY DEF Changes, Placed
  <2> QED
    BY <1>4, <2>1 DEF ViewInv, GoneInv
<1>8. FirstHeard'
  <2>1. Waits(pod) => p > created
    BY <1>4 DEF Changes, Placed, Waits
  <2>2. ASSUME NEW i \in 1 .. n + 1, NEW j \in 1 .. n + 1, i < j,
               podFeed'[i].pod = podFeed'[j].pod
        PROVE  ~Waits(podFeed'[j].now)
    <3>1. i \in 1 .. n
      BY <1>1, <2>2
    <3>2. CASE j \in 1 .. n
      BY <1>1, <2>2, <3>1, <3>2 DEF ViewInv, FirstHeard
    <3>3. CASE j = n + 1
      <4>1. p <= created
        BY <1>1, <1>2, <2>2, <3>1, <3>3
      <4>2. p \in Nat
        BY NamesFinite
      <4> QED
        BY <1>1, <1>3, <1>4, <2>1, <3>3, <4>1, <4>2
    <3> QED
      BY <1>1, <3>2, <3>3
  <2> QED
    BY <1>1, <2>2 DEF FirstHeard
<1>9. NodeInv'
  <2>1. Waits(pods[p]) => /\ ~Placed(podCache[p])
                         /\ \A i \in 1 .. n : podFeed[i].pod = p => ~Placed(podFeed[i].now)
    BY <1>1 DEF ViewInv, FeedInv, CacheInv, Follows, Waits, Placed
  <2>2. \A q \in Names : Placed(podCache'[q]) /\ Bound(q)' => podCache'[q].node = pods'[q].node
    BY <1>1, <1>4, <2>1 DEF ViewInv, NodeInv
  <2>3. ASSUME NEW i \in 1 .. n + 1, NEW q \in Names, podFeed'[i].pod = q,
               Placed(podFeed'[i].now), Bound(q)'
        PROVE  podFeed'[i].now.node = pods'[q].node
    <3>1. CASE i = n + 1
      BY <1>1, <1>3, <1>4, <2>3, <3>1
    <3>2. CASE i \in 1 .. n
      <4>1. podFeed'[i] = podFeed[i] /\ podFeed[i].pod = q /\ Placed(podFeed[i].now)
        BY <1>1, <2>3, <3>2
      <4>2. Bound(q)
        BY <1>4, <2>1, <2>3, <3>2, <4>1
      <4>3. podFeed[i].now.node = pods[q].node
        BY <1>1, <3>2, <4>1, <4>2 DEF ViewInv, NodeInv
      <4> QED
        BY <1>4, <2>3, <4>1, <4>2, <4>3
    <3> QED
      BY <1>1, <3>1, <3>2
  <2>4. \A i \in 1 .. n + 1 : podFeed'[i].pod \in Names
    BY <1>1, <1>2
  <2> QED
    BY <1>1, <2>2, <2>3, <2>4 DEF NodeInv
<1>10. ASSUME NEW q \in Names, ~Waits(pods'[q])
       PROVE  \E k \in Nat : k = n + 1 /\ Caught(k, q)'
  <2>1. PICK k \in Nat : k = n + 1
    BY <1>1
  <2>2. n + 1 \in 1 .. k /\ \A j \in 1 .. k : j \in 1 .. n \/ j = n + 1
    BY <1>1, <2>1
  <2>3. \A j \in 1 .. n : j \in 1 .. k
    BY <1>1, <2>1
  <2>4. CASE q = p
    <3>1. ~Waits(now) /\ podFeed'[n + 1].pod = q /\ podFeed'[n + 1].now = now
      BY <1>1, <1>3, <1>4, <1>10, <2>4
    <3>2. Passed(k, q)'
      BY <2>2, <3>1 DEF Passed
    <3>3. Bound(q)' => Shown(k, q)'
      BY <1>3, <1>4, <2>2, <2>4, <3>1 DEF Shown
    <3>4. Caught(k, q)'
      BY <3>2, <3>3 DEF Caught
    <3> QED
      BY <2>1, <3>4
  <2>5. CASE q # p
    <3>1. ~Waits(pods[q]) /\ (Bound(q)' => Bound(q))
      BY <1>4, <1>10, <2>5
    <3>2. Caught(n, q)
      BY <3>1 DEF ViewInv, HeardInv, n
    <3>3. ASSUME Waits(podCache'[q]) \/ \E j \in 1 .. k : podFeed'[j].pod = q /\ Waits(podFeed'[j].now)
          PROVE  \E j \in 1 .. k : podFeed'[j].pod = q /\ ~Waits(podFeed'[j].now)
      <4>1. Waits(podCache[q]) \/ \E j \in 1 .. n : podFeed[j].pod = q /\ Waits(podFeed[j].now)
        BY <1>1, <2>2, <2>5, <3>3
      <4>2. PICK j \in 1 .. n : podFeed[j].pod = q /\ ~Waits(podFeed[j].now)
        BY <3>2, <4>1 DEF Caught, Passed
      <4> QED
        BY <1>1, <2>3, <4>2
    <3>4. Shown(n, q) => Shown(k, q)'
      BY <1>1, <2>3 DEF Shown
    <3>5. Caught(k, q)'
      BY <3>1, <3>2, <3>3, <3>4 DEF Caught, Passed
    <3> QED
      BY <2>1, <3>5
  <2> QED
    BY <2>4, <2>5
<1>11. HeardInv'
  BY <1>1, <1>10 DEF HeardInv
<1>12. OlderInv'
  <2> SUFFICES ASSUME NEW i \in 0 .. Len(podFeed'), NEW a \in Names, NEW q \in Names,
                      Older(q, a), Heard(i, a)'
               PROVE  Caught(i, q)'
    BY DEF OlderInv
  <2>1. i \in 0 .. n \/ i = n + 1
    BY <1>1
  <2>2. a \in Nat /\ q \in Nat /\ p \in Nat
    BY NamesFinite
  <2>3. CASE i \in 0 .. n
    <3>1. \A j \in 1 .. i : j \in 1 .. n /\ podFeed'[j] = podFeed[j]
      BY <1>1, <2>3
    <3>2. Heard(i, a)
      BY <1>1, <3>1 DEF Heard
    <3>3. a <= created
      BY <1>2, <3>1, <3>2 DEF Heard, ViewInv, CacheInv
    <3>4. Older(q, created)
      BY <1>4, <2>2, <3>3 DEF Older
    <3>5. ~Waits(pods[q])
      BY <3>4 DEF ViewInv, AgeInv
    <3>6. Bound(q)' => Bound(q)
      BY <1>4, <3>5
    <3>7. Caught(i, q)
      BY <2>3, <3>2 DEF ViewInv, OlderInv, n
    <3> QED
      BY <1>1, <3>1, <3>6, <3>7 DEF Caught, Passed, Shown
  <2>4. CASE i = n + 1
    <3>1. a <= created'
      <4>1. CASE Lives(podCache'[a])
        BY <1>5, <4>1 DEF CacheInv
      <4>2. ASSUME NEW j \in 1 .. i, podFeed'[j].pod = a PROVE a <= created'
        BY <1>1, <1>5, <2>4, <4>2 DEF FeedInv
      <4> QED
        BY <4>1, <4>2 DEF Heard
    <3>2. Older(q, created')
      BY <1>4, <2>2, <3>1 DEF Older
    <3>3. ~Waits(pods'[q])
      BY <1>6, <3>2 DEF AgeInv
    <3> QED
      BY <1>10, <2>4, <3>3
  <2> QED
    BY <2>1, <2>3, <2>4
<1> QED
  BY <1>5, <1>6, <1>7, <1>8, <1>9, <1>11, <1>12 DEF ViewInv

LEMMA InitView == Init => ViewInv
<1> SUFFICES ASSUME Init PROVE ViewInv
  OBVIOUS
<1>1. podFeed = << >> /\ created = 0 /\ \A p \in Names : pods[p] = Gone /\ podCache[p] = Gone
  BY DEF Init
<1>2. ~Lives(Gone) /\ ~Placed(Gone) /\ ~Waits(Gone) /\ Gone.node = NoNode
  BY GoneIsPod DEF Lives, Placed, Waits
<1>3. DOMAIN podFeed = {} /\ Len(podFeed) = 0
  BY <1>1
<1>4. FeedInv /\ CacheInv
  BY InitPlace DEF PInv
<1>5. GoneInv /\ AgeInv /\ FirstHeard /\ NodeInv
  BY <1>1, <1>2, <1>3 DEF GoneInv, AgeInv, FirstHeard, NodeInv
<1>6. \A q \in Names : Caught(0, q)
  BY <1>1, <1>2 DEF Caught, Passed, Bound, Lives
<1>7. HeardInv /\ OlderInv
  BY <1>3, <1>6 DEF HeardInv, OlderInv
<1> QED
  BY <1>4, <1>5, <1>7 DEF ViewInv

LEMMA ViewStep ==
  ASSUME RoomCase, DInv, NoGarbage, ViewInv, [Next]_vars
  PROVE  ViewInv'
<1>1. TypeOK /\ OrderInv
  BY DEF DInv
<1> QED
  BY <1>1, StepChanges, StandsView, SyncView, WriteView

-----------------------------------------------------------------------------
(***************************************************************************)
(* The turns of the dropper.                                               *)
(***************************************************************************)
LEMMA PairingSteps ==
  ASSUME RoomCase, TypeOK, RainInv, [Next]_vars, Pairing'
  PROVE  \/ Pairing /\ todo'[Dropper] = todo[Dropper]
         \/ /\ Pairing /\ BindStep(Dropper) /\ Len(todo[Dropper]) # 1
            /\ todo'[Dropper] = Tail(todo[Dropper])
         \/ Dropper \in Players /\ \E x \in Requests : PlayerDrops(Dropper, x)
         \/ /\ Dropper = "loop" /\ LoopDrops /\ UNCHANGED todo
            /\ Accepts(ToSet(Queue), TRUE, todo["loop"])
<1> DEFINE Same == Pairing /\ todo'[Dropper] = todo[Dropper]
<1>0. /\ pc \in [Threads -> Steps] /\ todo \in [Threads -> Seq(Placement)]
      /\ raining \in BOOLEAN /\ ~Fault
      /\ \A kb \in BOOLEAN : ReadsKbkb(kb) => kb = TRUE
  BY TypeParts, NoFaults DEF ThreadsOK
<1>1. /\ Dropper \in Threads /\ "loop" \in Threads /\ Players \subseteq Threads
      /\ "loop" \notin Players
      /\ Players # {} => Players = {Dropper} /\ Dropper # "loop"
      /\ Players = {} => Dropper = "loop" /\ Threads = {"loop"}
  BY DropperIs, LoopIsThread DEF RoomCase, Threads
<1>2. pc'[Dropper] \in {"patch", "bind"} /\ ~(Dropper = "loop" /\ raining')
  BY DEF Pairing
<1>3. ASSUME UNCHANGED << pc, todo, raining >> PROVE Same
  BY <1>2, <1>3 DEF Pairing
<1>4. ASSUME NEW d \in Players, PlayerLists(d) \/ PlayerRefused(d) PROVE FALSE
  BY <1>0, <1>1, <1>2, <1>4 DEF PlayerLists, PlayerRefused
<1>5. ASSUME NEW d \in Threads, d # Dropper,
             StampPod(d) \/ StampFault(d) \/ BindPod(d) \/ BindFault(d)
      PROVE  Same
  <2>1. pc'[Dropper] = pc[Dropper] /\ todo'[Dropper] = todo[Dropper] /\ Dropper # "loop"
    BY <1>0, <1>1, <1>5
    DEF StampPod, StampFault, BindPod, BindFault, Fails, Done, Advance
  <2> QED
    BY <1>2, <2>1 DEF Pairing
<1>6. CASE StampPod(Dropper)
  BY <1>0, <1>1, <1>2, <1>6 DEF StampPod, Fails, Done, Pairing
<1>7. CASE BindPod(Dropper)
  <2>1. /\ pc[Dropper] = "bind" /\ MayBind(Next1Of(Dropper)) /\ Advance(Dropper)
        /\ Write(Next1Of(Dropper), [pods[Next1Of(Dropper)] EXCEPT !.node = Head(todo[Dropper]).node])
        /\ UNCHANGED << podCache, created >>
    BY <1>0, <1>1, <1>2, <1>7 DEF BindPod, Fails, Done, Next1Of
  <2>2. Len(todo[Dropper]) # 1 /\ todo'[Dropper] = Tail(todo[Dropper]) /\ raining' = raining
    BY <1>0, <1>1, <1>2, <2>1 DEF Advance, Done
  <2> QED
    BY <1>2, <2>1, <2>2 DEF BindStep, Pairing
<1>8. CASE StampFault(Dropper) \/ BindFault(Dropper)
  BY <1>0, <1>8 DEF StampFault, BindFault
<1>9. CASE Tick \/ AutoPlays \/ AutoWaits
  <2>1. Dropper # "loop"
    BY <1>0, <1>1, <1>2, <1>9 DEF Tick, AutoPlays, AutoWaits
  <2> QED
    BY <1>0, <1>1, <1>2, <1>9, <2>1 DEF Tick, AutoPlays, AutoWaits, Pairing
<1>10. CASE LoopDrops
  <2>1. CASE Dropper # "loop"
    BY <1>0, <1>1, <1>2, <1>10, <2>1 DEF LoopDrops, Done, Pairing
  <2>2. CASE Dropper = "loop"
    BY <1>0, <1>1, <1>2, <1>10, <2>2 DEF LoopDrops, Done
  <2> QED
    BY <2>1, <2>2
<1>11. CASE \/ \E p \in Names : Expire(p)
            \/ \E m \in Modes : SetMode(m)
            \/ Restart \/ SyncPods
  BY <1>0, <1>3, <1>11 DEF Expire, SetMode, Restart, SyncPods, threadVars
<1>12. CASE ClusterStep
  BY <1>3, <1>12, ClusterAges DEF threadVars
<1>13. CASE UNCHANGED vars
  BY <1>3, <1>13 DEF vars
<1> QED
  BY <1>1, <1>4, <1>5, <1>6, <1>7, <1>8, <1>9, <1>10, <1>11, <1>12, <1>13
  DEF Next, ClusterStep, Loop

\* A drop whose next Pod waits goes on until it has bound that Pod.
LEMMA PairingStays ==
  ASSUME RoomCase, DInv, NoGarbage, [Next]_vars, Pairing,
         NEW p \in Names, p = First, Waits(pods[p])
  PROVE  \/ Pairing' /\ todo'[Dropper] = todo[Dropper] /\ ~Bound(p)'
         \/ /\ BindStep(Dropper)
            /\ Len(todo[Dropper]) # 1 => Pairing' /\ todo'[Dropper] = Tail(todo[Dropper])
<1>0. /\ pc \in [Threads -> Steps] /\ todo \in [Threads -> Seq(Placement)]
      /\ raining \in BOOLEAN /\ ~Fault /\ TypeOK /\ OrderInv
      /\ \A c \in Threads : pc[c] \in {"check", "patch", "bind"} <=> todo[c] # << >>
  BY TypeParts, NoFaults DEF ThreadsOK, DInv
<1>1. /\ Dropper \in Threads /\ "loop" \in Threads /\ Players \subseteq Threads
      /\ "loop" \notin Players
      /\ Players # {} => Players = {Dropper} /\ Dropper # "loop"
      /\ Players = {} => Dropper = "loop" /\ Threads = {"loop"}
  BY DropperIs, LoopIsThread DEF RoomCase, Threads
<1>2. pc[Dropper] \in {"patch", "bind"} /\ ~(Dropper = "loop" /\ raining)
  BY DEF Pairing
<1>3. ~Bound(p) /\ Lives(pods[p]) /\ MayBind(p) /\ p = Head(todo[Dropper]).pod
  BY DEF First, Next1Of, Waits, Bound, MayBind, Lives
<1> DEFINE Turn == Pairing' /\ todo'[Dropper] = todo[Dropper]
<1>4. ASSUME UNCHANGED << pc, todo, raining >> PROVE Turn
  BY <1>2, <1>4 DEF Pairing
<1>5. ASSUME UNCHANGED pods PROVE ~Bound(p)'
  BY <1>3, <1>5 DEF Bound
<1>6. ASSUME NEW d \in Players,
             \/ PlayerLists(d) \/ PlayerRefused(d)
             \/ \E x \in Requests : PlayerDrops(d, x)
      PROVE  FALSE
  BY <1>1, <1>2, <1>6 DEF PlayerLists, PlayerRefused, PlayerDrops
<1>7. ASSUME NEW d \in Threads, d # Dropper, StampPod(d) \/ BindPod(d)
      PROVE  Turn
  <2>1. pc'[Dropper] = pc[Dropper] /\ todo'[Dropper] = todo[Dropper] /\ Dropper # "loop"
    BY <1>0, <1>1, <1>7 DEF StampPod, BindPod, Fails, Done, Advance
  <2> QED
    BY <1>2, <2>1 DEF Pairing
<1>8. ASSUME NEW d \in Threads, StampPod(d) PROVE ~Bound(p)'
  <2>1. CASE StampStep(d)
    <3>1. Next1Of(d) \in Names
      BY <1>0, <2>1, HeadParts DEF StampStep
    <3> QED
      BY <1>0, <1>3, <2>1, <3>1, StampKeeps DEF StampStep, Lives
  <2>2. CASE ~StampStep(d)
    BY <1>5, <1>8, <2>2 DEF StampPod, StampStep, Next1Of, Lives
  <2> QED
    BY <2>1, <2>2
<1>9. ASSUME NEW d \in Threads, d # Dropper, BindPod(d) PROVE ~Bound(p)'
  <2>1. ~BindStep(d)
    BY <1>9, OnlyPairs
  <2> QED
    BY <1>5, <1>9, <2>1 DEF BindPod, BindStep, Next1Of, storeVars
<1>10. CASE StampPod(Dropper)
  <2>1. Turn
    BY <1>0, <1>1, <1>2, <1>3, <1>10 DEF StampPod, Pairing, First, Next1Of, Lives
  <2> QED
    BY <1>1, <1>8, <1>10, <2>1
<1>11. CASE BindPod(Dropper)
  <2>1. BindStep(Dropper) /\ Advance(Dropper)
    BY <1>3, <1>11 DEF BindPod, BindStep, First, Next1Of
  <2>2. Len(todo[Dropper]) # 1 => Pairing' /\ todo'[Dropper] = Tail(todo[Dropper])
    BY <1>0, <1>1, <1>2, <2>1 DEF Advance, Pairing
  <2> QED
    BY <2>1, <2>2
<1>12. ASSUME NEW d \in Threads, StampFault(d) \/ BindFault(d) PROVE FALSE
  BY <1>0, <1>12 DEF StampFault, BindFault
<1>13. CASE Loop
  <2>1. Dropper # "loop"
    BY <1>1, <1>2, <1>13 DEF Loop, Tick, AutoPlays, AutoWaits, LoopDrops
  <2>2. pc'[Dropper] = pc[Dropper] /\ todo'[Dropper] = todo[Dropper]
    <3>1. CASE Tick
      BY <1>0, <1>1, <2>1, <3>1 DEF Tick
    <3>2. CASE AutoPlays
      BY <1>0, <1>1, <2>1, <3>2 DEF AutoPlays
    <3>3. CASE AutoWaits
      BY <1>0, <1>1, <2>1, <3>3 DEF AutoWaits
    <3>4. CASE LoopDrops
      BY <1>0, <1>1, <2>1, <3>4 DEF LoopDrops, Done
    <3> QED
      BY <1>13, <3>1, <3>2, <3>3, <3>4 DEF Loop
  <2>3. UNCHANGED pods
    BY <1>13 DEF Loop, Tick, AutoPlays, AutoWaits, LoopDrops, storeVars
  <2> QED
    BY <1>2, <1>5, <2>1, <2>2, <2>3 DEF Pairing
<1>14. CASE \/ \E e \in Names : Expire(e)
            \/ \E m \in Modes : SetMode(m)
            \/ Restart \/ SyncPods
  BY <1>0, <1>4, <1>5, <1>14 DEF Expire, SetMode, Restart, SyncPods, threadVars, storeVars
<1>15. CASE ClusterStep
  <2>1. PICK q \in Names, pod \in Pod : Write(q, pod) /\ Ages(q, pod)
    BY <1>0, <1>15, ClusterAges
  <2>2. Bound(p)' => Bound(p)
    BY <1>0, <1>3, <2>1, AgesOrder
  <2>3. Turn
    BY <1>0, <1>4, <1>15, ClusterAges DEF threadVars
  <2> QED
    BY <1>3, <2>2, <2>3
<1>16. CASE UNCHANGED vars
  BY <1>4, <1>5, <1>16 DEF vars
<1> QED
  BY <1>1, <1>6, <1>7, <1>8, <1>9, <1>10, <1>11, <1>12, <1>13, <1>14, <1>15, <1>16
  DEF Next, ClusterStep

\* What a step does to the Pods that are bound and to those that wait.
LEMMA StepMoves ==
  ASSUME RoomCase, DInv, NoGarbage, [Next]_vars
  PROVE  /\ created \in Nat /\ created' \in {created, created + 1}
         /\ \A q \in Names :
              Waits(pods'[q]) => Waits(pods[q]) \/ (q = created + 1 /\ created' = created + 1)
         /\ created' # created /\ Begins(created) => \A q \in Names : ~Waits(pods[q])
         /\ \A q \in Names : Bound(q)' /\ Bound(q) => pods'[q].node = pods[q].node
         /\ \A q \in Names : Bound(q)' /\ ~Bound(q) =>
              /\ Pairing /\ BindStep(Dropper) /\ q = First /\ Waits(pods[q])
              /\ created' = created /\ pods'[q].node = Head(todo[Dropper]).node
<1>0. TypeOK /\ OrderInv /\ created \in Nat
  BY SchedulerAssumption DEF DInv, TypeOK
<1>1. CASE Stands
  <2>1. /\ created' = created
        /\ \A q \in Names : /\ Waits(pods'[q]) <=> Waits(pods[q])
                            /\ Bound(q)' <=> Bound(q)
                            /\ pods'[q].node = pods[q].node
    BY <1>1 DEF Stands, Waits, Lives, Bound
  <2> QED
    BY <1>0, <2>1
<1>2. CASE SyncPods
  <2>1. created' = created /\ \A q \in Names : pods'[q] = pods[q] /\ (Bound(q)' <=> Bound(q))
    BY <1>2 DEF SyncPods, Bound
  <2> QED
    BY <1>0, <2>1
<1>3. ASSUME NEW p \in Names, NEW pod \in Pod, Changes(p, pod)
      PROVE  /\ created' \in {created, created + 1}
             /\ \A q \in Names :
                  Waits(pods'[q]) => Waits(pods[q]) \/ (q = created + 1 /\ created' = created + 1)
             /\ created' # created /\ Begins(created) => \A q \in Names : ~Waits(pods[q])
             /\ \A q \in Names : Bound(q)' /\ Bound(q) => pods'[q].node = pods[q].node
             /\ \A q \in Names : Bound(q)' /\ ~Bound(q) =>
                  /\ Pairing /\ BindStep(Dropper) /\ q = First /\ Waits(pods[q])
                  /\ created' = created /\ pods'[q].node = Head(todo[Dropper]).node
  <2>1. /\ pods'[p] = pod /\ \A q \in Names \ {p} : pods'[q] = pods[q]
        /\ created' \in {created, created + 1} /\ p <= created'
        /\ \A q \in Names : Bound(q)' <=> Placed(pods'[q])
        /\ \A q \in Names : Bound(q)' /\ ~Bound(q) => q = p /\ Waits(pods[p])
        /\ \A q \in Names : Bound(q)' /\ Bound(q) => pods'[q].node = pods[q].node
        /\ \A q \in Names : q <= created /\ Waits(pods'[q]) => Waits(pods[q]) /\ q # p
        /\ \A q \in Names : Waits(pods'[q]) => q <= created \/ (q = p /\ p = created + 1)
    BY <1>0, <1>3, ChangedOne
  <2>2. created' # created => created' = created + 1 /\ p = created + 1
    BY <1>0, <1>3 DEF Changes
  <2>3. created' # created /\ Begins(created) => \A q \in Names : ~Waits(pods[q])
    BY <1>3 DEF Changes
  <2>4. ASSUME NEW q \in Names, Bound(q)', ~Bound(q)
        PROVE  /\ Pairing /\ BindStep(Dropper) /\ q = First /\ Waits(pods[q])
               /\ created' = created /\ pods'[q].node = Head(todo[Dropper]).node
    <3>1. q = p /\ Waits(pods[p]) /\ Placed(pod) /\ pods'[q] = pod /\ ~Bound(p)
      BY <2>1, <2>4
    <3>2. /\ Pairing /\ BindStep(Dropper) /\ p = First /\ created' = created
          /\ pod.node = Head(todo[Dropper]).node
      BY <1>3, <3>1 DEF Changes, Placed
    <3> QED
      BY <3>1, <3>2
  <2>5. p = created + 1 => created' = created + 1
    BY <1>0, <2>1
  <2> QED
    BY <2>1, <2>3, <2>4, <2>5
<1> QED
  BY <1>0, <1>1, <1>2, <1>3, StepChanges

-----------------------------------------------------------------------------
(***************************************************************************)
(* A drop is of a whole pair, and of the only Pods that wait.              *)
(***************************************************************************)
\* The list a client's drop took is of one pair.
ListedInv ==
  \A c \in Players : \A p \in listed[c] :
    /\ Lives(pods[p]) => Lives(podCache[p])
    /\ \A q \in listed[c] : ~Older(p, q)

\* The loop plays pairs.
CheckInv == pc["loop"] = "check" => Len(todo["loop"]) = PairSize

LenInv == Players # {} => Len(todo[Dropper]) <= 2

\* No pair is bound in part only, but for the one that is being dropped.
FullInv == \A q \in Names : Bound(q) => \E k \in q .. created : Begins(k)

WholeInv ==
  Pairing /\ Waits(pods[First]) =>
    /\ Begins(created)
    /\ \A a \in Names : Waits(pods[a]) => a \in PodsOf(todo[Dropper])

HalfInv ==
  Players # {} =>
    \A q, a \in Names :
      Bound(q) /\ Waits(pods[a]) /\ ~Older(q, a) => Pairing /\ PodsOf(todo[Dropper]) = {a}

\* As many different Pods as there are placements.
LEMMA DistinctPods ==
  ASSUME NEW n \in Nat, NEW x, DOMAIN x = 1 .. n, Distinct(x)
  PROVE  IsFiniteSet(PodsOf(x)) /\ Cardinality(PodsOf(x)) = n
<1> DEFINE D == 1 .. n
           f == [i \in D |-> x[i].pod]
<1>1. IsFiniteSet(D) /\ Cardinality(D) = n
  BY FS_Interval
<1>2. f \in Surjection(D, PodsOf(x))
  BY DEF Surjection, PodsOf
<1>3. f \in Injection(D, PodsOf(x))
  BY <1>2 DEF Injection, IsInjective, Surjection, Distinct
<1> HIDE DEF D, f
<1> QED
  BY <1>1, <1>2, <1>3, FS_Surjection

\* A drop of PairSize Pods of one pair, of which one waits, is of the newest pair.
LEMMA DropWhole ==
  ASSUME TypeOK, OrderInv, AgeInv, NEW x, DOMAIN x = 1 .. PairSize, Distinct(x),
         PodsOf(x) \subseteq Names, \A p \in PodsOf(x) : p <= created,
         \A p, q \in PodsOf(x) : ~Older(p, q),
         NEW a \in PodsOf(x), Waits(pods[a])
  PROVE  /\ Begins(created) /\ PodsOf(x) = created - PairSize + 1 .. created
         /\ \A b \in Names : Waits(pods[b]) => b \in PodsOf(x)
<1>0. PairSize \in Nat /\ PairSize >= 1 /\ created \in Nat /\ \A q \in Names : q \in Nat /\ q >= 1
  BY SchedulerAssumption DEF TypeOK, Names
<1>1. Cardinality(PodsOf(x)) = PairSize
  BY <1>0, DistinctPods
<1>2. PICK p \in PodsOf(x) : Begins(p) /\ PodsOf(x) = p - PairSize + 1 .. p
  BY <1>1, WholePair
<1>3. p = created
  <2>1. ~Older(a, created)
    BY DEF AgeInv
  <2>2. ~(p \in a .. created - 1)
    BY <1>2, <2>1 DEF Older
  <2>3. a <= p
    BY <1>0, <1>2
  <2> QED
    BY <1>0, <1>2, <2>2, <2>3
<1>4. ASSUME NEW b \in Names, Waits(pods[b]) PROVE b \in created - PairSize + 1 .. created
  <2>1. ~Older(b, created) /\ b <= created
    BY <1>4 DEF AgeInv, OrderInv, Known, Waits, Lives
  <2>2. PICK k \in b .. b + PairSize - 1 : Begins(k)
    BY <1>0, SomeBegins
  <2>3. ~(k \in b .. created - 1)
    BY <2>1, <2>2 DEF Older
  <2> QED
    BY <1>0, <2>1, <2>2, <2>3
<1> QED
  BY <1>2, <1>3, <1>4

-----------------------------------------------------------------------------
(***************************************************************************)
(* Their steps, but for the one that needs a drop to begin.                *)
(***************************************************************************)
LEMMA UnboundTogether ==
  ASSUME TypeOK, ViewInv, NEW p \in Unbound, NEW q \in Unbound
  PROVE  ~Older(p, q)
<1> SUFFICES ASSUME Older(p, q) PROVE FALSE
  OBVIOUS
<1>1. p \in Names /\ q \in Names /\ Waits(podCache[p]) /\ Lives(podCache[q])
  BY DEF Unbound, Waits, Lives
<1>2. 0 \in 0 .. Len(podFeed)
  BY FeedParts
<1>3. Passed(0, p)
  BY <1>1, <1>2 DEF ViewInv, OlderInv, Heard, Caught
<1> QED
  BY <1>1, <1>3 DEF Passed

LEMMA StillShown ==
  ASSUME RoomCase, DInv, NoGarbage, ViewInv, [Next]_vars, NEW p \in Names, p <= created,
         Lives(pods[p]) => Lives(podCache[p]), Lives(pods'[p])
  PROVE  Lives(podCache'[p])
<1>0. TypeOK /\ OrderInv /\ FeedInv
  BY DEF DInv, ViewInv
<1>1. Lives(pods[p]) /\ Lives(podCache[p])
  BY <1>0, KindsKept
<1>2. CASE SyncPods
  BY <1>0, <1>1, <1>2, SyncParts DEF FeedInv
<1>3. CASE ~SyncPods
  <2>1. podCache' = podCache
    BY <1>3, StepChanges DEF Stands, Changes
  <2> QED
    BY <1>1, <2>1
<1> QED
  BY <1>2, <1>3

LEMMA ListedStep ==
  ASSUME RoomCase, DInv, NoGarbage, ViewInv, ListedInv, [Next]_vars
  PROVE  ListedInv'
<1>0. TypeOK /\ ListedKind
  BY DEF DInv, KindInv
<1> SUFFICES ASSUME NEW c \in Players, NEW p \in listed'[c]
             PROVE  /\ Lives(pods'[p]) => Lives(podCache'[p])
                    /\ \A q \in listed'[c] : ~Older(p, q)
  BY DEF ListedInv
<1>1. CASE listed'[c] = listed[c]
  <2>1. p \in Names /\ p <= created
    BY <1>0, <1>1 DEF TypeOK, ListedKind, KindOf
  <2>2. Lives(pods'[p]) => Lives(podCache'[p])
    BY <1>1, <2>1, StillShown DEF ListedInv
  <2> QED
    BY <1>1, <2>2 DEF ListedInv
<1>2. CASE listed'[c] = {}
  BY <1>2
<1>3. CASE PlayerLists(c)
  <2>1. /\ listed'[c] = { q \in Unbound : ~podCache[q].ojama } /\ podCache' = podCache
    BY <1>0, <1>3 DEF PlayerLists, TypeOK
  <2>2. p \in Unbound /\ Lives(podCache[p])
    BY <2>1 DEF Unbound, Lives
  <2> QED
    BY <1>0, <2>1, <2>2, UnboundTogether
<1> QED
  BY <1>0, <1>1, <1>2, <1>3, ListedSteps

LEMMA CheckStep ==
  ASSUME TypeOK, CheckInv, [Next]_vars
  PROVE  CheckInv'
<1> DEFINE Same == pc'["loop"] = pc["loop"] /\ todo'["loop"] = todo["loop"]
<1>0. /\ pc \in [Threads -> Steps] /\ todo \in [Threads -> Seq(Placement)]
      /\ "loop" \in Threads /\ "loop" \notin Players /\ Players \subseteq Threads
  BY TypeParts, LoopIsThread DEF ThreadsOK
<1> SUFFICES ASSUME pc'["loop"] = "check", ~Same
             PROVE  Len(todo'["loop"]) = PairSize
  BY DEF CheckInv
<1>1. ~(UNCHANGED << pc, todo >>)
  OBVIOUS
<1>2. ASSUME NEW d \in Players,
             \/ PlayerLists(d) \/ PlayerRefused(d)
             \/ \E x \in Requests : PlayerDrops(d, x)
      PROVE  FALSE
  BY <1>0, <1>2 DEF PlayerLists, PlayerRefused, PlayerDrops
<1>3. ASSUME NEW d \in Threads, StampPod(d) \/ BindPod(d) \/ StampFault(d) \/ BindFault(d)
      PROVE  FALSE
  BY <1>0, <1>3 DEF StampPod, BindPod, StampFault, BindFault, Fails, Done, Advance
<1>4. CASE Tick \/ AutoWaits \/ LoopDrops
  BY <1>0, <1>4 DEF Tick, AutoWaits, LoopDrops, Done
<1>5. CASE AutoPlays
  <2>1. PICK kb \in BOOLEAN : todo'["loop"] \in Onto(Queue, PairSize, ColumnsFor(kb))
    BY <1>0, <1>5 DEF AutoPlays, AutoPlacements
  <2> QED
    BY <2>1, SchedulerAssumption DEF Onto
<1>6. CASE \/ \E p \in Names : Expire(p)
           \/ \E m \in Modes : SetMode(m)
           \/ SyncPods \/ ClusterStep \/ UNCHANGED vars
  BY <1>1, <1>6, ClusterAges DEF Expire, SetMode, SyncPods, threadVars, vars
<1>7. CASE Restart
  BY <1>0, <1>7 DEF Restart
<1> QED
  BY <1>2, <1>3, <1>4, <1>5, <1>6, <1>7 DEF Next, ClusterStep, Loop

LEMMA LenStep ==
  ASSUME OneDropper, TypeOK, LenInv, [Next]_vars
  PROVE  LenInv'
<1> SUFFICES ASSUME Players # {} PROVE Len(todo'[Dropper]) <= 2
  BY DEF LenInv
<1>1. Dropper \in Threads /\ Dropper # "loop" /\ todo[Dropper] \in Seq(Placement)
  BY DropperIs DEF TypeOK
<1>2. CASE Shrinks(Dropper)
  <2>1. CASE todo[Dropper] # << >> /\ todo'[Dropper] = Tail(todo[Dropper])
    BY <1>1, <2>1 DEF LenInv
  <2> QED
    BY <1>1, <1>2, <2>1 DEF Shrinks, LenInv
<1>3. ASSUME NEW x \in Requests, PlayerDrops(Dropper, x) PROVE Len(todo'[Dropper]) <= 2
  <2>1. todo'[Dropper] = x
    BY <1>1, <1>3 DEF PlayerDrops, TypeOK
  <2>2. Len(x) = 2
    BY RequestParts
  <2> QED
    BY <2>1, <2>2
<1> QED
  BY <1>1, <1>2, <1>3, TodoMoves

LEMMA FullStep ==
  ASSUME RoomCase, DInv, NoGarbage, FullInv, WholeInv, [Next]_vars
  PROVE  FullInv'
<1> SUFFICES ASSUME NEW q \in Names, Bound(q)'
             PROVE  \E k \in q .. created' : Begins(k)
  BY DEF FullInv
<1>0. created \in Nat /\ created' \in {created, created + 1} /\ q \in Nat
  BY StepMoves, NamesFinite
<1>1. CASE Bound(q)
  <2>1. PICK k \in q .. created : Begins(k)
    BY <1>1 DEF FullInv
  <2>2. k \in q .. created'
    BY <1>0, <2>1
  <2> QED
    BY <2>1, <2>2
<1>2. CASE ~Bound(q)
  <2>1. Pairing /\ q = First /\ Waits(pods[q]) /\ created' = created
    BY <1>2, StepMoves
  <2>2. Begins(created)
    BY <2>1 DEF WholeInv
  <2>3. q <= created
    BY <2>1 DEF DInv, OrderInv, Known, Waits, Lives
  <2>4. created \in q .. created'
    BY <1>0, <2>1, <2>3
  <2> QED
    BY <2>2, <2>4
<1> QED
  BY <1>1, <1>2

\* While a pair is bound in part, its other Pod is next.
LEMMA HalfStep ==
  ASSUME RoomCase, DInv, NoGarbage, LenInv, FullInv, WholeInv, HalfInv, [Next]_vars
  PROVE  HalfInv'
<1> SUFFICES ASSUME Players # {}, NEW q \in Names, NEW a \in Names,
                    Bound(q)', Waits(pods'[a]), ~Older(q, a)
             PROVE  Pairing' /\ PodsOf(todo'[Dropper]) = {a}
  BY DEF HalfInv
<1>0. /\ created \in Nat /\ TypeOK /\ Dropper \in Threads
      /\ ~Placed(pods'[a]) /\ ~Bound(a)'
  BY DropperIs, StepMoves DEF DInv, RoomCase, Waits, Placed, Bound
<1>1. CASE Bound(q)
  <2>1. a # created + 1
    <3>1. PICK k \in q .. created : Begins(k)
      BY <1>1 DEF FullInv
    <3>2. ~(k \in q .. a - 1)
      BY <3>1 DEF Older
    <3> QED
      BY <1>0, <3>1, <3>2, NamesFinite
  <2>2. Waits(pods[a])
    BY <2>1, StepMoves
  <2>3. Pairing /\ PodsOf(todo[Dropper]) = {a}
    BY <1>1, <2>2 DEF HalfInv
  <2>4. First = a
    BY <1>0, <2>3, HeadParts DEF Pairing, First, PodsOf, Next1Of
  <2>5. ~BindStep(Dropper)
    <3>1. SUFFICES ASSUME BindStep(Dropper) PROVE FALSE
      OBVIOUS
    <3>2. Head(todo[Dropper]).node \in DOMAIN Nodes /\ pods[a] \in Pod
      BY <1>0, <3>1, HeadParts DEF BindStep, TypeOK
    <3>3. pods'[a].node # NoNode
      BY <1>0, <2>4, <3>1, <3>2, SchedulerAssumption DEF BindStep, First, Write, TypeOK, Pod
    <3> QED
      BY <3>3 DEF Waits
  <2> QED
    BY <2>2, <2>3, <2>4, <2>5, PairingStays
<1>2. CASE ~Bound(q)
  <2>1. Pairing /\ BindStep(Dropper) /\ q = First /\ Waits(pods[q]) /\ created' = created
    BY <1>2, StepMoves
  <2>2. Waits(pods[a])
    BY <1>0, <2>1, StepMoves
  <2>3. a \in PodsOf(todo[Dropper]) /\ a # q
    BY <1>0, <2>1, <2>2 DEF WholeInv
  <2>4. PICK t \in Seq(Placement) : t = todo[Dropper]
    BY <1>0 DEF TypeOK
  <2>5. /\ Len(t) \in Nat /\ Len(t) <= 2 /\ t # << >> /\ t[1].pod = q
    BY <1>0, <2>1, <2>4, HeadParts DEF LenInv, Pairing, First, Next1Of
  <2>6. DOMAIN t = 1 .. Len(t) /\ DOMAIN Tail(t) = 1 .. Len(t) - 1
        /\ \A i \in DOMAIN Tail(t) : Tail(t)[i] = t[i + 1]
    BY <2>5, TailParts
  <2>7. t[2].pod = a /\ Len(t) = 2
    <3>1. PICK i \in 1 .. Len(t) : t[i].pod = a
      BY <2>3, <2>4, <2>6 DEF PodsOf
    <3>2. i # 1
      BY <2>3, <2>5, <3>1
    <3>3. PICK n \in Nat : n = Len(t) /\ n <= 2
      BY <2>5
    <3>4. i = 2 /\ n = 2
      BY <3>1, <3>2, <3>3
    <3> QED
      BY <3>1, <3>3, <3>4
  <2>8. Pairing' /\ todo'[Dropper] = Tail(t)
    BY <2>1, <2>4, <2>7, PairingStays
  <2>9. DOMAIN Tail(t) = {1} /\ Tail(t)[1] = t[2]
    BY <2>6, <2>7
  <2>10. PodsOf(Tail(t)) = {a}
    BY <2>7, <2>9 DEF PodsOf
  <2> QED
    BY <2>8, <2>10
<1> QED
  BY <1>1, <1>2

-----------------------------------------------------------------------------
(***************************************************************************)
(* The checks of a drop see all that is bound.                             *)
(***************************************************************************)
On(n) == { q \in Names : pods[q].node = n }

\* What the placements put on a column.
For(t, n) == { t[j].pod : j \in { k \in DOMAIN t : t[k].node = n } }

\* With what is still to be bound, no column of the drop is over its height.
RoomInv ==
  Pairing /\ Waits(pods[First]) =>
    \A i \in DOMAIN todo[Dropper] :
      Cardinality(On(todo[Dropper][i].node) \cup For(todo[Dropper], todo[Dropper][i].node))
        <= SpawnMaxHeight

LEMMA ShownHeight ==
  ASSUME TypeOK, NEW n \in ColumnsFor(TRUE)
  PROVE  /\ HeightOn(TRUE, n) \in Nat
         /\ Cardinality({ q \in Names : podCache[q].node = n }) <= HeightOn(TRUE, n)
<1> DEFINE cols == ColumnsFor(TRUE)
           at == BuildField(TRUE)
           x == Cardinality({ m \in cols : LeftOf(Nodes, m, n) })
           S == { q \in Names : podCache[q].node = n }
           H == { p \in DOMAIN at : at[p][1] = x }
<1>1. DOMAIN podCache = Names
  BY DEF TypeOK
<1>2. DOMAIN at = { q \in Names : podCache[q].node \in cols }
  BY <1>1 DEF BuildField, New
<1>3. ASSUME NEW q \in S PROVE q \in H
  <2>1. q \in DOMAIN at /\ podCache[q].node = n
    BY <1>2
  <2>2. at[q][1] = Cardinality({ m \in cols : LeftOf(Nodes, m, podCache[q].node) })
    BY <2>1 DEF BuildField, New
  <2> QED
    BY <2>1, <2>2
<1>4. H \in SUBSET Names /\ HeightOn(TRUE, n) = Cardinality(H)
  BY <1>2 DEF HeightOn, Height
<1> HIDE DEF H
<1>5. IsFiniteSet(H) /\ Cardinality(H) \in Nat
  BY <1>4, NamesFinite
<1>6. Cardinality(S) <= Cardinality(H)
  BY <1>3, <1>5, FS_Subset
<1> QED
  BY <1>4, <1>5, <1>6

\* All Pods that are bound are in the cache when it holds a Pod of a newer pair.
LEMMA OnShown ==
  ASSUME TypeOK, ViewInv, NEW a \in Names, Lives(podCache[a]),
         \A q \in Names : Bound(q) => Older(q, a), NEW n, n # NoNode
  PROVE  On(n) \subseteq { q \in Names : podCache[q].node = n }
<1> SUFFICES ASSUME NEW q \in Names, pods[q].node = n
             PROVE  podCache[q].node = n
  BY DEF On
<1>1. Bound(q)
  BY DEF ViewInv, GoneInv, Bound, Lives
<1>2. 0 \in 0 .. Len(podFeed)
  BY FeedParts
<1>3. Shown(0, q)
  BY <1>1, <1>2 DEF ViewInv, OlderInv, Heard, Caught
<1>4. Placed(podCache[q])
  BY <1>3 DEF Shown
<1> QED
  BY <1>1, <1>4 DEF ViewInv, NodeInv

LEMMA DropRoom ==
  ASSUME TypeOK, ViewInv, NEW x \in Seq(Placement), NEW queue, Accepts(queue, TRUE, x),
         NEW a \in Names, Lives(podCache[a]), \A q \in Names : Bound(q) => Older(q, a),
         NEW i \in DOMAIN x
  PROVE  Cardinality(On(x[i].node) \cup For(x, x[i].node)) <= SpawnMaxHeight
<1>0. PICK n \in DOMAIN Nodes : n = x[i].node /\ n # NoNode
  <2>1. x[i] \in Placement
    OBVIOUS
  <2> QED
    BY <2>1, SchedulerAssumption DEF Placement
<1> DEFINE K == { k \in DOMAIN x : x[k].node = n }
           S == { q \in Names : podCache[q].node = n }
<1>1. PICK len \in Nat : DOMAIN x = 1 .. len
  <2>1. Len(x) \in Nat /\ DOMAIN x = 1 .. Len(x)
    OBVIOUS
  <2> QED
    BY <2>1
<1>2. i \in K /\ K \in SUBSET (1 .. len)
  BY <1>0, <1>1
<1>3. PICK m \in K : \A k \in K : k <= m
  BY <1>1, <1>2, GreatestOf
<1>4. { j \in 1 .. m : x[j].node = n } = K
  BY <1>1, <1>2, <1>3
<1>5. /\ n \in ColumnsFor(TRUE)
      /\ HeightOn(TRUE, n) + Cardinality(K) <= SpawnMaxHeight
  BY <1>3, <1>4 DEF Accepts, MaxHeightFor
<1>6. IsFiniteSet(K) /\ Cardinality(K) \in Nat
  <2>1. IsFiniteSet(1 .. len)
    BY FS_Interval
  <2> QED
    BY <1>2, <2>1, FS_Subset, FS_CardinalityType
<1> HIDE DEF K, S
<1>7. /\ IsFiniteSet(For(x, n)) /\ Cardinality(For(x, n)) \in Nat
      /\ Cardinality(For(x, n)) <= Cardinality(K)
  <2> DEFINE f == [k \in K |-> x[k].pod]
  <2>1. f \in Surjection(K, For(x, n))
    BY DEF Surjection, For, K
  <2> HIDE DEF f
  <2> QED
    BY <1>6, <2>1, FS_Surjection, FS_CardinalityType
<1>8. Cardinality(S) <= HeightOn(TRUE, n) /\ HeightOn(TRUE, n) \in Nat
  BY <1>5, ShownHeight DEF S
<1>9. On(n) \in SUBSET S /\ S \in SUBSET Names
  BY <1>0, OnShown DEF S
<1>10. /\ IsFiniteSet(On(n)) /\ Cardinality(On(n)) \in Nat
       /\ Cardinality(S) \in Nat /\ Cardinality(On(n)) <= Cardinality(S)
  BY <1>9, NamesFinite, FS_Subset
<1>11. /\ Cardinality(On(n) \cap For(x, n)) \in Nat
       /\ Cardinality(On(n) \cup For(x, n))
            = Cardinality(On(n)) + Cardinality(For(x, n)) - Cardinality(On(n) \cap For(x, n))
  <2>1. IsFiniteSet(On(n) \cap For(x, n))
    BY <1>10, FS_Subset
  <2> QED
    BY <1>7, <1>10, <2>1, FS_Union, FS_CardinalityType
<1>12. SpawnMaxHeight \in Nat
  BY SchedulerAssumption
<1>13. Cardinality(On(n) \cup For(x, n)) <= SpawnMaxHeight
  <2> DEFINE k == Cardinality(K)
             f == Cardinality(For(x, n))
             o == Cardinality(On(n))
             h == HeightOn(TRUE, n)
             c == Cardinality(On(n) \cap For(x, n))
  <2>1. k \in Nat /\ f \in Nat /\ o \in Nat /\ h \in Nat /\ c \in Nat /\ f <= k
    BY <1>6, <1>7, <1>8, <1>10, <1>11
  <2>2. o <= h
    <3> DEFINE s == Cardinality(S)
    <3>1. s \in Nat /\ o <= s /\ s <= h
      BY <1>8, <1>10
    <3> HIDE DEF o, s, h
    <3> QED
      BY <2>1, <3>1
  <2>3. h + k <= SpawnMaxHeight
    BY <1>5
  <2>4. Cardinality(On(n) \cup For(x, n)) = o + f - c
    BY <1>11
  <2> HIDE DEF k, f, o, h, c
  <2> QED
    BY <1>12, <2>1, <2>2, <2>3, <2>4
<1> QED
  BY <1>0, <1>13

-----------------------------------------------------------------------------
(***************************************************************************)
(* A drop that begins.                                                     *)
(***************************************************************************)
\* The placements are for a pair, and all that is bound is older.
Starts(x) ==
  /\ x \in Seq(Placement) /\ DOMAIN x = 1 .. PairSize /\ Distinct(x)
  /\ \A p \in PodsOf(x) : p <= created /\ (Lives(pods[p]) => Lives(podCache[p]))
  /\ \A p, q \in PodsOf(x) : ~Older(p, q)
  /\ Waits(pods[x[1].pod]) => \A q \in Names : Bound(q) => Older(q, x[1].pod)
  /\ \E queue : Accepts(queue, TRUE, x)

LEMMA StartsPods ==
  ASSUME NEW x \in Seq(Placement), DOMAIN x = 1 .. PairSize
  PROVE  x[1].pod \in PodsOf(x) /\ PodsOf(x) \subseteq Names
<1>1. 1 \in DOMAIN x
  BY SchedulerAssumption
<1>2. \A i \in DOMAIN x : x[i] \in Placement
  <2>1. x \in [1 .. Len(x) -> Placement]
    BY LenProperties
  <2> QED
    BY <2>1
<1> QED
  BY <1>1, <1>2 DEF PodsOf, Placement

LEMMA PlayerStarts ==
  ASSUME RoomCase, DInv, ViewInv, ListedInv, HalfInv, NEW x \in Requests,
         Dropper \in Players, PlayerDrops(Dropper, x)
  PROVE  Starts(x)
<1>0. TypeOK /\ ListedKind /\ Players # {} /\ Players = {Dropper} /\ PairSize = 2
  BY DropperIs DEF DInv, KindInv, RoomCase
<1>1. x \in Seq(Placement) /\ DOMAIN x = 1 .. PairSize /\ Distinct(x)
  <2>1. x \in Seq(Placement) /\ DOMAIN x = {1, 2} /\ Distinct(x)
    BY RequestParts
  <2> QED
    BY <1>0, <2>1
<1>2. PICK kb \in BOOLEAN : Accepts(listed[Dropper] \ inflight, kb, x) /\ ReadsKbkb(kb)
  BY DEF PlayerDrops
<1>3. kb = TRUE
  BY <1>0, <1>2, NoFaults
<1>4. PodsOf(x) \subseteq listed[Dropper]
  BY <1>2 DEF Accepts, PodsOf
<1>5. \A p \in PodsOf(x) : p <= created /\ (Lives(pods[p]) => Lives(podCache[p]))
  BY <1>0, <1>4 DEF ListedKind, KindOf, ListedInv
<1>6. \A p, q \in PodsOf(x) : ~Older(p, q)
  BY <1>0, <1>4 DEF ListedInv
<1>7. x[1].pod \in Names /\ ~Pairing
  <2>1. x[1].pod \in Names
    BY <1>1, StartsPods
  <2> QED
    BY <2>1 DEF PlayerDrops, Pairing
<1>8. Waits(pods[x[1].pod]) => \A q \in Names : Bound(q) => Older(q, x[1].pod)
  BY <1>0, <1>7 DEF HalfInv
<1> QED
  BY <1>1, <1>2, <1>3, <1>5, <1>6, <1>8 DEF Starts

LEMMA LoopStarts ==
  ASSUME RoomCase, DInv, ViewInv, CheckInv, FullInv, Players = {}, PInv,
         pc["loop"] = "check", Accepts(ToSet(Queue), TRUE, todo["loop"])
  PROVE  Starts(todo["loop"])
<1>0. TypeOK /\ OrderInv /\ AgeInv /\ DistinctInv /\ Dropper = "loop"
  BY DropperIs DEF DInv, ViewInv, RoomCase
<1>1. PICK x \in Seq(Placement) : x = todo["loop"]
  BY <1>0, TodoList
<1>2. DOMAIN x = 1 .. PairSize /\ Distinct(x)
  BY <1>0, <1>1, TodoList DEF CheckInv, DistinctInv
<1>3. ToSet(Queue) \subseteq Pending
  <2>1. Queue \in Seq(Names) /\ \A i \in 1 .. Len(Queue) : Queue[i] \in Pending
    BY <1>0, QueueType, TypeParts
  <2> QED
    BY <2>1 DEF ToSet
<1>4. PodsOf(x) \subseteq Pending
  BY <1>1, <1>3 DEF Accepts, PodsOf
<1>5. \A p \in PodsOf(x) : p \in Unbound /\ Awaited(p)
  BY <1>0, <1>4, QueueKinds, PendingAwaited DEF PInv
<1>6. \A p \in PodsOf(x) : p <= created /\ ~Bound(p) /\ (Lives(pods[p]) => Lives(podCache[p]))
  BY <1>5 DEF Awaited
<1>7. \A p, q \in PodsOf(x) : ~Older(p, q)
  BY <1>0, <1>5, UnboundTogether
<1>8. x[1].pod \in PodsOf(x) /\ PodsOf(x) \subseteq Names
  BY <1>2, StartsPods
<1>9. ASSUME Waits(pods[x[1].pod]), NEW q \in Names, Bound(q)
      PROVE  Older(q, x[1].pod)
  <2>1. PICK a \in Names : a = x[1].pod /\ Waits(pods[a]) /\ a <= created
    BY <1>6, <1>8, <1>9
  <2>2. PodsOf(x) = created - PairSize + 1 .. created
    BY <1>0, <1>2, <1>6, <1>7, <1>8, <1>9, DropWhole
  <2>3. ~(q \in created - PairSize + 1 .. created)
    BY <1>6, <1>9, <2>2
  <2>4. /\ q \in Nat /\ a \in Nat /\ created \in Nat /\ q <= created
        /\ PairSize \in Nat /\ PairSize >= 1
    BY <1>0, <1>9, NamesFinite, SchedulerAssumption DEF OrderInv, Known, Bound, TypeOK
  <2>5. PICK k \in q .. q + PairSize - 1 : Begins(k)
    BY <2>4, SomeBegins
  <2>6. ~(k \in a .. created - 1)
    BY <1>0, <2>1, <2>5 DEF AgeInv, Older
  <2>7. k \in q .. a - 1
    BY <2>1, <2>3, <2>4, <2>5, <2>6
  <2> QED
    BY <2>1, <2>5, <2>7 DEF Older
<1> QED
  BY <1>1, <1>2, <1>6, <1>7, <1>9 DEF Starts

-----------------------------------------------------------------------------
(***************************************************************************)
(* The invariant.                                                          *)
(***************************************************************************)
RInv ==
  /\ DInv /\ NoGarbage /\ ViewInv
  /\ ListedInv /\ CheckInv /\ LenInv /\ FullInv /\ WholeInv /\ HalfInv /\ RoomInv
  /\ Players = {} => PInv
  /\ faults = 0

LEMMA TurnStarts ==
  ASSUME RoomCase, RInv, [Next]_vars, Pairing'
  PROVE  \/ Pairing /\ todo'[Dropper] = todo[Dropper]
         \/ /\ Pairing /\ BindStep(Dropper) /\ Len(todo[Dropper]) # 1
            /\ todo'[Dropper] = Tail(todo[Dropper])
         \/ Starts(todo'[Dropper]) /\ UNCHANGED << pods, created >>
<1>0. TypeOK /\ RainInv
  BY DEF RInv, DInv, KindInv
<1>1. Dropper \in Threads /\ (Dropper \in Players \/ Players = {}) /\ "loop" \notin Players
  BY DropperIs, LoopIsThread DEF RoomCase
<1>2. ASSUME Dropper \in Players, NEW x \in Requests, PlayerDrops(Dropper, x)
      PROVE  Starts(todo'[Dropper]) /\ UNCHANGED << pods, created >>
  <2>1. todo'[Dropper] = x /\ UNCHANGED << pods, created >>
    BY <1>0, <1>1, <1>2 DEF PlayerDrops, storeVars, TypeOK
  <2> QED
    BY <1>2, <2>1, PlayerStarts DEF RInv
<1>3. ASSUME Dropper = "loop", LoopDrops, UNCHANGED todo, Accepts(ToSet(Queue), TRUE, todo["loop"])
      PROVE  Starts(todo'[Dropper]) /\ UNCHANGED << pods, created >>
  <2>1. pc["loop"] = "check" /\ UNCHANGED << pods, created >> /\ todo'[Dropper] = todo["loop"]
    BY <1>3 DEF LoopDrops, storeVars
  <2> QED
    BY <1>1, <1>3, <2>1, LoopStarts DEF RInv
<1> QED
  BY <1>0, <1>2, <1>3, PairingSteps

\* A drop that begins has all that waits, and room.
LEMMA StartsWhole ==
  ASSUME RInv, NEW x, Starts(x), Waits(pods[x[1].pod])
  PROVE  /\ Begins(created) /\ \A a \in Names : Waits(pods[a]) => a \in PodsOf(x)
         /\ \A i \in DOMAIN x :
              Cardinality(On(x[i].node) \cup For(x, x[i].node)) <= SpawnMaxHeight
<1>0. TypeOK /\ OrderInv /\ AgeInv /\ ViewInv
  BY DEF RInv, DInv, ViewInv
<1>1. /\ x \in Seq(Placement) /\ DOMAIN x = 1 .. PairSize /\ Distinct(x)
      /\ \A p \in PodsOf(x) : p <= created /\ (Lives(pods[p]) => Lives(podCache[p]))
      /\ \A p, q \in PodsOf(x) : ~Older(p, q)
      /\ \A q \in Names : Bound(q) => Older(q, x[1].pod)
  BY DEF Starts
<1>2. PICK a \in Names : a = x[1].pod /\ a \in PodsOf(x) /\ PodsOf(x) \subseteq Names
  BY <1>1, StartsPods
<1>3. Waits(pods[a]) /\ Lives(podCache[a])
  BY <1>1, <1>2 DEF Waits
<1>4. Begins(created) /\ \A b \in Names : Waits(pods[b]) => b \in PodsOf(x)
  BY <1>0, <1>1, <1>2, <1>3, DropWhole
<1>5. PICK queue : Accepts(queue, TRUE, x)
  BY DEF Starts
<1>6. \A i \in DOMAIN x : Cardinality(On(x[i].node) \cup For(x, x[i].node)) <= SpawnMaxHeight
  BY <1>0, <1>1, <1>2, <1>3, <1>5, DropRoom
<1> QED
  BY <1>4, <1>6

\* There is room for less, too.
LEMMA RoomLess ==
  ASSUME NEW n, NEW F, F \subseteq Names, Cardinality(On(n) \cup F) <= SpawnMaxHeight,
         NEW S, S \subseteq On(n) \cup F
  PROVE  Cardinality(S) <= SpawnMaxHeight
<1>1. On(n) \cup F \in SUBSET Names
  BY DEF On
<1>2. IsFiniteSet(On(n) \cup F) /\ Cardinality(On(n) \cup F) \in Nat
  BY <1>1, NamesFinite
<1>3. Cardinality(S) <= Cardinality(On(n) \cup F) /\ Cardinality(S) \in Nat
  BY <1>2, FS_Subset, FS_CardinalityType
<1> QED
  BY <1>2, <1>3, SchedulerAssumption

LEMMA TurnStep ==
  ASSUME RoomCase, RInv, [Next]_vars, TypeOK', ViewInv'
  PROVE  WholeInv' /\ RoomInv'
<1> DEFINE Later(n) == { q \in Names : pods'[q].node = n }
<1> SUFFICES ASSUME Pairing', NEW t, t = todo'[Dropper], Waits(pods'[Head(t).pod])
             PROVE  /\ Begins(created') /\ \A a \in Names : Waits(pods'[a]) => a \in PodsOf(t)
                    /\ \A i \in DOMAIN t :
                         Cardinality(Later(t[i].node) \cup For(t, t[i].node)) <= SpawnMaxHeight
  BY DEF WholeInv, RoomInv, First, Next1Of, On
<1>0. /\ TypeOK /\ TodoKind /\ Dropper \in Threads
      /\ DInv /\ NoGarbage /\ WholeInv /\ RoomInv /\ SpawnMaxHeight \in Nat
      /\ created \in Nat
  BY DropperIs, SchedulerAssumption DEF RInv, DInv, KindInv, RoomCase, TypeOK
<1>1. /\ t \in Seq(Placement) /\ t # << >> /\ DOMAIN t = 1 .. Len(t) /\ 1 \in DOMAIN t
      /\ Head(t) = t[1] /\ \A i \in DOMAIN t : t[i] \in Placement
  <2>1. t \in Seq(Placement) /\ t # << >>
    BY <1>0 DEF TypeOK, Pairing
  <2>2. Len(t) \in Nat \ {0} /\ DOMAIN t = 1 .. Len(t) /\ t \in [1 .. Len(t) -> Placement]
    BY <2>1, TailParts, LenProperties
  <2> QED
    BY <2>1, <2>2
<1>2. \A i \in DOMAIN t : t[i].pod \in Names /\ t[i].node \in DOMAIN Nodes /\ t[i].node # NoNode
  BY <1>1, SchedulerAssumption DEF Placement
<1> DEFINE p == t[1].pod
<1>3. p \in Names /\ Waits(pods'[p]) /\ p \in PodsOf(t)
  BY <1>1, <1>2 DEF PodsOf
<1>4. ASSUME NEW n \in DOMAIN Nodes, NEW q \in Later(n), q \notin On(n)
      PROVE  Pairing /\ BindStep(Dropper) /\ q = First /\ n = Head(todo[Dropper]).node
  <2>1. q \in Names /\ pods'[q].node = n /\ n # NoNode /\ pods[q].node # n
    BY <1>4, SchedulerAssumption DEF On
  <2>2. Bound(q)'
    BY <2>1 DEF ViewInv, GoneInv, Bound, Lives
  <2> QED
    BY <1>0, <2>1, <2>2, StepMoves
<1>5. ASSUME Pairing, t = todo[Dropper] PROVE Waits(pods[p]) /\ p = First /\ created' = created
  <2>1. p <= created /\ p = First
    BY <1>0, <1>1, <1>3, <1>5 DEF TodoKind, KindOf, First, Next1Of
  <2>2. Waits(pods[p])
    BY <1>0, <1>3, <2>1, StepMoves
  <2> QED
    BY <1>0, <1>3, <1>5, <2>1, <2>2, StepMoves DEF WholeInv
<1>6. CASE Pairing /\ t = todo[Dropper]
  <2>1. Begins(created') /\ \A a \in Names : Waits(pods'[a]) => a \in PodsOf(t)
    BY <1>0, <1>5, <1>6, StepMoves DEF WholeInv
  <2>2. ASSUME NEW i \in DOMAIN t
        PROVE  Cardinality(Later(t[i].node) \cup For(t, t[i].node)) <= SpawnMaxHeight
    <3>1. PICK n \in DOMAIN Nodes : n = t[i].node /\ n # NoNode
      BY <1>2, <2>2
    <3>2. Later(n) \subseteq On(n)
      <4> SUFFICES ASSUME NEW q \in Later(n), q \notin On(n) PROVE FALSE
        OBVIOUS
      <4>1. q = p
        BY <1>4, <1>5, <1>6
      <4> QED
        BY <1>3, <3>1, <4>1 DEF Waits
    <3>3. For(t, n) \subseteq Names
      BY <1>2 DEF For
    <3>4. Cardinality(On(n) \cup For(t, n)) <= SpawnMaxHeight
      BY <1>0, <1>5, <1>6, <2>2, <3>1 DEF RoomInv
    <3> QED
      BY <1>0, <3>1, <3>2, <3>3, <3>4, RoomLess
  <2> QED
    BY <2>1, <2>2
<1>7. CASE /\ Pairing /\ BindStep(Dropper) /\ Len(todo[Dropper]) # 1
           /\ t = Tail(todo[Dropper])
  <2>1. PICK s \in Seq(Placement) : s = todo[Dropper] /\ s # << >> /\ s[1].pod = First /\ Head(s) = s[1]
    BY <1>0, <1>7, HeadParts DEF Pairing, First, Next1Of
  <2>2. /\ Waits(pods[First]) /\ First \in Names
        /\ \A i \in DOMAIN t : i + 1 \in DOMAIN s /\ t[i] = s[i + 1]
        /\ DOMAIN s = 1 .. Len(s) /\ Len(s) \in Nat \ {0} /\ DOMAIN t = 1 .. Len(s) - 1
    BY <1>0, <1>7, <2>1, OnlyPairs, TailParts DEF First
  <2>3. Begins(created) /\ \A a \in Names : Waits(pods[a]) => a \in PodsOf(s)
    BY <1>0, <1>7, <2>1, <2>2 DEF WholeInv
  <2>4. created' = created
    BY <1>0, <2>2, <2>3, StepMoves
  <2>5. \A a \in Names : Waits(pods'[a]) => Waits(pods[a]) /\ a # First
    <3>1. ~Waits(pods'[First])
      <4>1. s[1].node \in DOMAIN Nodes /\ pods[First] \in Pod /\ pods \in [Names -> Pod]
        BY <1>0, <1>7, <2>1, <2>2, HeadParts DEF Pairing, TypeOK
      <4>2. pods' = [pods EXCEPT ![First] = [pods[First] EXCEPT !.node = s[1].node]]
        BY <1>7, <2>1 DEF BindStep, Write, First
      <4>3. pods'[First].node = s[1].node
        BY <2>2, <4>1, <4>2 DEF Pod
      <4> QED
        BY <4>1, <4>3, SchedulerAssumption DEF Waits
    <3> QED
      BY <1>0, <2>4, <3>1, StepMoves
  <2>6. \A a \in PodsOf(s) : a = First \/ a \in PodsOf(t)
    <3> SUFFICES ASSUME NEW k \in DOMAIN s, k # 1
                 PROVE  s[k].pod \in PodsOf(t)
      BY <2>1 DEF PodsOf
    <3>1. k - 1 \in DOMAIN t /\ (k - 1) + 1 = k
      BY <2>2
    <3>2. t[k - 1] = s[k]
      BY <2>2, <3>1
    <3> QED
      BY <3>1, <3>2 DEF PodsOf
  <2>7. ASSUME NEW i \in DOMAIN t
        PROVE  Cardinality(Later(t[i].node) \cup For(t, t[i].node)) <= SpawnMaxHeight
    <3>1. PICK n \in DOMAIN Nodes : n = t[i].node /\ n = s[i + 1].node
      BY <1>2, <2>2, <2>7
    <3>2. ASSUME NEW q \in Later(n), q \notin On(n) PROVE q \in For(s, n)
      <4>1. q = s[1].pod /\ n = s[1].node
        BY <1>4, <2>1, <3>2
      <4>2. 1 \in DOMAIN s
        BY <2>2
      <4> QED
        BY <4>1, <4>2 DEF For
    <3>3. For(t, n) \subseteq For(s, n)
      BY <2>2 DEF For
    <3>4. For(s, n) \subseteq Names
      <4>1. \A k \in DOMAIN s : s[k] \in Placement
        <5>1. s \in [1 .. Len(s) -> Placement]
          BY LenProperties
        <5> QED
          BY <5>1
      <4> QED
        BY <4>1 DEF For, Placement
    <3>5. i + 1 \in DOMAIN s
      BY <2>2, <2>7
    <3>6. Cardinality(On(n) \cup For(s, n)) <= SpawnMaxHeight
      BY <1>0, <1>7, <2>1, <2>2, <3>1, <3>5 DEF RoomInv
    <3>7. Later(n) \cup For(t, n) \subseteq On(n) \cup For(s, n)
      BY <3>2, <3>3
    <3> HIDE DEF Later
    <3>8. Cardinality(Later(n) \cup For(t, n)) <= SpawnMaxHeight
      BY <3>4, <3>6, <3>7, RoomLess
    <3> QED
      BY <3>1, <3>8
  <2> QED
    BY <2>3, <2>4, <2>5, <2>6, <2>7
<1>8. CASE Starts(t) /\ UNCHANGED << pods, created >>
  <2>1. Waits(pods[t[1].pod])
    BY <1>3, <1>8
  <2>2. \A n : Later(n) = On(n)
    BY <1>8 DEF On
  <2> QED
    BY <1>8, <2>1, <2>2, StartsWhole
<1> QED
  BY <1>6, <1>7, <1>8, TurnStarts

LEMMA InitRoom ==
  ASSUME OneDropper, Init
  PROVE  RInv
<1>1. DInv
  BY InitDrop
<1>2. NoGarbage /\ \A p \in Names : ~Bound(p)
  BY GoneIsPod DEF Init, NoGarbage, Lives, Bound
<1>3. Dropper \in Threads /\ pc[Dropper] = "idle" /\ pc["loop"] = "idle" /\ todo[Dropper] = << >>
  BY DropperIs, LoopIsThread DEF Init
<1>4. ListedInv
  BY DEF Init, ListedInv
<1>5. CheckInv /\ LenInv /\ WholeInv /\ RoomInv
  BY <1>3 DEF CheckInv, LenInv, WholeInv, RoomInv, Pairing
<1>6. FullInv /\ HalfInv
  BY <1>2 DEF FullInv, HalfInv
<1>7. faults = 0
  BY DEF Init
<1> QED
  BY <1>1, <1>2, <1>4, <1>5, <1>6, <1>7, InitView, InitPlace DEF RInv

LEMMA StepRoom ==
  ASSUME RoomCase, RInv, [Next]_vars
  PROVE  RInv'
<1>0. /\ OneDropper /\ DInv /\ NoGarbage /\ ViewInv
      /\ TypeOK /\ OrderInv /\ faults = 0
  BY DEF RoomCase, RInv, DInv
<1>1. DInv' /\ TypeOK'
  BY <1>0, StepDrop DEF DInv
<1>2. NoGarbage'
  BY <1>0, CalmGarbage
<1>3. ViewInv'
  BY <1>0, ViewStep
<1>4. ListedInv' /\ CheckInv' /\ LenInv'
  BY <1>0, ListedStep, CheckStep, LenStep DEF RInv
<1>5. FullInv' /\ HalfInv'
  BY <1>0, FullStep, HalfStep DEF RInv
<1>6. WholeInv' /\ RoomInv'
  BY <1>1, <1>3, TurnStep
<1>7. Players = {} => PInv'
  <2>1. faults = 0 /\ faults' = 0
    BY <1>0, NoFaults
  <2> QED
    BY <2>1, StepPlace DEF RInv, PlaceInv, PInv
<1> QED
  BY <1>0, <1>1, <1>2, <1>3, <1>4, <1>5, <1>6, <1>7, NoFaults DEF RInv

LEMMA RoomRefuses ==
  ASSUME RoomCase, RInv, [Next]_vars, NEW p \in Names, ~Bound(p), Bound(p)'
  PROVE  Cardinality({ q \in Names : pods[q].node = pods'[p].node }) < SpawnMaxHeight
<1>0. TypeOK /\ DInv /\ NoGarbage /\ Dropper \in Threads
  BY DropperIs DEF RInv, DInv, RoomCase
<1>1. /\ Pairing /\ BindStep(Dropper) /\ p = First /\ Waits(pods[p])
      /\ pods'[p].node = Head(todo[Dropper]).node
  BY <1>0, StepMoves
<1>2. PICK t \in Seq(Placement) : t = todo[Dropper] /\ 1 \in DOMAIN t /\ Head(t) = t[1] /\ t[1].pod = p
  BY <1>0, <1>1, HeadParts DEF Pairing, First, Next1Of
<1>3. PICK n \in DOMAIN Nodes : n = t[1].node /\ n = pods'[p].node /\ n # NoNode
  BY <1>0, <1>1, <1>2, HeadParts, SchedulerAssumption DEF Pairing
<1>4. Cardinality(On(n) \cup For(t, n)) <= SpawnMaxHeight
  BY <1>1, <1>2, <1>3 DEF RInv, RoomInv
<1>5. p \in For(t, n) /\ p \notin On(n)
  BY <1>1, <1>2, <1>3 DEF For, On, Waits
<1>6. On(n) \in SUBSET Names /\ IsFiniteSet(On(n)) /\ Cardinality(On(n)) \in Nat
  BY NamesFinite DEF On
<1>7. Cardinality(On(n) \cup {p}) = Cardinality(On(n)) + 1
  BY <1>5, <1>6, FS_AddElement
<1>8. For(t, n) \subseteq Names
  <2>1. \A k \in DOMAIN t : t[k] \in Placement
    <3>1. t \in [1 .. Len(t) -> Placement]
      BY LenProperties
    <3> QED
      BY <3>1
  <2> QED
    BY <2>1 DEF For, Placement
<1>9. Cardinality(On(n) \cup {p}) <= SpawnMaxHeight
  <2>1. On(n) \cup {p} \subseteq On(n) \cup For(t, n)
    BY <1>5
  <2> QED
    BY <1>4, <1>8, <2>1, RoomLess
<1>10. Cardinality(On(n)) < SpawnMaxHeight
  BY <1>6, <1>7, <1>9, SchedulerAssumption
<1> QED
  BY <1>3, <1>10 DEF On

\* What the history says of the state, and of the step that keeps it.
CalmInv == calm \in BOOLEAN /\ (calm => RInv)

LEMMA StaysCalmStep ==
  ASSUME CalmInv, [HistoryNext]_historyVars, calm'
  PROVE  RInv /\ StaysCalm /\ [Next]_vars
<1>1. CASE HistoryNext
  BY <1>1 DEF HistoryNext, CalmInv
<1>2. CASE UNCHANGED historyVars
  <2>1. UNCHANGED vars /\ calm
    BY <1>2 DEF historyVars
  <2>2. RInv
    BY <2>1 DEF CalmInv
  <2>3. StaysCalm
    BY <2>1, <2>2 DEF StaysCalm, Crowds, RInv, vars
  <2> QED
    BY <2>1, <2>2, <2>3
<1> QED
  BY <1>1, <1>2

\* One thread that drops whole pairs, the loop or a client, binds no Pod of a pair
\* to a full column while it is calm: what it sees of a new pair it sees after
\* all that is bound before it.  With two pairs waiting it may see the second
\* and not the first; garbage is bound unseen; a failed read of the Kbkb gives
\* another height; and a failed request leaves Pods bound that nobody heard of.
THEOREM OneDropperRefusesWhileCalm ==
  ASSUME OneDropper, Players = {} \/ PairSize = 2
  PROVE  HistorySpec => RefusesWhileCalm
<1>1. HistoryInit => CalmInv
  BY InitRoom DEF HistoryInit, CalmInv
<1>2. CalmInv /\ [HistoryNext]_historyVars => CalmInv'
  <2> SUFFICES ASSUME CalmInv, [HistoryNext]_historyVars PROVE CalmInv'
    OBVIOUS
  <2>1. calm' \in BOOLEAN
    BY DEF CalmInv, HistoryNext, historyVars
  <2>2. ASSUME calm' PROVE RInv'
    <3>1. RInv /\ RoomCase /\ [Next]_vars
      BY <2>2, StaysCalmStep DEF RoomCase
    <3> QED
      BY <3>1, StepRoom
  <2> QED
    BY <2>1, <2>2 DEF CalmInv
<1>3. CalmInv /\ [HistoryNext]_historyVars =>
        [calm' => \A p \in Names : ~Overfills(p)]_historyVars
  <2> SUFFICES ASSUME CalmInv, [HistoryNext]_historyVars, calm', NEW p \in Names,
                      ~Bound(p), Bound(p)'
               PROVE  ~(Cardinality({ q \in Names : pods[q].node = pods'[p].node })
                          >= SpawnMaxHeight)
    BY DEF Overfills
  <2>1. RInv /\ RoomCase /\ [Next]_vars
    BY StaysCalmStep DEF RoomCase
  <2>2. Cardinality({ q \in Names : pods[q].node = pods'[p].node }) < SpawnMaxHeight
    BY <2>1, RoomRefuses
  <2>3. Cardinality({ q \in Names : pods[q].node = pods'[p].node }) \in Nat
    <3>1. { q \in Names : pods[q].node = pods'[p].node } \in SUBSET Names
      OBVIOUS
    <3> QED
      BY <3>1, NamesFinite
  <2> QED
    BY <2>2, <2>3, SchedulerAssumption
<1> QED
  BY <1>1, <1>2, <1>3, PTL DEF HistorySpec, RefusesWhileCalm
=============================================================================
