-------------------------- MODULE EraseScanProofs --------------------------
(***************************************************************************)
(* Proofs about the group search of pkg/field: on every field, of any      *)
(* size, Erasable returns the Pods of the groups that are large enough,    *)
(* each once.                                                              *)
(***************************************************************************)
EXTENDS EraseScan, FieldProofs

-----------------------------------------------------------------------------
(***************************************************************************)
(* The invariant of the scan.                                              *)
(***************************************************************************)
LEMMA InitInv == Init => Inv
<1> SUFFICES ASSUME Init PROVE Inv
  OBVIOUS
<1>1. IsFiniteSet(cells) /\ DOMAIN color = cells
  BY FieldsAssumption DEF Init, cells
<1>2. Cardinality({}) = 0
  BY FS_EmptySet
<1> QED
  BY <1>1, <1>2 DEF Init, Inv, TypeOK, SearchInv, ScanInv, Finished, Closed

LEMMA TypeStep == TypeOK /\ [Next]_vars => TypeOK'
<1> SUFFICES ASSUME TypeOK, [Next]_vars PROVE TypeOK'
  OBVIOUS
<1> USE DEF TypeOK, cells
<1>1. ASSUME NEW p \in cells, SkipWhite(p) PROVE TypeOK'
  BY <1>1 DEF SkipWhite
<1>2. ASSUME NEW p \in cells, Start(p) PROVE TypeOK'
  BY <1>2 DEF Start
<1>3. ASSUME NEW p \in cells, Grow(p) PROVE TypeOK'
  <2>1. Fresh(p) \subseteq cells
    BY DEF Fresh
  <2>2. Cardinality(Fresh(p)) \in Nat
    BY <2>1, FS_Subset, FS_CardinalityType
  <2> QED
    BY <1>3, <2>1, <2>2 DEF Grow
<1>4. ASSUME Collect PROVE TypeOK'
  BY <1>4 DEF Collect
<1>5. ASSUME Return PROVE TypeOK'
  BY <1>5 DEF Return
<1>6. ASSUME UNCHANGED vars PROVE TypeOK'
  BY <1>6 DEF vars
<1> QED
  BY <1>1, <1>2, <1>3, <1>4, <1>5, <1>6 DEF Next

\* The group that a finished search holds is the group of each of its Pods.
LEMMA CollectedGroup ==
  ASSUME Inv, pc = "grow", stack = {}, NEW p \in group
  PROVE  Group(at, color, p) = group /\ color[p] # ColorWhite
<1>1. PICK s \in group : /\ color[s] # ColorWhite
                         /\ group \subseteq Group(at, color, s)
  BY DEF Inv, SearchInv
<1>2. group \in SUBSET DOMAIN at
  BY DEF Inv, TypeOK, cells
<1>3. Closed(at, color, group)
  BY DEF Inv, SearchInv, Closed, cells
<1>4. Group(at, color, s) = group
  BY <1>1, <1>2, <1>3, GroupLeast
<1>5. Group(at, color, p) = Group(at, color, s)
  BY <1>2, <1>4, GroupSame
<1>6. color[p] = color[s]
  BY <1>2, <1>4, GroupMonochrome
<1> QED
  BY <1>1, <1>4, <1>5, <1>6

LEMMA InvStep == Inv /\ [Next]_vars => Inv'
<1> SUFFICES ASSUME Inv, [Next]_vars PROVE Inv'
  OBVIOUS
<1>t. TypeOK'
  BY TypeStep DEF Inv
<1>1. ASSUME NEW p \in cells, SkipWhite(p) PROVE (SearchInv /\ ScanInv)'
  <2>0. at' = at /\ color' = color /\ group = {} /\ group' = {}
        /\ visited' = visited \cup {p} /\ pc = "scan" /\ pc' = pc
        /\ erasable' = erasable /\ erasableLen' = erasableLen
        /\ stack' = stack /\ start' = start /\ groupLen' = groupLen
        /\ color[p] = ColorWhite
    BY <1>1 DEF SkipWhite, Inv, SearchInv
  <2>1. SearchInv'
    BY <2>0 DEF Inv, SearchInv, cells
  <2>2. Closed(at, color, Finished)'
    BY <2>0 DEF Inv, ScanInv, Finished, Closed, Linked
  <2>3. (erasable = { q \in Finished : q \in Erasable(at, color, Threshold) })'
    BY <2>0 DEF Inv, ScanInv, Finished, Erasable
  <2> QED
    BY <2>0, <2>1, <2>2, <2>3 DEF Inv, ScanInv
<1>2. ASSUME NEW p \in cells, Start(p) PROVE (SearchInv /\ ScanInv)'
  <2>0. at' = at /\ color' = color /\ group = {} /\ group' = {p}
        /\ visited' = visited \cup {p} /\ pc = "scan" /\ pc' = "grow"
        /\ erasable' = erasable /\ erasableLen' = erasableLen
        /\ stack' = {p} /\ start' = {p} /\ groupLen' = 1
        /\ color[p] # ColorWhite /\ p \notin visited
    BY <1>2 DEF Start, ScansNext, Inv, SearchInv
  <2>1. p \in Group(at, color, p)
    BY <2>0, GroupSelf DEF cells
  <2>2. Cardinality({p}) = 1
    BY FS_Singleton
  <2>3. SearchInv'
    BY <2>0, <2>1, <2>2 DEF SearchInv, cells
  <2>4. Finished' = Finished
    BY <2>0 DEF Finished
  <2>5. ScanInv'
    BY <2>0, <2>4 DEF Inv, ScanInv
  <2> QED
    BY <2>3, <2>5
<1>3. ASSUME NEW p \in cells, Grow(p) PROVE (SearchInv /\ ScanInv)'
  <2>0. at' = at /\ color' = color /\ group' = group \cup Fresh(p)
        /\ visited' = visited \cup Fresh(p) /\ pc = "grow" /\ pc' = "grow"
        /\ erasable' = erasable /\ erasableLen' = erasableLen
        /\ stack' = (stack \ {p}) \cup Fresh(p) /\ start' = start
        /\ groupLen' = groupLen + Cardinality(Fresh(p))
        /\ p \in stack
    BY <1>3 DEF Grow
  <2>1. PICK s \in group : /\ start = {s}
                           /\ color[s] # ColorWhite
                           /\ group \subseteq Group(at, color, s)
    BY <2>0 DEF Inv, SearchInv
  <2>2. s \in DOMAIN at /\ p \in group /\ group \subseteq visited
        /\ visited \subseteq DOMAIN at /\ IsFiniteSet(DOMAIN at)
    BY <2>0, <2>1 DEF Inv, TypeOK, SearchInv, cells
  <2>3. color[p] = color[s] /\ p \in Group(at, color, s)
    BY <2>1, <2>2, GroupMonochrome
  <2>4. Fresh(p) = { q \in cells : Linked(at, color, p, q) /\ q \notin visited }
    BY <2>1, <2>3 DEF Fresh, Linked
  <2>5. Fresh(p) \subseteq Group(at, color, s)
    BY <2>3, <2>4, GroupClosed DEF Closed, cells
  <2>6. ASSUME NEW q \in cells, Linked(at, color, p, q)
        PROVE  q \in group \cup Fresh(p)
    <3> SUFFICES ASSUME q \in visited, q \notin group
                 PROVE  FALSE
      BY <2>4, <2>6
    <3>1. q \in Finished
      BY DEF Finished
    <3>2. Linked(at, color, q, p)
      BY <2>6, LinkedSymmetric
    <3>3. p \in Finished
      BY <2>2, <3>1, <3>2 DEF Inv, ScanInv, Closed
    <3> QED
      BY <2>2, <3>3 DEF Finished
  <2>7. Cardinality(group \cup Fresh(p)) = Cardinality(group) + Cardinality(Fresh(p))
    <3>1. IsFiniteSet(group) /\ IsFiniteSet(Fresh(p))
      BY <2>2, <2>4, FS_Subset DEF cells
    <3>2. group \cap Fresh(p) = {}
      BY <2>2, <2>4
    <3> QED
      BY <3>1, <3>2, DisjointUnion
  <2>8. SearchInv'
    <3>1. (\A q \in group \ stack : \A r \in cells :
             Linked(at, color, q, r) => r \in group)'
      <4> SUFFICES ASSUME NEW q \in group' \ stack', NEW r \in cells,
                          Linked(at, color, q, r)
                   PROVE  r \in group'
        BY <2>0 DEF cells
      <4>1. q = p \/ q \in group \ stack
        BY <2>0
      <4> QED
        BY <2>0, <2>6, <4>1 DEF Inv, SearchInv
    <3>2. (groupLen = Cardinality(group))'
      BY <2>0, <2>7 DEF Inv, SearchInv
    <3>3. (\E t \in group : /\ start = {t}
                            /\ color[t] # ColorWhite
                            /\ group \subseteq Group(at, color, t))'
      BY <2>0, <2>1, <2>5
    <3> QED
      BY <2>0, <3>1, <3>2, <3>3 DEF Inv, SearchInv
  <2>9. Finished' = Finished
    BY <2>0, <2>4 DEF Finished
  <2>10. ScanInv'
    BY <2>0, <2>9 DEF Inv, ScanInv
  <2> QED
    BY <2>8, <2>10
<1>4. ASSUME Collect PROVE (SearchInv /\ ScanInv)'
  <2>0. at' = at /\ color' = color /\ group' = {} /\ groupLen' = 0
        /\ visited' = visited /\ pc = "grow" /\ pc' = "scan"
        /\ stack = {} /\ stack' = {} /\ start' = {}
    BY <1>4 DEF Collect
  <2>1. SearchInv'
    BY <2>0, FS_EmptySet DEF Inv, SearchInv
  <2>2. Finished' = Finished \cup group /\ Finished \cap group = {}
    BY <2>0 DEF Inv, SearchInv, Finished
  <2>3. Closed(at, color, Finished)'
    BY <2>0, <2>2 DEF Inv, ScanInv, SearchInv, Closed, cells
  <2>4. groupLen = Cardinality(group)
    BY DEF Inv, SearchInv
  <2>5. IsFiniteSet(group) /\ IsFiniteSet(erasable) /\ group \subseteq DOMAIN at
    BY FS_Subset DEF Inv, TypeOK, cells
  <2>6. CASE groupLen >= Threshold
    <3>1. erasable' = erasable \cup group /\ erasableLen' = erasableLen + groupLen
      BY <1>4, <2>6 DEF Collect
    <3>2. group \subseteq Erasable(at, color, Threshold)
      BY <2>0, <2>4, <2>5, <2>6, CollectedGroup DEF Erasable
    <3>3. (erasable = { q \in Finished : q \in Erasable(at, color, Threshold) })'
      BY <2>0, <2>2, <3>1, <3>2 DEF Inv, ScanInv
    <3>4. erasable \cap group = {}
      BY <2>2 DEF Inv, ScanInv
    <3>5. Cardinality(erasable \cup group) = Cardinality(erasable) + Cardinality(group)
      BY <2>5, <3>4, DisjointUnion
    <3> QED
      BY <2>0, <2>1, <2>3, <2>4, <3>1, <3>3, <3>5 DEF Inv, ScanInv
  <2>7. CASE ~(groupLen >= Threshold)
    <3>1. erasable' = erasable /\ erasableLen' = erasableLen
      BY <1>4, <2>7 DEF Collect
    <3>2. group \cap Erasable(at, color, Threshold) = {}
      BY <2>0, <2>4, <2>7, CollectedGroup DEF Erasable
    <3> QED
      BY <2>0, <2>1, <2>2, <2>3, <3>1, <3>2 DEF Inv, ScanInv
  <2> QED
    BY <2>6, <2>7
<1>5. ASSUME Return PROVE (SearchInv /\ ScanInv)'
  BY <1>5 DEF Return, Inv, SearchInv, ScanInv, Finished, cells
<1>6. ASSUME UNCHANGED vars PROVE (SearchInv /\ ScanInv)'
  BY <1>6 DEF vars, Inv, SearchInv, ScanInv, Finished, cells
<1> QED
  BY <1>t, <1>1, <1>2, <1>3, <1>4, <1>5, <1>6 DEF Next, Inv

-----------------------------------------------------------------------------
\* The type invariant of the search: in particular the slices only ever hold
\* Pods of the field.
THEOREM TypeCorrect == Spec => []TypeOK
<1>1. Inv => TypeOK
  BY DEF Inv
<1> QED
  BY InitInv, InvStep, <1>1, PTL DEF Spec

\* Whatever the field and kokeshi, Erasable returns exactly the Pods of the
\* groups of `threshold` or more, and len() of what it returns is their number.
THEOREM ErasableIsCorrect == Spec => []ErasableCorrect
<1>1. Inv => ErasableCorrect
  <2> SUFFICES ASSUME Inv, pc = "done" PROVE ErasableCorrect
    BY DEF ErasableCorrect
  <2>1. Finished = cells
    BY DEF Inv, SearchInv, ScanInv, Finished
  <2>2. Erasable(at, color, Threshold) \subseteq cells
    BY DEF Erasable, cells
  <2> QED
    BY <2>1, <2>2 DEF Inv, ScanInv, ErasableCorrect
<1> QED
  BY InitInv, InvStep, <1>1, PTL DEF Spec

\* Two searches never share a group, because a finished one has visited every
\* Pod linked to what it visited.
THEOREM SearchesAreDisjoint == Spec => []SearchesDisjoint
<1>1. Inv => SearchesDisjoint
  <2> SUFFICES ASSUME Inv, pc # "grow" PROVE SearchesDisjoint
    BY DEF SearchesDisjoint
  <2>1. Finished = visited
    BY DEF Inv, SearchInv, Finished
  <2> QED
    BY <2>1 DEF Inv, ScanInv, SearchesDisjoint, Closed, Linked
<1> QED
  BY InitInv, InvStep, <1>1, PTL DEF Spec
=============================================================================
