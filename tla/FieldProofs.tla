---------------------------- MODULE FieldProofs ----------------------------
(***************************************************************************)
(* Facts about the groups of a field, for the proofs about the search that *)
(* computes them and about the controllers that act on them.               *)
(***************************************************************************)
EXTENDS Field, FiniteSetTheorems, TLAPS

-----------------------------------------------------------------------------
(***************************************************************************)
(* Groups are the classes of an equivalence on the coloured Pods.          *)
(***************************************************************************)
\* Being neighbours of one colour goes both ways.
LEMMA LinkedSymmetric ==
  ASSUME NEW a, NEW c, NEW p, NEW q, Linked(a, c, p, q)
  PROVE  Linked(a, c, q, p)
BY DEF Linked, Adjacent

\* A group is closed under Linked, and the least closed set around its Pod.
LEMMA GroupClosed ==
  ASSUME NEW a, NEW c, NEW p
  PROVE  Closed(a, c, Group(a, c, p))
<1> SUFFICES ASSUME NEW x \in Group(a, c, p), NEW y \in DOMAIN a,
                    Linked(a, c, x, y)
             PROVE  y \in Group(a, c, p)
  BY DEF Closed
<1>1. ASSUME NEW S \in SUBSET DOMAIN a, p \in S, Closed(a, c, S)
      PROVE  y \in S
  <2>1. x \in S
    BY <1>1 DEF Group
  <2> QED
    BY <1>1, <2>1 DEF Closed
<1> QED
  BY <1>1 DEF Group

LEMMA GroupLeast ==
  ASSUME NEW a, NEW c, NEW p, NEW S \in SUBSET DOMAIN a, p \in S,
         Closed(a, c, S)
  PROVE  Group(a, c, p) \subseteq S
BY DEF Group

\* A coloured Pod is in its group, and its group has its colour.
LEMMA GroupSelf ==
  ASSUME NEW a, NEW c, NEW p \in DOMAIN a, c[p] # ColorWhite
  PROVE  p \in Group(a, c, p)
BY DEF Group

LEMMA GroupMonochrome ==
  ASSUME NEW a, NEW c, NEW p \in DOMAIN a, NEW q \in Group(a, c, p)
  PROVE  c[q] = c[p]
<1> DEFINE S == { r \in DOMAIN a : c[r] = c[p] }
<1>1. Closed(a, c, S)
  BY DEF Closed, Linked
<1>2. Group(a, c, p) \subseteq S
  BY <1>1, GroupLeast
<1> QED
  BY <1>2

\* The complement of a closed set is closed, so a Pod of p's group cannot be
\* separated from p.
LEMMA GroupSame ==
  ASSUME NEW a, NEW c, NEW p \in DOMAIN a, NEW q \in Group(a, c, p)
  PROVE  Group(a, c, q) = Group(a, c, p)
<1>1. Group(a, c, q) \subseteq Group(a, c, p)
  <2>1. Group(a, c, p) \in SUBSET DOMAIN a
    BY DEF Group
  <2> QED
    BY <2>1, GroupClosed, GroupLeast
<1>2. Group(a, c, p) \subseteq Group(a, c, q)
  <2> DEFINE T == DOMAIN a \ Group(a, c, q)
  <2>1. Closed(a, c, T)
    <3> SUFFICES ASSUME NEW x \in T, NEW y \in DOMAIN a, Linked(a, c, x, y),
                        y \in Group(a, c, q)
                 PROVE  FALSE
      BY DEF Closed
    <3>1. Linked(a, c, y, x)
      BY LinkedSymmetric
    <3>2. x \in Group(a, c, q)
      BY <3>1, GroupClosed DEF Closed
    <3> QED
      BY <3>2
  <2>2. q \in Group(a, c, q)
    BY GroupSelf, GroupMonochrome DEF Group
  <2>3. p \in Group(a, c, q)
    <3> SUFFICES ASSUME p \in T
                 PROVE  FALSE
      BY DEF T
    <3>1. Group(a, c, p) \subseteq T
      BY <2>1, GroupLeast
    <3> QED
      BY <2>2, <3>1
  <2>4. Group(a, c, q) \in SUBSET DOMAIN a
    BY DEF Group
  <2> QED
    BY <2>3, <2>4, GroupClosed, GroupLeast
<1> QED
  BY <1>1, <1>2

-----------------------------------------------------------------------------
(***************************************************************************)
(* Counting.                                                               *)
(***************************************************************************)
\* Two sets without a common element.
LEMMA DisjointUnion ==
  ASSUME NEW S, NEW T, IsFiniteSet(S), IsFiniteSet(T), S \cap T = {}
  PROVE  Cardinality(S \cup T) = Cardinality(S) + Cardinality(T)
<1>1. Cardinality(S \cap T) = 0
  BY FS_EmptySet
<1>2. Cardinality(S) \in Nat /\ Cardinality(T) \in Nat
  BY FS_CardinalityType
<1>3. Cardinality(S \cup T) = Cardinality(S) + Cardinality(T) - Cardinality(S \cap T)
  BY FS_Union
<1> QED
  BY <1>1, <1>2, <1>3

\* Only Pods on the field are erasable, and if any is, then so are at least
\* `threshold` of them: its whole group.
LEMMA ErasableOnField ==
  ASSUME NEW a, NEW c, NEW k
  PROVE  Erasable(a, c, k) \subseteq DOMAIN a
BY DEF Erasable

LEMMA ErasableIsEnough ==
  ASSUME NEW a, NEW c, NEW k \in Nat, IsFiniteSet(DOMAIN a),
         Erasable(a, c, k) # {}
  PROVE  Cardinality(Erasable(a, c, k)) >= k
<1>1. PICK p \in DOMAIN a : c[p] # ColorWhite /\ Cardinality(Group(a, c, p)) >= k
  BY DEF Erasable
<1>2. Group(a, c, p) \subseteq Erasable(a, c, k)
  <2> SUFFICES ASSUME NEW q \in Group(a, c, p)
               PROVE  q \in Erasable(a, c, k)
    OBVIOUS
  <2>1. q \in DOMAIN a
    BY DEF Group
  <2>2. c[q] # ColorWhite /\ Group(a, c, q) = Group(a, c, p)
    BY <1>1, GroupMonochrome, GroupSame
  <2> QED
    BY <1>1, <2>1, <2>2 DEF Erasable
<1>3. IsFiniteSet(Erasable(a, c, k)) /\ IsFiniteSet(Group(a, c, p))
  <2>1. Erasable(a, c, k) \in SUBSET DOMAIN a /\ Group(a, c, p) \in SUBSET DOMAIN a
    BY DEF Erasable, Group
  <2> QED
    BY <2>1, FS_Subset
<1>4. Cardinality(Group(a, c, p)) <= Cardinality(Erasable(a, c, k))
  BY <1>2, <1>3, FS_Subset
<1>5. /\ Cardinality(Group(a, c, p)) \in Nat
      /\ Cardinality(Erasable(a, c, k)) \in Nat
  BY <1>3, FS_CardinalityType
<1> QED
  BY <1>1, <1>4, <1>5
=============================================================================
