---------------------------- MODULE PairUIProofs ----------------------------
(***************************************************************************)
(* Proofs about the pair a player operates, for any number of columns, any *)
(* height and any number of pairs: it is drawn on free cells, what is sent *)
(* is what was drawn, and is accepted if nothing grew.                     *)
(***************************************************************************)
EXTENDS PairUI, SequenceTheorems, FiniteSetTheorems, WellFoundedInduction, TLAPS

-----------------------------------------------------------------------------
(***************************************************************************)
(* The least and the greatest of a set.                                    *)
(***************************************************************************)
LEMMA MinIsLeast ==
  ASSUME NEW S \in SUBSET Nat, S # {}
  PROVE  Min(S) \in S /\ \A n \in S : Min(S) <= n
<1> DEFINE R == OpToRel(<, Nat)
<1>1. IsWellFoundedOn(R, Nat)
  BY NatLessThanWellFounded
<1>2. \A x, y \in Nat : << x, y >> \in R <=> x < y
  BY DEF OpToRel
<1> HIDE DEF R
<1>3. PICK x \in S : \A y \in S : ~ (<< y, x >> \in R)
  BY <1>1, WFMin
<1>4. ASSUME NEW y \in S PROVE x <= y
  <2>1. ~(y < x) /\ x \in Nat /\ y \in Nat
    BY <1>2, <1>3
  <2> QED
    BY <2>1
<1> QED
  BY <1>4 DEF Min

-----------------------------------------------------------------------------
(***************************************************************************)
(* The pair on a field.                                                    *)
(***************************************************************************)
Heights == [Columns -> 0 .. Ceiling]

\* A pair that need not be on the grid.
Loose == [col : Int, row : Int, rot : 0 .. 3, key : {0} \cup Names]

InGrid(p) ==
  /\ p.row \in 0 .. Rows - 1
  /\ SatCol(p) \in Columns /\ SatRow(p) \in 0 .. Rows - 1

LEMMA Sizes ==
  /\ Cols \in Nat /\ Cols >= 1 /\ MaxHeight \in Nat /\ MaxHeight >= 1
  /\ Ceiling \in Nat /\ MaxPairs \in Nat /\ MaxChanges \in Nat
  /\ Rows = MaxHeight + 2 /\ Off = MaxHeight + 3
BY PairUIAssumption DEF Rows, SkyRows, Off

LEMMA LoosePairs == Pair \subseteq Loose
BY Sizes DEF Pair, Loose, Columns

LEMMA Satellite ==
  ASSUME NEW p \in Loose
  PROVE  /\ p.rot = 0 => SatCol(p) = p.col /\ SatRow(p) = p.row + 1
         /\ p.rot = 1 => SatCol(p) = p.col + 1 /\ SatRow(p) = p.row
         /\ p.rot = 2 => SatCol(p) = p.col /\ SatRow(p) = p.row - 1
         /\ p.rot = 3 => SatCol(p) = p.col - 1 /\ SatRow(p) = p.row
         /\ p.rot \in {0, 1, 2, 3} /\ SatCol(p) \in Int /\ SatRow(p) \in Int
<1>1. p.rot \in {0, 1, 2, 3} /\ p.col \in Int /\ p.row \in Int
  BY DEF Loose
<1> QED
  BY <1>1 DEF SatCol, SatRow

\* A pair that fits is on the grid.
LEMMA FitsInGrid ==
  ASSUME NEW h \in Heights, NEW p \in Loose, PairFits(h, p)
  PROVE  p \in Pair /\ InGrid(p)
<1>1. /\ p.col \in Columns /\ p.row \in h[p.col] .. Rows - 1
      /\ SatCol(p) \in Columns /\ SatRow(p) \in h[SatCol(p)] .. Rows - 1
  BY DEF PairFits, CellFree
<1>2. h[p.col] \in Nat /\ h[SatCol(p)] \in Nat
  BY <1>1 DEF Heights
<1>3. p.row \in 0 .. Rows - 1 /\ SatRow(p) \in 0 .. Rows - 1 /\ p.row \in 0 .. Off
  BY <1>1, <1>2, Sizes
<1> QED
  BY <1>1, <1>3 DEF Pair, Loose, InGrid

LEMMA ShiftedLoose ==
  ASSUME NEW p \in Loose, NEW dc \in Int, NEW dr \in Int
  PROVE  /\ Shifted(p, dc, dr) \in Loose
         /\ Shifted(p, dc, dr).col = p.col + dc /\ Shifted(p, dc, dr).row = p.row + dr
         /\ Shifted(p, dc, dr).rot = p.rot /\ Shifted(p, dc, dr).key = p.key
<1>1. p.col \in Int /\ p.row \in Int /\ p.rot \in 0 .. 3 /\ p.key \in {0} \cup Names
  BY DEF Loose
<1>2. p.col + dc \in Int /\ p.row + dr \in Int
  BY <1>1
<1> DEFINE q == [p EXCEPT !.col = p.col + dc, !.row = p.row + dr]
<1>3. Shifted(p, dc, dr) = q
  BY DEF Shifted
<1>4. q \in Loose /\ q.col = p.col + dc /\ q.row = p.row + dr /\ q.rot = p.rot /\ q.key = p.key
  BY <1>2 DEF Loose
<1> QED
  BY <1>3, <1>4

LEMMA TurnedLoose ==
  ASSUME NEW p \in Loose, NEW quarters \in Nat
  PROVE  /\ [p EXCEPT !.rot = (@ + quarters) % 4] \in Loose
         /\ [p EXCEPT !.rot = (@ + quarters) % 4].key = p.key
<1>1. p.rot + quarters \in Nat
  BY DEF Loose
<1>2. (p.rot + quarters) % 4 \in 0 .. 3
  BY <1>1
<1> QED
  BY <1>2 DEF Loose

LEMMA RowLoose ==
  ASSUME NEW p \in Loose, NEW r \in Int
  PROVE  /\ [p EXCEPT !.row = r] \in Loose
         /\ [p EXCEPT !.row = r].row = r /\ [p EXCEPT !.row = r].key = p.key
         /\ [p EXCEPT !.row = r].col = p.col /\ [p EXCEPT !.row = r].rot = p.rot
         /\ SatCol([p EXCEPT !.row = r]) = SatCol(p)
BY DEF Loose, SatCol

-----------------------------------------------------------------------------
(***************************************************************************)
(* Moves, turns and falls end where the pair fits, or leave it alone.      *)
(***************************************************************************)
\* p has become q.
FitsOrSame(h, p, q) == q.key = p.key /\ (q = p \/ (q \in Loose /\ PairFits(h, q)))

LEMMA MoveFits ==
  ASSUME NEW h \in Heights, NEW p \in Loose, NEW dc \in Int, NEW dr \in Int
  PROVE  FitsOrSame(h, p, TryMove(h, p, dc, dr))
BY ShiftedLoose DEF TryMove, FitsOrSame

LEMMA KicksLoose ==
  ASSUME NEW h \in Heights, NEW np \in Loose
  PROVE  /\ DOMAIN Kicks(h, np) \subseteq Nat
         /\ \A i \in DOMAIN Kicks(h, np) :
              Kicks(h, np)[i] \in Loose /\ Kicks(h, np)[i].key = np.key
<1> DEFINE up == Shifted(np, 0, 1)
           down == Shifted(np, 0, -1)
           off == Shifted(np, np.col - SatCol(np), 0)
           Same == { p \in Loose : p.key = np.key }
<1>1. np.col - SatCol(np) \in Int
  BY Satellite DEF Loose
<1>2. np \in Same /\ up \in Same /\ down \in Same /\ off \in Same
  BY <1>1, ShiftedLoose
<1>3. np.rot \in {0, 1, 2, 3}
  BY Satellite
<1>4. \/ Kicks(h, np) = << np, down >>
      \/ Kicks(h, np) = << np, up >>
      \/ Kicks(h, np) = << np, up, off >>
      \/ Kicks(h, np) = << np, off >>
  BY <1>3 DEF Kicks
<1> HIDE DEF up, down, off
<1>5. \A x, y \in Same : /\ DOMAIN << x, y >> \subseteq Nat
                         /\ \A i \in DOMAIN << x, y >> : << x, y >>[i] \in Same
  OBVIOUS
<1>6. \A x, y, z \in Same :
        /\ DOMAIN << x, y, z >> \subseteq Nat
        /\ \A i \in DOMAIN << x, y, z >> : << x, y, z >>[i] \in Same
  OBVIOUS
<1> HIDE DEF Same
<1>7. /\ DOMAIN Kicks(h, np) \subseteq Nat
      /\ \A i \in DOMAIN Kicks(h, np) : Kicks(h, np)[i] \in Same
  BY <1>2, <1>4, <1>5, <1>6
<1> QED
  BY <1>7 DEF Same

LEMMA RotateFits ==
  ASSUME NEW h \in Heights, NEW p \in Loose, NEW quarters \in Nat
  PROVE  FitsOrSame(h, p, TryRotate(h, p, quarters))
<1> DEFINE np == [p EXCEPT !.rot = (@ + quarters) % 4]
           tries == Kicks(h, np)
           fitting == { i \in DOMAIN tries : PairFits(h, tries[i]) }
<1>1. np \in Loose /\ np.key = p.key
  BY TurnedLoose
<1>2. /\ DOMAIN tries \subseteq Nat
      /\ \A i \in DOMAIN tries : tries[i] \in Loose /\ tries[i].key = np.key
  BY <1>1, KicksLoose
<1>3. TryRotate(h, p, quarters) = IF fitting = {} THEN p ELSE tries[Min(fitting)]
  BY DEF TryRotate
<1> HIDE DEF np, tries
<1>4. CASE fitting = {}
  BY <1>3, <1>4 DEF FitsOrSame
<1>5. CASE fitting # {}
  <2>1. Min(fitting) \in fitting
    BY <1>2, <1>5, MinIsLeast
  <2>2. /\ tries[Min(fitting)] \in Loose /\ tries[Min(fitting)].key = p.key
        /\ PairFits(h, tries[Min(fitting)])
    BY <1>1, <1>2, <2>1
  <2> QED
    BY <1>3, <1>5, <2>2 DEF FitsOrSame
<1> QED
  BY <1>4, <1>5

LEMMA FallFits ==
  ASSUME NEW h \in Heights, NEW p \in Loose
  PROVE  /\ FitsOrSame(h, p, Fallen(h, p))
         /\ Fallen(h, p).col = p.col /\ Fallen(h, p).rot = p.rot
<1> DEFINE rows == { r \in 0 .. p.row : PairFits(h, [p EXCEPT !.row = r]) }
<1>1. CASE ~PairFits(h, Shifted(p, 0, -1))
  BY <1>1 DEF Fallen, FitsOrSame
<1>2. CASE PairFits(h, Shifted(p, 0, -1))
  <2>1. Fallen(h, p) = [p EXCEPT !.row = Min(rows)]
    BY <1>2 DEF Fallen
  <2>2. Shifted(p, 0, -1) \in Loose /\ Shifted(p, 0, -1) = [p EXCEPT !.row = p.row - 1]
    <3>1. p.col \in Int /\ p.row \in Int
      BY DEF Loose
    <3>2. p.col + 0 = p.col /\ p.row + (-1) = p.row - 1
      BY <3>1
    <3>3. [p EXCEPT !.col = p.col, !.row = p.row - 1] = [p EXCEPT !.row = p.row - 1]
      BY DEF Loose
    <3>4. Shifted(p, 0, -1) = [p EXCEPT !.col = p.col, !.row = p.row - 1]
      BY <3>2 DEF Shifted
    <3>5. Shifted(p, 0, -1) \in Loose
      BY ShiftedLoose
    <3> QED
      BY <3>3, <3>4, <3>5
  <2>3. InGrid(Shifted(p, 0, -1)) /\ Shifted(p, 0, -1).row = p.row - 1 /\ p.row \in Int
    BY <1>2, <2>2, FitsInGrid, ShiftedLoose DEF Loose
  <2>4. p.row - 1 \in 0 .. p.row
    BY <2>3, Sizes DEF InGrid
  <2>5. p.row - 1 \in rows
    BY <1>2, <2>2, <2>4
  <2>6. rows \subseteq Nat
    BY <2>3
  <2> HIDE DEF rows
  <2>7. Min(rows) \in rows
    BY <2>5, <2>6, MinIsLeast
  <2>8. Min(rows) \in Int /\ PairFits(h, [p EXCEPT !.row = Min(rows)])
    BY <2>6, <2>7 DEF rows
  <2> QED
    BY <2>1, <2>8, RowLoose DEF FitsOrSame
<1> QED
  BY <1>1, <1>2

-----------------------------------------------------------------------------
(***************************************************************************)
(* A frame lifts the pair until it fits.                                   *)
(***************************************************************************)
OverHeight(f) == \E c \in Columns : f.height[c] > MaxHeight

\* The pair is on the grid, or was lifted out of it.
PairOK(p, over) ==
  p \in Pair /\ SatCol(p) \in Columns /\ (InGrid(p) \/ (p.row = Off /\ over))

\* The pair belongs to f; old and over are `pair` and `overfull` before the step.
Good(f, old, over, q) ==
  /\ q \in Pair /\ q.key = Head(f.queue) /\ SatCol(q) \in Columns
  /\ \/ PairFits(f.height, q)
     \/ q.row = Off /\ ((over /\ old.key = q.key) \/ OverHeight(f))

\* On columns of at most MaxHeight some row from the pair's own up is free.
LEMMA RoomAbove ==
  ASSUME NEW h \in Heights, NEW q \in Pair, InGrid(q), SatCol(q) \in Columns,
         \A c \in Columns : h[c] <= MaxHeight
  PROVE  \E r \in q.row .. Rows : PairFits(h, [q EXCEPT !.row = r])
<1> DEFINE floor == IF q.rot = 2 THEN MaxHeight + 1 ELSE MaxHeight
           r == IF q.row >= floor THEN q.row ELSE floor
<1>1. q \in Loose /\ q.row \in 0 .. Rows - 1 /\ SatRow(q) \in 0 .. Rows - 1 /\ q.col \in Columns
  BY LoosePairs DEF InGrid, Pair
<1>2. r \in Int /\ r >= floor /\ r >= q.row /\ r <= Rows - 1 /\ (r = q.row \/ r = floor)
  BY <1>1, Sizes
<1> DEFINE t == [q EXCEPT !.row = r]
<1>3. /\ t \in Loose /\ t.row = r /\ t.col = q.col /\ t.rot = q.rot
      /\ SatCol(t) = SatCol(q)
  BY <1>1, <1>2, RowLoose
<1>4. h[q.col] \in Nat /\ h[SatCol(q)] \in Nat
      /\ h[q.col] <= MaxHeight /\ h[SatCol(q)] <= MaxHeight
  BY <1>1 DEF Heights
<1>5. /\ t.rot = 0 => SatRow(t) = r + 1 /\ SatRow(q) = q.row + 1
      /\ t.rot = 1 => SatRow(t) = r
      /\ t.rot = 2 => SatRow(t) = r - 1
      /\ t.rot = 3 => SatRow(t) = r
      /\ t.rot \in {0, 1, 2, 3}
  BY <1>1, <1>3, Satellite
<1>6. SatRow(t) \in MaxHeight .. Rows - 1 /\ r \in MaxHeight .. Rows - 1
  <2>1. CASE t.rot = 0
    BY <2>1, <1>1, <1>2, <1>3, <1>5, Sizes
  <2>2. CASE t.rot = 2
    BY <2>2, <1>1, <1>2, <1>3, <1>5, Sizes
  <2>3. CASE t.rot \in {1, 3}
    BY <2>3, <1>1, <1>2, <1>3, <1>5, Sizes
  <2> QED
    BY <1>5, <2>1, <2>2, <2>3
<1> HIDE DEF r
<1>7. t.row \in h[t.col] .. Rows - 1 /\ SatRow(t) \in h[SatCol(t)] .. Rows - 1
  BY <1>3, <1>4, <1>6, Sizes
<1>8. PairFits(h, t)
  BY <1>1, <1>3, <1>7 DEF PairFits, CellFree
<1>9. r \in q.row .. Rows
  BY <1>1, <1>2, Sizes
<1> QED
  BY <1>8, <1>9

\* What SyncPair does to the pair q that belongs to the frame.
Lifted(f, q) ==
  [q EXCEPT !.row = Min({ r \in q.row .. Rows : PairFits(f.height, [q EXCEPT !.row = r]) }
                        \cup {Off})]

LEMMA LiftedIsGood ==
  ASSUME NEW f \in Frame, NEW q \in Pair, NEW old, NEW over,
         q.key = Head(f.queue), SatCol(q) \in Columns,
         InGrid(q) \/ (q.row = Off /\ over /\ old.key = q.key)
  PROVE  /\ Good(f, old, over, Lifted(f, q))
         /\ Lifted(f, q).col = q.col /\ Lifted(f, q).rot = q.rot
<1> DEFINE rows == { r \in q.row .. Rows : PairFits(f.height, [q EXCEPT !.row = r]) }
           r == Min(rows \cup {Off})
<1>1. f.height \in Heights
  BY DEF Frame, Heights
<1>2. q \in Loose /\ q.row \in Nat /\ Off \in Nat
  BY LoosePairs, Sizes DEF Pair
<1>3. rows \cup {Off} \in SUBSET Nat
  BY <1>2
<1>4. Lifted(f, q) = [q EXCEPT !.row = r]
  BY DEF Lifted
<1>5. r \in rows \cup {Off} /\ \A n \in rows : r <= n
  <2> HIDE DEF rows
  <2> QED
    BY <1>3, MinIsLeast
<1> HIDE DEF r
<1>6. r \in 0 .. Off
  BY <1>2, <1>5, Sizes
<1> DEFINE t == [q EXCEPT !.row = r]
<1>7. /\ t \in Pair /\ t.key = q.key /\ t.col = q.col /\ t.rot = q.rot /\ t.row = r
      /\ SatCol(t) = SatCol(q)
  BY <1>2, <1>6, RowLoose DEF Pair
<1>8. PairFits(f.height, t) \/ (r = Off /\ ((over /\ old.key = q.key) \/ OverHeight(f)))
  <2>1. CASE r \in rows
    BY <2>1
  <2>2. CASE r \notin rows
    <3>1. r = Off
      BY <1>5, <2>2
    <3>2. rows = {}
      <4>1. \A n \in rows : n <= Rows /\ n \in Int
        BY <1>2, Sizes
      <4> HIDE DEF rows
      <4>2. \A n \in rows : Off <= n
        BY <1>5, <3>1
      <4> QED
        BY <4>1, <4>2, Sizes
    <3>3. CASE InGrid(q)
      <4>1. ~(\A c \in Columns : f.height[c] <= MaxHeight)
        BY <1>1, <3>2, <3>3, RoomAbove
      <4>2. PICK c \in Columns : ~(f.height[c] <= MaxHeight)
        BY <4>1
      <4>3. f.height[c] \in Nat
        BY <1>1 DEF Heights
      <4> QED
        BY <3>1, <4>2, <4>3, Sizes DEF OverHeight
    <3> QED
      BY <3>1, <3>3
  <2> QED
    BY <2>1, <2>2
<1> QED
  BY <1>4, <1>7, <1>8 DEF Good

\* The pair after a frame, or as keydown finds it, is good.
LEMMA SyncIsGood ==
  ASSUME NEW f \in Frame, f.queue # << >>, NEW p, NEW over, PairOK(p, over)
  PROVE  /\ Good(f, p, over, SyncPair(f, p))
         /\ p.key = Head(f.queue) =>
              SyncPair(f, p).col = p.col /\ SyncPair(f, p).rot = p.rot
<1>1. Head(f.queue) \in Names
  BY HeadTailProperties DEF Frame
<1>2. CASE p.key = Head(f.queue)
  <2>1. SyncPair(f, p) = Lifted(f, p)
    BY <1>2 DEF SyncPair, Lifted
  <2> QED
    BY <1>2, <2>1, LiftedIsGood DEF PairOK
<1>3. CASE p.key # Head(f.queue)
  <2> DEFINE q == Spawns(f)
  <2>1. SyncPair(f, p) = Lifted(f, q)
    BY <1>3 DEF SyncPair, Lifted
  <2>2. (Cols - 1) \div 2 \in Columns
    BY Sizes DEF Columns
  <2>3. /\ q.col = (Cols - 1) \div 2 /\ q.row = MaxHeight /\ q.rot = 0
        /\ q.key = Head(f.queue)
    BY DEF Spawns
  <2>4. MaxHeight \in 0 .. Off /\ MaxHeight \in 0 .. Rows - 1 /\ MaxHeight + 1 \in 0 .. Rows - 1
    BY Sizes
  <2>5. q \in Pair
    BY <1>1, <2>2, <2>4 DEF Pair, Spawns
  <2>6. SatCol(q) = q.col /\ SatRow(q) = q.row + 1
    BY <2>3, <2>5, LoosePairs, Satellite
  <2>7. InGrid(q) /\ SatCol(q) \in Columns
    BY <2>2, <2>3, <2>4, <2>6 DEF InGrid
  <2> HIDE DEF q
  <2> QED
    BY <1>3, <2>1, <2>3, <2>5, <2>7, LiftedIsGood
<1> QED
  BY <1>2, <1>3

\* Drawing it again does not move it.
LEMMA SyncedStays ==
  ASSUME NEW f \in Frame, NEW old, NEW over, NEW q, Good(f, old, over, q)
  PROVE  SyncPair(f, q) = q
<1> DEFINE rows == { r \in q.row .. Rows : PairFits(f.height, [q EXCEPT !.row = r]) }
<1>1. q \in Loose /\ q.row \in Nat /\ Off \in Nat /\ f.height \in Heights
  BY LoosePairs, Sizes DEF Pair, Good, Frame, Heights
<1>2. SyncPair(f, q) = [q EXCEPT !.row = Min(rows \cup {Off})]
  BY DEF Good, SyncPair
<1>3. rows \cup {Off} \in SUBSET Nat /\ rows \cup {Off} # {}
  BY <1>1
<1>4. [q EXCEPT !.row = q.row] = q
  BY DEF Good, Pair
<1>5. CASE PairFits(f.height, q)
  <2>1. q.row \in 0 .. Rows - 1
    BY <1>1, <1>5, FitsInGrid DEF InGrid
  <2>2. q.row \in q.row .. Rows
    BY <2>1, Sizes
  <2>3. q.row \in rows
    BY <1>4, <1>5, <2>2
  <2>4. \A n \in rows \cup {Off} : q.row <= n
    BY <1>1, <2>1, Sizes
  <2> HIDE DEF rows
  <2>5. Min(rows \cup {Off}) \in rows \cup {Off} /\ \A n \in rows \cup {Off} : Min(rows \cup {Off}) <= n
    BY <1>3, MinIsLeast
  <2>6. Min(rows \cup {Off}) <= q.row /\ q.row <= Min(rows \cup {Off})
        /\ Min(rows \cup {Off}) \in Nat
    BY <1>3, <2>3, <2>4, <2>5
  <2>7. Min(rows \cup {Off}) = q.row
    BY <1>1, <2>6
  <2> QED
    BY <1>2, <1>4, <2>7
<1>6. CASE q.row = Off
  <2>1. \A r \in q.row .. Rows : FALSE
    BY <1>6, Sizes
  <2>2. rows = {}
    BY <2>1
  <2> HIDE DEF rows
  <2>3. Min(rows \cup {Off}) \in rows \cup {Off}
    BY <1>3, MinIsLeast
  <2> QED
    BY <1>2, <1>4, <1>6, <2>2, <2>3
<1> QED
  BY <1>5, <1>6 DEF Good

LEMMA GoodMoves ==
  ASSUME NEW f \in Frame, NEW old, NEW over, NEW p, NEW q,
         Good(f, old, over, p), FitsOrSame(f.height, p, q)
  PROVE  Good(f, old, over, q)
<1>1. CASE q = p
  BY <1>1
<1>2. CASE q \in Loose /\ PairFits(f.height, q) /\ q.key = p.key
  <2>1. f.height \in Heights
    BY DEF Frame, Heights
  <2> QED
    BY <1>2, <2>1, FitsInGrid DEF Good, InGrid
<1> QED
  BY <1>1, <1>2 DEF FitsOrSame

\* A good pair is on the grid or was lifted, after Set.
LEMMA GoodIsOK ==
  ASSUME NEW f \in Frame, NEW old, NEW over, NEW q, Good(f, old, over, q)
  PROVE  PairOK(q, (over /\ old.key = q.key) \/ OverHeight(f))
<1>1. q \in Loose /\ f.height \in Heights
  BY LoosePairs DEF Good, Frame, Heights
<1>2. CASE PairFits(f.height, q)
  BY <1>1, <1>2, FitsInGrid DEF Good, PairOK
<1>3. CASE q.row = Off /\ ((over /\ old.key = q.key) \/ OverHeight(f))
  BY <1>3 DEF Good, PairOK
<1> QED
  BY <1>2, <1>3 DEF Good

-----------------------------------------------------------------------------
(***************************************************************************)
(* Placements and what they do to the field.                               *)
(***************************************************************************)
Placement == [pod : Names, node : Columns]

LEMMA MaxIsGreatest ==
  ASSUME NEW n \in Nat, NEW S \in SUBSET (0 .. n), S # {}
  PROVE  Max(S) \in S /\ \A m \in S : m <= Max(S)
<1> DEFINE D == { n - m : m \in S }
<1>0. \A m \in S : m \in Int /\ 0 <= m /\ m <= n
  OBVIOUS
<1>1. D \in SUBSET Nat /\ D # {}
  <2>1. \A m \in S : n - m \in Nat
    BY <1>0
  <2> QED
    BY <2>1
<1>2. Min(D) \in D /\ \A d \in D : Min(D) <= d
  <2> HIDE DEF D
  <2> QED
    BY <1>1, MinIsLeast
<1>3. PICK x \in S : Min(D) = n - x
  BY <1>2
<1>4. \A m \in S : n - m \in D
  OBVIOUS
<1>5. \A m \in S : m <= x
  <2> TAKE m \in S
  <2>1. n - x <= n - m
    BY <1>2, <1>3, <1>4
  <2>2. m \in Int /\ x \in Int
    OBVIOUS
  <2> QED
    BY <2>1, <2>2
<1>6. \A y \in S : y \in Int
  OBVIOUS
<1> QED
  BY <1>5, <1>6 DEF Max

LEMMA CountInSeq ==
  ASSUME NEW pl \in Seq(Placement), NEW c
  PROVE  Cardinality({ i \in DOMAIN pl : pl[i].node = c }) \in Nat
<1> DEFINE D == { i \in DOMAIN pl : pl[i].node = c }
<1>1. DOMAIN pl = 1 .. Len(pl) /\ Len(pl) \in Nat
  BY LenProperties
<1>2. D \in SUBSET (1 .. Len(pl)) /\ IsFiniteSet(1 .. Len(pl))
  BY <1>1, FS_Interval
<1> HIDE DEF D
<1>3. IsFiniteSet(D)
  BY <1>2, FS_Subset
<1>4. Cardinality(D) \in Nat
  BY <1>3, FS_CardinalityType
<1> QED
  BY <1>4 DEF D

\* Placements that are accepted leave the columns they use within MaxHeight.
LEMMA AcceptedFits ==
  ASSUME NEW pl \in Seq(Placement), Accepts(pl), height \in Heights
  PROVE  [c \in Columns |->
            height[c] + Cardinality({ i \in DOMAIN pl : pl[i].node = c })] \in Heights
<1> SUFFICES ASSUME NEW c \in Columns
             PROVE  height[c] + Cardinality({ i \in DOMAIN pl : pl[i].node = c }) \in 0 .. Ceiling
  BY DEF Heights
<1> DEFINE D == { i \in DOMAIN pl : pl[i].node = c }
<1>1. DOMAIN pl = 1 .. Len(pl) /\ Len(pl) \in Nat
  BY LenProperties
<1>2. height[c] \in 0 .. Ceiling /\ Cardinality(D) \in Nat
  BY CountInSeq DEF Heights
<1>3. CASE D = {}
  <2>1. Cardinality(D) = 0
    BY <1>3, FS_EmptySet
  <2>2. height[c] + 0 \in 0 .. Ceiling
    BY <1>2, Sizes
  <2> QED
    BY <2>1, <2>2
<1>4. CASE D # {}
  <2>1. D \in SUBSET (0 .. Len(pl))
    BY <1>1
  <2>2. Max(D) \in D /\ \A i \in D : i <= Max(D)
    <3> HIDE DEF D
    <3> QED
      BY <1>1, <1>4, <2>1, MaxIsGreatest
  <2>3. PICK m \in D : m = Max(D)
    BY <2>2
  <2>4. m \in DOMAIN pl /\ pl[m].node = c /\ m \in 1 .. Len(pl) /\ \A i \in D : i <= m
    BY <1>1, <2>2, <2>3
  <2>5. D = { j \in 1 .. m : pl[j].node = pl[m].node }
    BY <1>1, <2>4
  <2>6. height[c] + Cardinality(D) <= MaxHeight
    BY <2>4, <2>5 DEF Accepts, Stacked
  <2> HIDE DEF D
  <2>7. Cardinality(D) \in Nat /\ height[c] + Cardinality(D) \in Nat
    BY <1>2
  <2>8. Ceiling >= MaxHeight
    BY PairUIAssumption
  <2> QED
    BY <2>6, <2>7, <2>8, Sizes DEF D
<1> QED
  BY <1>3, <1>4

\* Of accepted placements the first alone is accepted, too.
LEMMA FirstAccepted ==
  ASSUME NEW pl \in Seq(Placement), Len(pl) = 2, Accepts(pl)
  PROVE  << pl[1] >> \in Seq(Placement) /\ Accepts(<< pl[1] >>)
<1>1. pl[1] \in Placement /\ 1 \in DOMAIN pl
  BY LenProperties, ElementOfSeq
<1> DEFINE one == << pl[1] >>
<1>2. DOMAIN one = {1} /\ one[1] = pl[1]
  OBVIOUS
<1>3. { j \in 1 .. 1 : one[j].node = one[1].node } = { j \in 1 .. 1 : pl[j].node = pl[1].node }
  BY <1>2
<1>4. Stacked(one, 1) = Stacked(pl, 1)
  BY <1>3 DEF Stacked
<1>5. pl[1].pod \in ToSet(queue) /\ height[pl[1].node] + Stacked(pl, 1) <= MaxHeight
  BY <1>1 DEF Accepts
<1> QED
  BY <1>1, <1>2, <1>4, <1>5 DEF Accepts

-----------------------------------------------------------------------------
(***************************************************************************)
(* The queue.                                                              *)
(***************************************************************************)
Distinct(q) == Len(q) = 2 => q[1] # q[2]

Queues == { q \in Seq(Names) : Len(q) <= 2 /\ Distinct(q) }

LEMMA QueueTyped ==
  ASSUME NEW q \in Queues
  PROVE  q \in Seq(Names) /\ Len(q) \in 0 .. 2 /\ DOMAIN q = 1 .. Len(q) /\ Distinct(q)
<1>1. q \in Seq(Names) /\ Len(q) <= 2 /\ Distinct(q)
  BY DEF Queues
<1>2. Len(q) \in Nat /\ DOMAIN q = 1 .. Len(q)
  BY <1>1, LenProperties
<1> QED
  BY <1>1, <1>2

\* What Bound leaves of the queue.
LEMMA StretchOfQueue ==
  ASSUME NEW q \in Queues, NEW left \in SUBSET DOMAIN q
  PROVE  (IF left = {} THEN << >> ELSE SubSeq(q, Min(left), Max(left))) \in Queues
<1>1. q \in Seq(Names) /\ Len(q) \in 0 .. 2 /\ DOMAIN q = 1 .. Len(q) /\ Distinct(q)
  BY QueueTyped
<1>2. CASE left = {}
  BY <1>2, EmptySeq DEF Queues, Distinct
<1>3. CASE left # {}
  <2>1. left \in SUBSET Nat /\ left \in SUBSET (0 .. 2) /\ 2 \in Nat
    BY <1>1
  <2>2. Min(left) \in left /\ Max(left) \in left /\ Min(left) <= Max(left)
    BY <1>3, <2>1, MinIsLeast, MaxIsGreatest
  <2> DEFINE m == Min(left)  n == Max(left)
  <2> HIDE DEF m, n
  <2>3. m \in 1 .. Len(q) /\ n \in 1 .. Len(q) /\ m <= n
    BY <1>1, <2>2 DEF m, n
  <2>4. m \in Int /\ n \in Int /\ \A i \in m .. n : q[i] \in Names
    BY <1>1, <2>3, ElementOfSeq
  <2>5. /\ SubSeq(q, m, n) \in Seq(Names) /\ Len(SubSeq(q, m, n)) = n - m + 1
        /\ \A i \in 1 .. n - m + 1 : SubSeq(q, m, n)[i] = q[m + i - 1]
    BY <2>3, <2>4, SubSeqProperties
  <2>6. n - m + 1 <= 2
    BY <1>1, <2>3
  <2>7. ASSUME n - m + 1 = 2 PROVE SubSeq(q, m, n)[1] # SubSeq(q, m, n)[2]
    <3>1. m = 1 /\ n = 2 /\ Len(q) = 2
      BY <1>1, <2>3, <2>7
    <3> QED
      BY <1>1, <2>5, <3>1 DEF Distinct
  <2> QED
    BY <1>3, <2>5, <2>6, <2>7 DEF Queues, Distinct, m, n
<1> QED
  BY <1>2, <1>3

LEMMA DeletedFromQueue ==
  ASSUME NEW q \in Queues, NEW i \in DOMAIN q
  PROVE  RemoveAt(q, i) \in Queues
<1>1. q \in Seq(Names) /\ Len(q) \in 0 .. 2 /\ i \in 1 .. Len(q)
  BY QueueTyped
<1>2. \A j \in 1 .. Len(q) : q[j] \in Names
  BY <1>1, ElementOfSeq
<1>3. /\ SubSeq(q, 1, i - 1) \in Seq(Names)
      /\ Len(SubSeq(q, 1, i - 1)) = i - 1
  <2>1. \A j \in 1 .. i - 1 : q[j] \in Names
    BY <1>1, <1>2
  <2>2. i - 1 \in Int /\ (1 <= i - 1 => i - 1 - 1 + 1 = i - 1) /\ (~(1 <= i - 1) => i - 1 = 0)
    BY <1>1
  <2> QED
    BY <2>1, <2>2, SubSeqProperties
<1>4. /\ SubSeq(q, i + 1, Len(q)) \in Seq(Names)
      /\ Len(SubSeq(q, i + 1, Len(q))) = Len(q) - i
  <2>1. \A j \in i + 1 .. Len(q) : q[j] \in Names
    BY <1>1, <1>2
  <2>2. i + 1 \in Int /\ Len(q) \in Int
        /\ (i + 1 <= Len(q) => Len(q) - (i + 1) + 1 = Len(q) - i)
        /\ (~(i + 1 <= Len(q)) => Len(q) - i = 0)
    BY <1>1
  <2> QED
    BY <2>1, <2>2, SubSeqProperties
<1>5. RemoveAt(q, i) \in Seq(Names) /\ Len(RemoveAt(q, i)) = (i - 1) + (Len(q) - i)
  BY <1>3, <1>4, ConcatProperties DEF RemoveAt
<1>6. \A a \in Int : \A b \in 0 .. 2 : (a - 1) + (b - a) <= 1
  OBVIOUS
<1>7. RemoveAt(q, i) \in Seq(Names) /\ Len(RemoveAt(q, i)) <= 1
  BY <1>1, <1>5, <1>6
<1>8. Len(RemoveAt(q, i)) \in Nat
  BY <1>7, LenProperties
<1>9. Len(RemoveAt(q, i)) <= 2 /\ Len(RemoveAt(q, i)) # 2
  <2>1. \A n \in Nat : n <= 1 => n <= 2 /\ n # 2
    OBVIOUS
  <2> QED
    BY <1>7, <1>8, <2>1, Zenon
<1> QED
  BY <1>7, <1>9 DEF Queues, Distinct

-----------------------------------------------------------------------------
(***************************************************************************)
(* The invariant.                                                          *)
(***************************************************************************)
GoodFrames == { f \in Frame : f.queue \in Queues }

WorldInv ==
  /\ height \in Heights /\ queue \in Queues
  /\ spawned \in 0 .. MaxPairs /\ changes \in 0 .. MaxChanges

WireInv == wire = << >> \/ \E f \in GoodFrames : wire = << f >>

BrowserInv ==
  /\ shown \in GoodFrames /\ drawn \in Pair /\ overfull \in BOOLEAN
  /\ PairOK(pair, overfull)

\* What is drawn is the pair, on the frame shown.
DrawnInv ==
  drawn # NoPair =>
    /\ drawn.key = pair.key /\ drawn.col = pair.col /\ drawn.rot = pair.rot
    /\ drawn.key = Head(shown.queue)
    /\ PairFits(shown.height, drawn) \/ (overfull /\ drawn.row = Off)

\* Placements were checked against the frame they were made from.
RequestInv ==
  /\ dropping \in {"no", "sent", "served"}
  /\ request.placements \in Seq(Placement) /\ request.of \in Frame
  /\ dropping = "sent" =>
       /\ Len(request.placements) = 2
       /\ \A i \in 1 .. 2 :
            request.of.height[request.placements[i].node]
              + Stacked(request.placements, i) <= MaxHeight

IInv == WorldInv /\ WireInv /\ BrowserInv /\ DrawnInv /\ RequestInv

LEMMA NoFrameTyped == NoFrame \in GoodFrames /\ NoFrame.queue = << >>
<1>1. << >> \in Seq(Names) /\ Len(<< >>) = 0
  BY EmptySeq
<1>2. << >> \in Queues
  BY <1>1 DEF Queues, Distinct
<1>3. [c \in Columns |-> 0] \in [Columns -> 0 .. Ceiling]
  BY Sizes
<1> QED
  BY <1>1, <1>2, <1>3 DEF NoFrame, GoodFrames, Frame

LEMMA NoPairOK == NoPair \in Pair /\ \A over : PairOK(NoPair, over)
<1>1. 0 \in Columns /\ 0 \in 0 .. Off /\ 0 \in 0 .. Rows - 1 /\ 1 \in 0 .. Rows - 1
  BY Sizes DEF Columns
<1>2. NoPair \in Pair /\ NoPair.rot = 0 /\ NoPair.col = 0 /\ NoPair.row = 0
  BY <1>1 DEF NoPair, Pair
<1>3. SatCol(NoPair) = 0 /\ SatRow(NoPair) = 1
  BY <1>2, LoosePairs, Satellite
<1> QED
  BY <1>1, <1>2, <1>3 DEF PairOK, InGrid

LEMMA InitInv == Init => IInv
<1> SUFFICES ASSUME Init PROVE IInv
  OBVIOUS
<1>1. [c \in Columns |-> 0] \in Heights
  BY Sizes DEF Heights
<1>2. << >> \in Queues
  BY NoFrameTyped DEF GoodFrames
<1>3. WorldInv
  BY <1>1, <1>2, Sizes DEF Init, WorldInv
<1>4. BrowserInv /\ WireInv /\ DrawnInv
  BY NoFrameTyped, NoPairOK DEF Init, BrowserInv, WireInv, DrawnInv
<1>5. << >> \in Seq(Placement)
  BY EmptySeq
<1>6. RequestInv
  BY <1>5, NoFrameTyped DEF Init, RequestInv, NoRequest, GoodFrames
<1> QED
  BY <1>3, <1>4, <1>6 DEF IInv

LEMMA TypeOfInv == IInv => TypeOK
<1> SUFFICES ASSUME IInv PROVE TypeOK
  OBVIOUS
<1>1. height \in [Columns -> 0 .. Ceiling] /\ spawned \in 0 .. MaxPairs
      /\ changes \in 0 .. MaxChanges
  BY DEF IInv, WorldInv, Heights
<1>2. queue \in Seq(Names) /\ Len(queue) <= 2
  BY DEF IInv, WorldInv, Queues
<1>3. wire \in Seq(Frame)
  <2>1. CASE wire = << >>
    BY <2>1, EmptySeq
  <2>2. ASSUME NEW f \in GoodFrames, wire = << f >> PROVE wire \in Seq(Frame)
    BY <2>2 DEF GoodFrames
  <2> QED
    BY <2>1, <2>2 DEF IInv, WireInv
<1>4. shown \in Frame /\ pair \in Pair /\ drawn \in Pair /\ overfull \in BOOLEAN
  BY DEF IInv, BrowserInv, GoodFrames, PairOK
<1>5. /\ dropping \in {"no", "sent", "served"}
      /\ request.placements \in Seq([pod : Names, node : Columns])
      /\ request.of \in Frame
  BY DEF IInv, RequestInv, Placement
<1> QED
  BY <1>1, <1>2, <1>3, <1>4, <1>5 DEF TypeOK

LEMMA DrawnFitsOfInv == IInv => DrawnFits
BY DEF IInv, DrawnInv, DrawnFits

\* A drop whose columns have not grown is within MaxHeight there, too.
LEMMA SentOfInv == IInv => SentIsAccepted
<1> SUFFICES ASSUME IInv, dropping = "sent",
                    { x.pod : x \in ToSet(request.placements) } \subseteq ToSet(queue),
                    \A c \in Columns : height[c] <= request.of.height[c]
             PROVE  Accepts(request.placements)
  BY DEF SentIsAccepted
<1> DEFINE pl == request.placements
<1>1. pl \in Seq(Placement) /\ DOMAIN pl = 1 .. 2
  BY LenProperties DEF IInv, RequestInv
<1>2. SUFFICES ASSUME NEW i \in DOMAIN pl
               PROVE  pl[i].pod \in ToSet(queue)
                      /\ height[pl[i].node] + Stacked(pl, i) <= MaxHeight
  BY DEF Accepts
<1>3. pl[i] \in Placement /\ i \in 1 .. 2
  BY <1>1, ElementOfSeq, LenProperties
<1>4. pl[i].pod \in ToSet(queue)
  BY DEF ToSet
<1>5. height[pl[i].node] \in Nat /\ request.of.height[pl[i].node] \in Nat
      /\ height[pl[i].node] <= request.of.height[pl[i].node]
  BY <1>3 DEF Placement, IInv, WorldInv, RequestInv, Frame, Heights
<1>6. Stacked(pl, i) \in Nat
  <2>1. { j \in 1 .. i : pl[j].node = pl[i].node } \in SUBSET (1 .. i) /\ i \in Int
    BY <1>3
  <2>2. IsFiniteSet(1 .. i)
    BY <2>1, FS_Interval
  <2>3. IsFiniteSet({ j \in 1 .. i : pl[j].node = pl[i].node })
    BY <2>1, <2>2, FS_Subset
  <2> QED
    BY <2>3, FS_CardinalityType DEF Stacked
<1>7. request.of.height[pl[i].node] + Stacked(pl, i) <= MaxHeight
  BY <1>3 DEF IInv, RequestInv
<1>8. height[pl[i].node] + Stacked(pl, i) <= MaxHeight
  <2> \A a, b, s, m \in Nat : a <= b /\ b + s <= m => a + s <= m
    OBVIOUS
  <2> QED
    BY <1>5, <1>6, <1>7, Sizes
<1> QED
  BY <1>4, <1>8

-----------------------------------------------------------------------------
(***************************************************************************)
(* What the browser does.                                                  *)
(***************************************************************************)
LEMMA SetKeeps ==
  ASSUME NEW f \in Frame, NEW q, Good(f, pair, overfull, q), Set(f, q)
  PROVE  /\ pair' = q /\ overfull' \in BOOLEAN /\ PairOK(pair', overfull')
         /\ PairFits(f.height, q) \/ (overfull' /\ q.row = Off)
<1>1. pair' = q /\ overfull' = ((overfull /\ pair.key = q.key) \/ OverHeight(f))
  BY DEF Set, OverHeight
<1>2. PairOK(q, (overfull /\ pair.key = q.key) \/ OverHeight(f))
  BY GoodIsOK
<1> QED
  BY <1>1, <1>2 DEF Good

LEMMA DrawKeeps ==
  ASSUME NEW f \in GoodFrames, NEW p, Good(f, pair, overfull, SyncPair(f, p)),
         Draw(f, p), shown' = f
  PROVE  BrowserInv' /\ DrawnInv'
<1> DEFINE q == SyncPair(f, p)
<1>1. Set(f, q) /\ drawn' = pair'
  BY DEF Draw
<1> HIDE DEF q
<1>2. Good(f, pair, overfull, q) /\ f \in Frame
  BY DEF q, GoodFrames
<1>3. /\ pair' = q /\ overfull' \in BOOLEAN /\ PairOK(pair', overfull')
      /\ PairFits(f.height, q) \/ (overfull' /\ q.row = Off)
  BY <1>1, <1>2, SetKeeps
<1> QED
  BY <1>1, <1>2, <1>3 DEF BrowserInv, DrawnInv, Good

\* The pair as keydown finds it.
LEMMA SyncedIsGood ==
  ASSUME IInv, Operable
  PROVE  /\ shown \in Frame /\ shown.height \in Heights /\ shown.queue # << >>
         /\ Good(shown, pair, overfull, Synced) /\ Synced \in Loose
         /\ pair.key = Head(shown.queue) => Synced.col = pair.col /\ Synced.rot = pair.rot
<1>1. shown \in Frame /\ shown.height \in Heights /\ PairOK(pair, overfull)
  BY DEF IInv, BrowserInv, GoodFrames, Frame, Heights
<1>2. Len(shown.queue) >= 2
  BY DEF Operable, OperableIn
<1>3. shown.queue # << >>
  <2>1. Len(<< >>) = 0
    OBVIOUS
  <2> QED
    BY <1>2, <2>1
<1>4. /\ Good(shown, pair, overfull, Synced)
      /\ pair.key = Head(shown.queue) => Synced.col = pair.col /\ Synced.rot = pair.rot
  BY <1>1, <1>3, SyncIsGood DEF Synced
<1>5. Synced \in Loose
  BY <1>4, LoosePairs DEF Good
<1> QED
  BY <1>1, <1>3, <1>4, <1>5

\* Drawing what a key made of the pair.
LEMMA MovedIsDrawn ==
  ASSUME IInv, Operable, NEW q, FitsOrSame(shown.height, Synced, q),
         Draw(shown, q), UNCHANGED shown
  PROVE  BrowserInv' /\ DrawnInv'
<1>1. Good(shown, pair, overfull, q)
  BY SyncedIsGood, GoodMoves
<1>2. SyncPair(shown, q) = q
  BY <1>1, SyncedIsGood, SyncedStays
<1>3. shown \in GoodFrames
  BY DEF IInv, BrowserInv
<1> QED
  BY <1>1, <1>2, <1>3, DrawKeeps

LEMMA PlacementsTyped ==
  ASSUME NEW f \in Frame, Len(f.queue) >= 2,
         NEW p \in Pair, SatCol(p) \in Columns
  PROVE  Placements(f, p) \in Seq(Placement) /\ Len(Placements(f, p)) = 2
<1>1. f.queue[1] \in Names /\ f.queue[2] \in Names
  <2>1. f.queue \in Seq(Names) /\ Len(f.queue) \in Nat
    BY LenProperties DEF Frame
  <2>2. 1 \in 1 .. Len(f.queue) /\ 2 \in 1 .. Len(f.queue)
    BY <2>1
  <2> QED
    BY <2>1, <2>2, ElementOfSeq
<1>2. p.col \in Columns
  BY DEF Pair
<1> DEFINE pivot == [pod |-> f.queue[1], node |-> p.col]
           sat == [pod |-> f.queue[2], node |-> SatCol(p)]
<1>3. pivot \in Placement /\ sat \in Placement
  BY <1>1, <1>2 DEF Placement
<1>4. Placements(f, p) = << sat, pivot >> \/ Placements(f, p) = << pivot, sat >>
  BY DEF Placements
<1>5. \A x, y \in Placement : << x, y >> \in Seq(Placement) /\ Len(<< x, y >>) = 2
  OBVIOUS
<1> HIDE DEF pivot, sat
<1> QED
  BY <1>3, <1>4, <1>5, Zenon

LEMMA LockKeeps ==
  ASSUME IInv, Operable, NEW p, Good(shown, pair, overfull, p), Lock(p)
  PROVE  BrowserInv' /\ DrawnInv' /\ RequestInv'
<1> DEFINE pl == Placements(shown, p)
<1>1. shown \in GoodFrames /\ shown \in Frame /\ p \in Pair /\ SatCol(p) \in Columns
      /\ Len(shown.queue) >= 2
  BY DEF IInv, BrowserInv, GoodFrames, Good, Operable, OperableIn
<1>2. pl \in Seq(Placement) /\ Len(pl) = 2 /\ DOMAIN pl = 1 .. 2
  BY <1>1, PlacementsTyped, LenProperties
<1>3. \A i \in DOMAIN pl : shown.height[pl[i].node] + Stacked(pl, i) <= MaxHeight
  BY DEF Lock, ValidDrop
<1> HIDE DEF pl
<1>4. /\ dropping' = "sent" /\ drawn' = NoPair /\ shown' = shown
      /\ request'.placements = pl /\ request'.of = shown
  BY DEF Lock, pl
<1>5. RequestInv'
  BY <1>1, <1>2, <1>3, <1>4 DEF RequestInv, Stacked
<1>6. overfull' \in BOOLEAN /\ PairOK(pair', overfull')
  BY <1>1, SetKeeps DEF Lock
<1> QED
  BY <1>1, <1>4, <1>5, <1>6, NoPairOK DEF BrowserInv, DrawnInv

LEMMA SteerInv == IInv /\ Steer => IInv'
<1> SUFFICES ASSUME IInv, Steer PROVE IInv'
  OBVIOUS
<1>1. Operable /\ UNCHANGED shown
  BY DEF Steer
<1>2. BrowserInv' /\ DrawnInv'
  <2>1. ASSUME NEW dc \in {-1, 1}, Draw(shown, TryMove(shown.height, Synced, dc, 0))
        PROVE  BrowserInv' /\ DrawnInv'
    <3>1. dc \in Int /\ 0 \in Int
      OBVIOUS
    <3> QED
      BY <1>1, <2>1, <3>1, SyncedIsGood, MoveFits, MovedIsDrawn
  <2>2. ASSUME NEW quarters \in {1, 3}, Draw(shown, TryRotate(shown.height, Synced, quarters))
        PROVE  BrowserInv' /\ DrawnInv'
    <3>1. quarters \in Nat
      OBVIOUS
    <3> QED
      BY <1>1, <2>2, <3>1, SyncedIsGood, RotateFits, MovedIsDrawn
  <2> QED
    BY <2>1, <2>2 DEF Steer
<1>3. WorldInv' /\ WireInv' /\ RequestInv'
  BY DEF Steer, world, IInv, WorldInv, WireInv, RequestInv, Stacked
<1> QED
  BY <1>2, <1>3 DEF IInv

LEMMA SoftDropInv == IInv /\ SoftDrop => IInv'
<1> SUFFICES ASSUME IInv, SoftDrop PROVE IInv'
  OBVIOUS
<1> DEFINE down == TryMove(shown.height, Synced, 0, -1)
<1>1. Operable
  BY DEF SoftDrop
<1>2. FitsOrSame(shown.height, Synced, down)
  BY <1>1, SyncedIsGood, MoveFits
<1> HIDE DEF down
<1>3. \/ Draw(shown, down) /\ UNCHANGED << shown, dropping, request >>
      \/ down = Synced /\ Lock(Synced)
  BY DEF SoftDrop, down
<1>4. WorldInv' /\ WireInv'
  BY DEF SoftDrop, world, IInv, WorldInv, WireInv
<1>5. CASE Draw(shown, down) /\ UNCHANGED << shown, dropping, request >>
  <2>1. BrowserInv' /\ DrawnInv'
    BY <1>1, <1>2, <1>5, MovedIsDrawn
  <2>2. RequestInv'
    BY <1>5 DEF IInv, RequestInv, Stacked
  <2> QED
    BY <1>4, <2>1, <2>2 DEF IInv
<1>6. CASE Lock(Synced)
  BY <1>1, <1>4, <1>6, SyncedIsGood, LockKeeps DEF IInv
<1> QED
  BY <1>3, <1>5, <1>6

\* hardDrop() leaves what is drawn alone when it does not lock.
LEMMA HardDropInv == IInv /\ HardDrop => IInv'
<1> SUFFICES ASSUME IInv, HardDrop PROVE IInv'
  OBVIOUS
<1> DEFINE p == Fallen(shown.height, Synced)
<1>1. Operable
  BY DEF HardDrop
<1>2. FitsOrSame(shown.height, Synced, p) /\ p.col = Synced.col /\ p.rot = Synced.rot
  BY <1>1, SyncedIsGood, FallFits
<1> HIDE DEF p
<1>3. Good(shown, pair, overfull, p) /\ shown \in Frame
  BY <1>1, <1>2, SyncedIsGood, GoodMoves
<1>4. Lock(p) \/ (Set(shown, p) /\ UNCHANGED << shown, drawn, dropping, request >>)
  BY DEF HardDrop, p
<1>5. WorldInv' /\ WireInv'
  BY DEF HardDrop, world, IInv, WorldInv, WireInv
<1>6. CASE Lock(p)
  BY <1>1, <1>3, <1>5, <1>6, LockKeeps DEF IInv
<1>7. CASE Set(shown, p) /\ UNCHANGED << shown, drawn, dropping, request >>
  <2>1. pair' = p /\ overfull' \in BOOLEAN /\ PairOK(pair', overfull')
    BY <1>3, <1>7, SetKeeps
  <2>2. overfull' = ((overfull /\ pair.key = p.key) \/ OverHeight(shown))
    BY <1>7 DEF Set, OverHeight
  <2>3. p.key = Head(shown.queue)
    BY <1>3 DEF Good
  <2>4. DrawnInv'
    <3>1. CASE drawn = NoPair
      BY <1>7, <3>1 DEF DrawnInv
    <3>2. CASE drawn # NoPair
      <4>1. /\ drawn.key = pair.key /\ drawn.col = pair.col /\ drawn.rot = pair.rot
            /\ drawn.key = Head(shown.queue)
            /\ PairFits(shown.height, drawn) \/ (overfull /\ drawn.row = Off)
        BY <3>2 DEF IInv, DrawnInv
      <4>2. Synced.col = pair.col /\ Synced.rot = pair.rot
        BY <1>1, <4>1, SyncedIsGood
      <4>3. overfull => overfull'
        BY <2>2, <2>3, <4>1
      <4> QED
        BY <1>2, <1>7, <2>1, <2>3, <4>1, <4>2, <4>3 DEF DrawnInv
    <3> QED
      BY <3>1, <3>2
  <2>5. BrowserInv'
    BY <1>7, <2>1 DEF IInv, BrowserInv
  <2>6. RequestInv'
    BY <1>7 DEF IInv, RequestInv, Stacked
  <2> QED
    BY <1>5, <2>4, <2>5, <2>6 DEF IInv
<1> QED
  BY <1>4, <1>6, <1>7

LEMMA ReceiveInv == IInv /\ Receive => IInv'
<1> SUFFICES ASSUME IInv, Receive PROVE IInv'
  OBVIOUS
<1>1. PICK f \in GoodFrames : wire = << f >>
  BY DEF IInv, WireInv, Receive
<1>2. shown' = f /\ wire' = << >>
  BY <1>1 DEF Receive
<1>3. WorldInv' /\ WireInv' /\ RequestInv'
  BY <1>2 DEF Receive, world, IInv, WorldInv, WireInv, RequestInv, Stacked
<1>4. CASE OperableIn(f)
  <2>1. CASE Draw(f, pair)
    <3>1. f.queue # << >>
      <4>1. Len(f.queue) >= 2
        BY <1>4 DEF OperableIn
      <4>2. Len(<< >>) = 0
        OBVIOUS
      <4> QED
        BY <4>1, <4>2
    <3>2. Good(f, pair, overfull, SyncPair(f, pair))
      BY <3>1, SyncIsGood DEF GoodFrames, IInv, BrowserInv
    <3> QED
      BY <1>2, <1>3, <2>1, <3>2, DrawKeeps DEF IInv
  <2>2. CASE drawn' = NoPair /\ UNCHANGED << pair, overfull >>
    BY <1>2, <1>3, <2>2, NoPairOK DEF IInv, BrowserInv, DrawnInv
  <2> QED
    BY <1>2, <2>1, <2>2 DEF Receive
<1>5. CASE ~OperableIn(f)
  <2>1. drawn' = NoPair /\ UNCHANGED << pair, overfull >>
    BY <1>2, <1>5 DEF Receive
  <2> QED
    BY <1>2, <1>3, <2>1, NoPairOK DEF IInv, BrowserInv, DrawnInv
<1> QED
  BY <1>4, <1>5

-----------------------------------------------------------------------------
(***************************************************************************)
(* What the scheduler and the others do.                                   *)
(***************************************************************************)
LEMMA BoundKeeps ==
  ASSUME IInv, NEW pl \in Seq(Placement), Accepts(pl), Bound(pl)
  PROVE  height' \in Heights /\ queue' \in Queues
<1>1. height \in Heights /\ queue \in Queues
  BY DEF IInv, WorldInv
<1>2. height' \in Heights
  BY <1>1, AcceptedFits DEF Bound
<1> DEFINE left == { i \in DOMAIN queue :
                       queue[i] \notin { pl[j].pod : j \in DOMAIN pl } }
<1>3. left \in SUBSET DOMAIN queue
  OBVIOUS
<1>4. queue' = IF left = {} THEN << >> ELSE SubSeq(queue, Min(left), Max(left))
  BY DEF Bound
<1> HIDE DEF left
<1>5. queue' \in Queues
  BY <1>1, <1>3, <1>4, StretchOfQueue
<1> QED
  BY <1>2, <1>5

\* Steps that touch the field and the queue alone.
LEMMA BrowserUntouched ==
  ASSUME IInv, UNCHANGED << wire, browser, dropping, request >>
  PROVE  WireInv' /\ BrowserInv' /\ DrawnInv' /\ RequestInv'
BY DEF IInv, browser, WireInv, BrowserInv, DrawnInv, RequestInv, Stacked

LEMMA ServeInv == IInv /\ Serve => IInv'
<1> SUFFICES ASSUME IInv, Serve PROVE IInv'
  OBVIOUS
<1> DEFINE pl == request.placements
<1>1. pl \in Seq(Placement) /\ Len(pl) = 2
  BY DEF IInv, RequestInv, Serve
<1>2. height' \in Heights /\ queue' \in Queues
  <2>1. CASE UNCHANGED << height, queue >>
    BY <2>1 DEF IInv, WorldInv
  <2>2. CASE Accepts(pl) /\ Bound(pl)
    BY <1>1, <2>2, BoundKeeps
  <2>3. CASE Accepts(pl) /\ Bound(<< pl[1] >>)
    BY <1>1, <2>3, FirstAccepted, BoundKeeps
  <2> QED
    BY <2>1, <2>2, <2>3 DEF Serve
<1>3. spawned' \in 0 .. MaxPairs /\ changes' \in 0 .. MaxChanges
  BY Sizes DEF Serve, Change, IInv, WorldInv
<1>4. BrowserInv' /\ WireInv' /\ DrawnInv'
  BY DEF Serve, IInv, browser, WireInv, BrowserInv, DrawnInv
<1>5. RequestInv'
  BY DEF Serve, IInv, RequestInv
<1> QED
  BY <1>2, <1>3, <1>4, <1>5 DEF IInv, WorldInv

LEMMA SpawnInv == IInv /\ Spawn => IInv'
<1> SUFFICES ASSUME IInv, Spawn PROVE IInv'
  OBVIOUS
<1>1. spawned \in Nat /\ spawned < MaxPairs /\ spawned' = spawned + 1
  BY Sizes DEF IInv, WorldInv, Spawn
<1>2. 2 * spawned + 1 \in Names /\ 2 * spawned + 2 \in Names
  BY <1>1, Sizes DEF Names
<1>3. queue' = << 2 * spawned + 1, 2 * spawned + 2 >>
  BY DEF Spawn
<1>4. \A x, y \in Names : x # y => << x, y >> \in Queues
  BY DEF Queues, Distinct
<1>5. 2 * spawned + 1 # 2 * spawned + 2
  BY <1>1
<1>6. WorldInv'
  BY <1>1, <1>2, <1>3, <1>4, <1>5, Sizes DEF Spawn, IInv, WorldInv
<1> QED
  BY <1>6, BrowserUntouched DEF Spawn, IInv

LEMMA OtherDropsInv == IInv /\ OtherDrops => IInv'
<1> SUFFICES ASSUME IInv, OtherDrops PROVE IInv'
  OBVIOUS
<1>1. PICK a, b \in Columns :
        LET pl == << [pod |-> queue[1], node |-> a], [pod |-> queue[2], node |-> b] >>
        IN  Accepts(pl) /\ Bound(pl)
  BY DEF OtherDrops
<1> DEFINE pl == << [pod |-> queue[1], node |-> a], [pod |-> queue[2], node |-> b] >>
<1>2. queue[1] \in Names /\ queue[2] \in Names
  <2>1. queue \in Seq(Names) /\ 1 \in 1 .. Len(queue) /\ 2 \in 1 .. Len(queue)
    BY DEF OtherDrops, IInv, WorldInv, Queues
  <2> QED
    BY <2>1, ElementOfSeq
<1>3. \A x, y \in Placement : << x, y >> \in Seq(Placement)
  OBVIOUS
<1>4. pl \in Seq(Placement)
  BY <1>2, <1>3 DEF Placement
<1>5. Accepts(pl) /\ Bound(pl)
  BY <1>1
<1> HIDE DEF pl
<1>6. height' \in Heights /\ queue' \in Queues
  BY <1>4, <1>5, BoundKeeps
<1>7. spawned' \in 0 .. MaxPairs /\ changes' \in 0 .. MaxChanges
  BY Sizes DEF OtherDrops, Change, IInv, WorldInv
<1> QED
  BY <1>6, <1>7, BrowserUntouched DEF OtherDrops, IInv, WorldInv

LEMMA OthersChangeInv == IInv /\ OthersChange => IInv'
<1> SUFFICES ASSUME IInv, OthersChange PROVE IInv'
  OBVIOUS
<1>1. height \in Heights /\ queue \in Queues
  BY DEF IInv, WorldInv
<1>2. height' \in Heights /\ queue' \in Queues
  <2>1. ASSUME NEW c \in Columns, height[c] < Ceiling,
               height' = [height EXCEPT ![c] = @ + 1], UNCHANGED queue
        PROVE  height' \in Heights /\ queue' \in Queues
    <3>1. height[c] + 1 \in 0 .. Ceiling
      BY <1>1, <2>1, Sizes DEF Heights
    <3> QED
      BY <1>1, <2>1, <3>1 DEF Heights
  <2>2. ASSUME NEW c \in Columns, NEW n \in 0 .. height[c] - 1,
               height' = [height EXCEPT ![c] = n], UNCHANGED queue
        PROVE  height' \in Heights /\ queue' \in Queues
    <3>1. n \in 0 .. Ceiling
      <4>1. height[c] \in 0 .. Ceiling
        BY <1>1 DEF Heights
      <4> QED
        BY <4>1, Sizes
    <3> QED
      BY <1>1, <2>2, <3>1 DEF Heights
  <2>3. ASSUME NEW i \in DOMAIN queue, queue' = RemoveAt(queue, i), UNCHANGED height
        PROVE  height' \in Heights /\ queue' \in Queues
    BY <1>1, <2>3, DeletedFromQueue
  <2> QED
    BY <2>1, <2>2, <2>3 DEF OthersChange
<1>3. spawned' \in 0 .. MaxPairs /\ changes' \in 0 .. MaxChanges
  BY Sizes DEF OthersChange, Change, IInv, WorldInv
<1> QED
  BY <1>2, <1>3, BrowserUntouched DEF OthersChange, IInv, WorldInv

LEMMA SendFrameInv == ASSUME IInv, NEW open \in BOOLEAN, SendFrame(open) PROVE IInv'
<1> DEFINE f == [height |-> height, queue |-> queue, open |-> open]
<1>1. f \in GoodFrames
  BY DEF GoodFrames, Frame, IInv, WorldInv, Heights, Queues
<1>2. wire' = << f >>
  BY DEF SendFrame
<1> HIDE DEF f
<1>3. WireInv'
  BY <1>1, <1>2 DEF WireInv
<1>4. WorldInv' /\ BrowserInv' /\ DrawnInv' /\ RequestInv'
  BY DEF SendFrame, world, browser, IInv, WorldInv, BrowserInv, DrawnInv, RequestInv, Stacked
<1> QED
  BY <1>3, <1>4 DEF IInv

LEMMA StepInv == IInv /\ [Next]_vars => IInv'
<1> SUFFICES ASSUME IInv, [Next]_vars PROVE IInv'
  OBVIOUS
<1>1. CASE Answered
  BY <1>1, NoFrameTyped, EmptySeq
  DEF Answered, world, browser, NoRequest, GoodFrames, IInv, WorldInv, WireInv,
      BrowserInv, DrawnInv, RequestInv
<1>2. CASE UNCHANGED vars
  BY <1>2 DEF vars, world, browser, IInv, WorldInv, WireInv, BrowserInv, DrawnInv,
              RequestInv, Stacked
<1>3. ASSUME NEW open \in BOOLEAN, SendFrame(open) PROVE IInv'
  BY <1>3, SendFrameInv
<1> QED
  BY <1>1, <1>2, <1>3, SteerInv, SoftDropInv, HardDropInv, ReceiveInv, ServeInv,
     SpawnInv, OtherDropsInv, OthersChangeInv
  DEF Next

THEOREM IndInv == Spec => []IInv
BY InitInv, StepInv, PTL DEF Spec

\* Every variable has its type: garbage and drops never pile above Ceiling, what
\* is left of a queue is a queue.
THEOREM TypeCorrect == Spec => []TypeOK
BY IndInv, TypeOfInv, PTL

\* However frames, keys, turns and kicks alternate, the pair is drawn on free
\* cells, or out of the grid once a column has been above MaxHeight.
THEOREM PairDrawnFits == Spec => []DrawnFits
BY IndInv, DrawnFitsOfInv, PTL

\* The browser's check of a drop implies the scheduler's, on a field that has not
\* grown.
THEOREM SentDropAccepted == Spec => []SentIsAccepted
BY IndInv, SentOfInv, PTL

-----------------------------------------------------------------------------
(***************************************************************************)
(* What is sent is what was drawn.                                         *)
(***************************************************************************)
AsDrawn ==
  dropping = "no" /\ dropping' = "sent" /\ drawn # NoPair =>
    LET cells == DrawnCells(drawn)
        sent == request'.placements
    IN  /\ drawn.key = shown.queue[1]
        /\ \A i \in 1 .. 2 : \E j \in 1 .. 2 :
             sent[j].pod = cells[i].pod /\ sent[j].node = cells[i].node
        /\ sent[1].node = sent[2].node =>
             \A i, j \in 1 .. 2 :
               sent[1].pod = cells[i].pod /\ sent[2].pod = cells[j].pod
                 => cells[i].row < cells[j].row

LEMMA LockAsDrawn ==
  ASSUME IInv, Operable, NEW p, Good(shown, pair, overfull, p), Lock(p),
         p.col = Synced.col, p.rot = Synced.rot
  PROVE  AsDrawn
<1> SUFFICES ASSUME drawn # NoPair PROVE AsDrawn
  BY DEF AsDrawn
<1>1. drawn \in Loose /\ drawn.row \in Int
  BY LoosePairs DEF IInv, BrowserInv, Loose
<1>2. /\ drawn.key = Head(shown.queue) /\ pair.key = Head(shown.queue)
      /\ p.col = drawn.col /\ p.rot = drawn.rot
  BY SyncedIsGood DEF IInv, DrawnInv
<1>3. SatCol(p) = SatCol(drawn)
  BY <1>2 DEF SatCol
<1>4. Len(shown.queue) = 2 /\ shown.queue[1] # shown.queue[2]
      /\ Head(shown.queue) = shown.queue[1]
  <2>1. shown.queue \in Queues /\ Len(shown.queue) >= 2
    BY DEF IInv, BrowserInv, GoodFrames, Operable, OperableIn
  <2>2. Len(shown.queue) \in 0 .. 2 /\ Distinct(shown.queue)
    BY <2>1, QueueTyped
  <2>3. \A n \in 0 .. 2 : n >= 2 => n = 2
    OBVIOUS
  <2> QED
    <3>1. Len(shown.queue) = 2
      BY <2>1, <2>2, <2>3, Zenon
    <3>2. shown.queue[1] # shown.queue[2]
      BY <2>2, <3>1, Zenon DEF Distinct
    <3> QED
      BY <3>1, <3>2 DEF Head
<1> DEFINE a == shown.queue[1]  b == shown.queue[2]
           pivot == [pod |-> a, node |-> drawn.col]
           sat == [pod |-> b, node |-> SatCol(drawn)]
           sent == request'.placements
           cells == DrawnCells(drawn)
<1>5. sent = IF drawn.rot = 2 THEN << sat, pivot >> ELSE << pivot, sat >>
  BY <1>2, <1>3 DEF Lock, Placements
<1>6. /\ cells[1].pod = a /\ cells[1].node = drawn.col /\ cells[1].row = drawn.row
      /\ cells[2].pod = b /\ cells[2].node = SatCol(drawn) /\ cells[2].row = SatRow(drawn)
  BY DEF DrawnCells
<1>7. CASE drawn.rot = 2
  <2>1. /\ sent[1].pod = b /\ sent[1].node = SatCol(drawn)
        /\ sent[2].pod = a /\ sent[2].node = drawn.col
    BY <1>5, <1>7
  <2>2. SatRow(drawn) < drawn.row
    BY <1>1, <1>7, Satellite
  <2> HIDE DEF a, b, sent, cells
  <2>3. \A i, j \in 1 .. 2 : sent[1].pod = cells[i].pod /\ sent[2].pod = cells[j].pod
                               => i = 2 /\ j = 1
    BY <1>4, <1>6, <2>1 DEF a, b
  <2>4. \A i \in 1 .. 2 : \E j \in 1 .. 2 :
          sent[j].pod = cells[i].pod /\ sent[j].node = cells[i].node
    BY <1>6, <2>1
  <2> QED
    BY <1>2, <1>4, <1>6, <2>2, <2>3, <2>4 DEF AsDrawn, sent, cells
<1>8. CASE drawn.rot # 2
  <2>1. /\ sent[1].pod = a /\ sent[1].node = drawn.col
        /\ sent[2].pod = b /\ sent[2].node = SatCol(drawn)
    BY <1>5, <1>8
  <2>2. drawn.col = SatCol(drawn) => drawn.row < SatRow(drawn)
    <3>1. drawn.col \in Int /\ drawn.rot \in {0, 1, 3}
      BY <1>1, <1>8, Satellite DEF Loose
    <3> QED
      BY <1>1, <3>1, Satellite
  <2> HIDE DEF a, b, sent, cells
  <2>3. \A i, j \in 1 .. 2 : sent[1].pod = cells[i].pod /\ sent[2].pod = cells[j].pod
                               => i = 1 /\ j = 2
    BY <1>4, <1>6, <2>1 DEF a, b
  <2>4. \A i \in 1 .. 2 : \E j \in 1 .. 2 :
          sent[j].pod = cells[i].pod /\ sent[j].node = cells[i].node
    BY <1>6, <2>1
  <2> QED
    BY <1>2, <1>4, <1>6, <2>1, <2>2, <2>3, <2>4 DEF AsDrawn, sent, cells
<1> QED
  BY <1>7, <1>8

LEMMA StepAsDrawn == IInv /\ [Next]_vars => [AsDrawn]_vars
<1> SUFFICES ASSUME IInv, Next, dropping = "no", dropping' = "sent" PROVE AsDrawn
  BY DEF AsDrawn, vars
<1>1. CASE SoftDrop
  <2>1. Operable /\ Lock(Synced)
    BY <1>1 DEF SoftDrop
  <2> QED
    BY <2>1, SyncedIsGood, LockAsDrawn
<1>2. CASE HardDrop
  <2> DEFINE p == Fallen(shown.height, Synced)
  <2>1. Operable /\ Lock(p)
    BY <1>2 DEF HardDrop
  <2>2. FitsOrSame(shown.height, Synced, p) /\ p.col = Synced.col /\ p.rot = Synced.rot
    BY <2>1, SyncedIsGood, FallFits
  <2> HIDE DEF p
  <2>3. Good(shown, pair, overfull, p)
    BY <2>1, <2>2, SyncedIsGood, GoodMoves
  <2> QED
    BY <2>1, <2>2, <2>3, LockAsDrawn
<1>3. ~(Steer \/ Receive \/ Answered \/ Serve \/ Spawn \/ OtherDrops \/ OthersChange)
  BY DEF Steer, Receive, Answered, Serve, Spawn, OtherDrops, OthersChange
<1>4. ~(\E open \in BOOLEAN : SendFrame(open))
  BY DEF SendFrame
<1> QED
  BY <1>1, <1>2, <1>3, <1>4 DEF Next

\* Each Pod is sent to the column it was last drawn in, and of two in one column
\* the lower one first.
THEOREM PairSentAsDrawn == Spec => SentAsDrawn
BY IndInv, StepAsDrawn, PTL DEF Spec, SentAsDrawn, AsDrawn
=============================================================================
