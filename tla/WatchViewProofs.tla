-------------------------- MODULE WatchViewProofs ---------------------------
(***************************************************************************)
(* Proofs about kubectl kbkb --watch, for any height, any number of        *)
(* changes and any terminal that has room for a frame: whatever redraws    *)
(* overlap, the frame written last stands whole at the bottom.             *)
(***************************************************************************)
EXTENDS WatchView, SequenceTheorems, TLAPS

Row == [of : Frame, line : 1 .. MaxHeight + 1]

-----------------------------------------------------------------------------
(***************************************************************************)
(* Types.                                                                  *)
(***************************************************************************)
LEMMA LinesTyped ==
  ASSUME NEW f \in Frame PROVE LinesOf(f) \in 1 .. MaxHeight + 1
BY WatchViewAssumption DEF Frame, LinesOf

LEMMA RenderTyped ==
  ASSUME NEW f \in Frame
  PROVE  Render(f) \in Seq(Row) /\ Len(Render(f)) = LinesOf(f)
<1>1. LinesOf(f) \in 1 .. MaxHeight + 1
  BY LinesTyped
<1>2. \A i \in 1 .. LinesOf(f) : [of |-> f, line |-> i] \in Row
  BY <1>1, WatchViewAssumption DEF Row
<1>3. Render(f) \in [1 .. LinesOf(f) -> Row]
  BY <1>2 DEF Render
<1>4. LinesOf(f) \in Nat
  BY <1>1, WatchViewAssumption
<1> QED
  BY <1>3, <1>4, SeqDef, LenProperties

\* What scrolls away does so at the top, and the screen holds the rest.
LEMMA ScrolledTyped ==
  ASSUME NEW rows \in Seq(Row)
  PROVE  /\ Scrolled(rows) \in Seq(Row)
         /\ Len(Scrolled(rows)) = IF Len(rows) > ScreenRows THEN ScreenRows ELSE Len(rows)
         /\ \A i \in 1 .. Len(Scrolled(rows)) :
              Scrolled(rows)[i] = rows[Len(rows) - Len(Scrolled(rows)) + i]
<1> DEFINE m == 1 + (IF Len(rows) > ScreenRows THEN Len(rows) - ScreenRows ELSE 0)
<1>1. Len(rows) \in Nat /\ ScreenRows \in Nat
  BY LenProperties, WatchViewAssumption
<1>2. /\ m \in 1 .. Len(rows) + 1
      /\ Len(rows) - m + 1 = IF Len(rows) > ScreenRows THEN ScreenRows ELSE Len(rows)
  BY <1>1
<1>3. Scrolled(rows) = SubSeq(rows, m, Len(rows))
  BY DEF Scrolled
<1> HIDE DEF m
<1>4. \A i \in m .. Len(rows) : rows[i] \in Row
  BY <1>1, <1>2, ElementOfSeq
<1>5. /\ SubSeq(rows, m, Len(rows)) \in Seq(Row)
      /\ Len(SubSeq(rows, m, Len(rows))) = IF m <= Len(rows) THEN Len(rows) - m + 1 ELSE 0
      /\ \A i \in 1 .. Len(rows) - m + 1 : SubSeq(rows, m, Len(rows))[i] = rows[m + i - 1]
  BY <1>1, <1>2, <1>4, SubSeqProperties
<1>6. Len(SubSeq(rows, m, Len(rows))) = Len(rows) - m + 1
  BY <1>1, <1>2, <1>5
<1>7. Len(Scrolled(rows)) = Len(rows) - m + 1
  BY <1>3, <1>6
<1>8. ASSUME NEW i \in 1 .. Len(Scrolled(rows))
      PROVE  Scrolled(rows)[i] = rows[Len(rows) - Len(Scrolled(rows)) + i]
  <2>1. i \in 1 .. Len(rows) - m + 1 /\ m \in Int
    BY <1>1, <1>2, <1>7
  <2>2. m + i - 1 = Len(rows) - Len(Scrolled(rows)) + i
    BY <1>1, <1>7, <2>1
  <2> QED
    BY <1>3, <1>5, <2>1, <2>2
<1> QED
  BY <1>2, <1>3, <1>5, <1>7, <1>8

LEMMA InitTyped == Init => TypeOK
<1> SUFFICES ASSUME Init PROVE TypeOK
  OBVIOUS
<1>1. screen \in Seq(Row) /\ Len(screen) = 0
  BY EmptySeq DEF Init
<1>2. Blank \in Frame
  BY WatchViewAssumption DEF Blank, Frame
<1>3. 0 \in 0 .. MaxHeight /\ 0 \in 0 .. MaxChanges /\ 0 \in 0 .. MaxHeight + 1
      /\ 0 <= ScreenRows
  BY WatchViewAssumption
<1>4. /\ notified \in [Goroutines -> BOOLEAN]
      /\ pc \in [Goroutines -> {"idle", "list", "erase", "write", "count"}]
      /\ frame \in [Goroutines -> Frame]
  BY <1>2 DEF Init
<1> QED
  BY <1>1, <1>2, <1>3, <1>4 DEF Init, TypeOK, Row

LEMMA EraseTyped ==
  ASSUME TypeOK, NEW g \in Goroutines, Erase(g)
  PROVE  screen' \in Seq(Row) /\ Len(screen') <= ScreenRows
<1> DEFINE n == Len(screen) - lastLines
<1>1. /\ screen \in Seq(Row) /\ Len(screen) \in Nat /\ Len(screen) <= ScreenRows
      /\ lastLines \in Nat /\ ScreenRows \in Nat
  BY WatchViewAssumption, LenProperties DEF TypeOK, Row
<1>2. n \in Int /\ n <= Len(screen)
  BY <1>1
<1>3. screen' = SubSeq(screen, 1, n)
  BY DEF Erase
<1> HIDE DEF n
<1>4. \A i \in 1 .. n : screen[i] \in Row
  BY <1>1, <1>2, ElementOfSeq
<1>5. screen' \in Seq(Row) /\ Len(screen') = IF 1 <= n THEN n - 1 + 1 ELSE 0
  BY <1>2, <1>3, <1>4, SubSeqProperties
<1> QED
  BY <1>1, <1>2, <1>5

\* The last rows after a write are the frame.
LEMMA WriteShows ==
  ASSUME TypeOK, NEW g \in Goroutines, Write(g)
  PROVE  /\ screen' \in Seq(Row) /\ Len(screen') <= ScreenRows
         /\ LinesOf(frame[g]) <= Len(screen')
         /\ \A i \in 1 .. LinesOf(frame[g]) :
              screen'[Len(screen') - LinesOf(frame[g]) + i] = Render(frame[g])[i]
<1> DEFINE f == frame[g]  r == Render(f)  rows == screen \o r
<1>1. f \in Frame /\ screen \in Seq(Row) /\ screen' = Scrolled(rows)
  BY DEF TypeOK, Write, Row
<1>2. r \in Seq(Row) /\ Len(r) = LinesOf(f) /\ LinesOf(f) \in 1 .. MaxHeight + 1
  BY <1>1, RenderTyped, LinesTyped
<1> HIDE DEF f, r
<1>3. /\ rows \in Seq(Row) /\ Len(rows) = Len(screen) + Len(r)
      /\ \A i \in 1 .. Len(screen) + Len(r) :
           rows[i] = IF i <= Len(screen) THEN screen[i] ELSE r[i - Len(screen)]
  BY <1>1, <1>2, ConcatProperties
<1> HIDE DEF rows
<1>4. /\ screen' \in Seq(Row)
      /\ Len(screen') = IF Len(rows) > ScreenRows THEN ScreenRows ELSE Len(rows)
      /\ \A i \in 1 .. Len(screen') : screen'[i] = rows[Len(rows) - Len(screen') + i]
  BY <1>1, <1>3, ScrolledTyped
<1>5. /\ Len(screen) \in Nat /\ Len(r) \in 1 .. MaxHeight + 1 /\ Len(r) <= ScreenRows
      /\ MaxHeight \in Nat /\ ScreenRows \in Nat
  BY <1>1, <1>2, LenProperties, WatchViewAssumption
<1>6. Len(screen') \in Nat /\ Len(screen') <= ScreenRows /\ Len(r) <= Len(screen')
  BY <1>3, <1>4, <1>5
<1>7. ASSUME NEW i \in 1 .. Len(r)
      PROVE  screen'[Len(screen') - Len(r) + i] = r[i]
  <2>1. Len(screen') - Len(r) + i \in 1 .. Len(screen')
    BY <1>5, <1>6
  <2>2. Len(rows) - Len(screen') + (Len(screen') - Len(r) + i) = Len(screen) + i
    BY <1>3, <1>5, <1>6
  <2>3. screen'[Len(screen') - Len(r) + i] = rows[Len(screen) + i]
    BY <1>4, <2>1, <2>2
  <2>4. /\ Len(screen) + i \in 1 .. Len(screen) + Len(r) /\ ~(Len(screen) + i <= Len(screen))
        /\ Len(screen) + i - Len(screen) = i
    BY <1>5
  <2> QED
    BY <1>3, <2>3, <2>4
<1> QED
  BY <1>2, <1>4, <1>6, <1>7 DEF f, r

LEMMA FrameTyped ==
  ASSUME TypeOK
  PROVE  /\ Blank \in Frame
         /\ \A g \in Goroutines : /\ [frame[g] EXCEPT !.tallest = tallest] \in Frame
                                  /\ [frame[g] EXCEPT !.nodes = nodes] \in Frame
BY WatchViewAssumption DEF TypeOK, Frame, Blank

LEMMA RedrawTyped ==
  ASSUME TypeOK, NEW g \in Goroutines, Redraw(g) PROVE TypeOK'
<1> USE DEF caches, terminal
<1>1. CASE ListPods(g)
  <2>1. frame' = [frame EXCEPT ![g] = [frame[g] EXCEPT !.tallest = tallest]]
    BY <1>1 DEF ListPods
  <2> QED
    BY <1>1, <2>1, FrameTyped DEF ListPods, TypeOK
<1>2. CASE ListNodes(g)
  <2>1. frame' = [frame EXCEPT ![g] = [frame[g] EXCEPT !.nodes = nodes]]
    BY <1>2 DEF ListNodes
  <2> QED
    BY <1>2, <2>1, FrameTyped DEF ListNodes, TypeOK
<1>3. CASE Erase(g)
  BY <1>3, EraseTyped DEF Erase, TypeOK, Row
<1>4. CASE Write(g)
  BY <1>4, WriteShows DEF Write, TypeOK, Row
<1>5. CASE Count(g)
  <2>1. LinesOf(frame[g]) \in 0 .. MaxHeight + 1
    BY LinesTyped, WatchViewAssumption DEF TypeOK
  <2> QED
    BY <1>5, <2>1, FrameTyped DEF Count, TypeOK
<1> QED
  BY <1>1, <1>2, <1>3, <1>4, <1>5 DEF Redraw

LEMMA NextTyped == TypeOK /\ [Next]_vars => TypeOK'
<1> SUFFICES ASSUME TypeOK, [Next]_vars PROVE TypeOK'
  OBVIOUS
<1> USE DEF caches, terminal
<1>1. CASE PodsChange \/ NodesChange
  <2>1. /\ tallest' \in 0 .. MaxHeight /\ nodes' \in BOOLEAN
        /\ UNCHANGED << pc, frame, terminal >>
    BY <1>1 DEF PodsChange, NodesChange, Change, TypeOK
  <2>2. notified' \in [Goroutines -> BOOLEAN]
    BY <1>1 DEF PodsChange, NodesChange, Change, TypeOK
  <2>3. changes' \in 0 .. MaxChanges
    BY <1>1, WatchViewAssumption DEF PodsChange, NodesChange, Change, TypeOK
  <2> QED
    BY <2>1, <2>2, <2>3 DEF TypeOK
<1>2. ASSUME NEW g \in Goroutines, Resync(g) PROVE TypeOK'
  BY <1>2 DEF Resync, TypeOK
<1>3. CASE UNCHANGED vars
  BY <1>3 DEF vars, TypeOK
<1> QED
  BY <1>1, <1>2, <1>3, RedrawTyped DEF Next

\* Types of the watch view: in particular the screen never holds more rows than
\* the terminal has.
THEOREM TypeCorrect == Spec => []TypeOK
BY InitTyped, NextTyped, PTL DEF Spec

-----------------------------------------------------------------------------
(***************************************************************************)
(* The last frame.                                                         *)
(***************************************************************************)
\* Rows from below, without reversing sequences.
AtBottom(f, rows) ==
  /\ LinesOf(f) <= Len(rows)
  /\ \A i \in 1 .. LinesOf(f) : rows[Len(rows) - LinesOf(f) + i] = Render(f)[i]

LEMMA BottomIsSuffix ==
  ASSUME NEW f \in Frame, NEW rows \in Seq(Row), AtBottom(f, rows)
  PROVE  IsSuffix(Render(f), rows)
<1> DEFINE r == Render(f)  rf == Reverse(r)  rr == Reverse(rows)
<1>1. r \in Seq(Row) /\ Len(r) = LinesOf(f) /\ Len(r) \in Nat /\ Len(rows) \in Nat
  BY RenderTyped, LenProperties
<1>2. /\ Len(r) <= Len(rows)
      /\ \A i \in 1 .. Len(r) : rows[Len(rows) - Len(r) + i] = r[i]
  BY <1>1 DEF AtBottom
<1> HIDE DEF r
<1>3. /\ Len(rf) = Len(r) /\ \A i \in 1 .. Len(r) : rf[i] = r[Len(r) - i + 1]
      /\ Len(rr) = Len(rows) /\ \A i \in 1 .. Len(rows) : rr[i] = rows[Len(rows) - i + 1]
  BY <1>1 DEF Reverse
<1> HIDE DEF rf, rr
<1>4. ASSUME NEW i \in 1 .. Len(r) PROVE rf[i] = rr[i]
  <2>1. Len(r) - i + 1 \in 1 .. Len(r) /\ i \in 1 .. Len(rows)
    BY <1>1, <1>2
  <2>2. Len(rows) - Len(r) + (Len(r) - i + 1) = Len(rows) - i + 1
    BY <1>1
  <2> QED
    BY <1>2, <1>3, <2>1, <2>2
<1>5. SubSeq(rf, 1, Len(r)) = [i \in 1 .. Len(r) |-> rf[i]]
  BY <1>1, <1>3
<1>6. SubSeq(rr, 1, Len(r)) = [i \in 1 .. Len(r) |-> rr[i]]
  BY <1>1, <1>3
<1>7. IsPrefix(rf, rr)
  BY <1>1, <1>2, <1>3, <1>4, <1>5, <1>6 DEF IsPrefix
<1> QED
  BY <1>7 DEF IsSuffix, rf, rr, r

LastInv == Whole /\ screen # << >> => AtBottom(last, screen)

LEMMA LastStep == TypeOK /\ LastInv /\ [Next]_vars => LastInv'
<1> SUFFICES ASSUME TypeOK, LastInv, [Next]_vars PROVE LastInv'
  OBVIOUS
<1>1. ASSUME UNCHANGED << screen, last >>,
             \A g \in Goroutines : pc[g] = "write" => pc'[g] = "write"
      PROVE  LastInv'
  BY <1>1 DEF LastInv, Whole, AtBottom
<1>2. CASE PodsChange \/ NodesChange \/ (\E g \in Goroutines : Resync(g)) \/ UNCHANGED vars
  BY <1>1, <1>2 DEF PodsChange, NodesChange, Change, Resync, vars, terminal
<1>3. ASSUME NEW g \in Goroutines, ListPods(g) \/ ListNodes(g) \/ Count(g)
      PROVE  LastInv'
  <2>1. pc[g] # "write" /\ \A h \in Goroutines : h # g => pc'[h] = pc[h]
    BY <1>3 DEF ListPods, ListNodes, Count, TypeOK
  <2> QED
    BY <1>1, <1>3, <2>1 DEF ListPods, ListNodes, Count, terminal
<1>4. ASSUME NEW g \in Goroutines, Erase(g) PROVE LastInv'
  BY <1>4 DEF Erase, LastInv, Whole, TypeOK
<1>5. ASSUME NEW g \in Goroutines, Write(g) PROVE LastInv'
  <2>1. last' = frame[g]
    BY <1>5 DEF Write
  <2> QED
    BY <1>5, <2>1, WriteShows DEF LastInv, AtBottom
<1> QED
  BY <1>2, <1>3, <1>4, <1>5 DEF Next, Redraw

\* Redraws overlap (redraw in root.go is called from three goroutines) and share
\* lastLines, and still the frame written last can be read whole.
THEOREM LastFrameIsWhole == Spec => []LastFrameWhole
<1>1. Init => LastInv
  BY DEF Init, LastInv
<1>2. TypeOK /\ LastInv => LastFrameWhole
  BY BottomIsSuffix DEF TypeOK, LastInv, LastFrameWhole, Bottom, Row
<1> QED
  BY <1>1, <1>2, LastStep, TypeCorrect, PTL DEF Spec
=============================================================================
