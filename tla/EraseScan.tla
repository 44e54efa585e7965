----------------------------- MODULE EraseScan -----------------------------
(***************************************************************************)
(* Field.Erasable and Field.group (pkg/field/field.go), step by step: the  *)
(* scan over the cells, the depth-first search that collects one group and *)
(* marks what it visits in a table shared by all the searches, and the     *)
(* list of erasable Pods built from the groups that are large enough.      *)
(*                                                                         *)
(* The list lengths are state of their own (groupLen, erasableLen): the    *)
(* code compares and counts lengths of slices, which would be wrong if a   *)
(* Pod entered a slice twice.  The search may pop any pending cell; the    *)
(* code pops the last one, so what holds here holds of that order.         *)
(***************************************************************************)
EXTENDS Field

CONSTANTS
  Fields,      \* the fields scanned: records [at, color]
  Threshold    \* kokeshi

ASSUME FieldsAssumption ==
  \A f \in Fields : IsFiniteSet(DOMAIN f.at) /\ DOMAIN f.color = DOMAIN f.at

ASSUME ThresholdAssumption == Threshold \in Nat /\ Threshold >= 1

VARIABLES
  at, color,   \* the field, never changed
  pc,          \* "scan" in Erasable, "grow" in group, "done" returned
  visited,     \* the Pods whose cell is marked visited
  start,       \* {the Pod group() was called with}, {} outside group()
  stack,       \* cells still to expand
  group, groupLen,
  erasable, erasableLen

vars == << at, color, pc, visited, start, stack, group, groupLen,
           erasable, erasableLen >>

cells == DOMAIN at

TypeOK ==
  /\ IsFiniteSet(cells)
  /\ DOMAIN color = cells
  /\ pc \in {"scan", "grow", "done"}
  /\ visited \subseteq cells
  /\ start \subseteq cells
  /\ stack \subseteq cells
  /\ group \subseteq cells
  /\ erasable \subseteq cells
  /\ groupLen \in Nat
  /\ erasableLen \in Nat

Init ==
  /\ \E f \in Fields : at = f.at /\ color = f.color
  /\ pc = "scan"
  /\ visited = {} /\ start = {} /\ stack = {}
  /\ group = {} /\ groupLen = 0
  /\ erasable = {} /\ erasableLen = 0

-----------------------------------------------------------------------------
\* The cell the two nested loops of Erasable reach next: x first, then y.
ScansNext(p) ==
  /\ p \in cells \ visited
  /\ \A q \in cells \ visited :
       at[p][1] < at[q][1] \/ (at[p][1] = at[q][1] /\ at[p][2] <= at[q][2])

\* The scan skips a white cell: group() marks it and returns nil, and a nil
\* group is never long enough.
SkipWhite(p) ==
  /\ pc = "scan"
  /\ ScansNext(p)
  /\ color[p] = ColorWhite
  /\ visited' = visited \cup {p}
  /\ UNCHANGED << at, color, pc, start, stack, group, groupLen,
                  erasable, erasableLen >>

\* group(x, y) begins with its first cell marked, collected and pending.
Start(p) ==
  /\ pc = "scan"
  /\ ScansNext(p)
  /\ color[p] # ColorWhite
  /\ pc' = "grow"
  /\ visited' = visited \cup {p}
  /\ start' = {p}
  /\ stack' = {p}
  /\ group' = {p}
  /\ groupLen' = 1
  /\ UNCHANGED << at, color, erasable, erasableLen >>

\* Mutants of Fresh: no look-up of the neighbour above on the field; no look to
\* the left.
FreshUnbounded(p) ==
  LET above == << at[p][1], at[p][2] + 1 >>
  IN  { q \in cells : Adjacent(at[p], at[q]) /\ q \notin visited
                        /\ \E s \in start : color[q] = color[s] } \cup {above}

FreshNotLeft(p) ==
  { q \in cells : /\ Adjacent(at[p], at[q]) /\ at[q][1] >= at[p][1]
                  /\ q \notin visited
                  /\ \E s \in start : color[q] = color[s] }

\* Of the four neighbours of a cell, the ones the search takes.
Fresh(p) ==
  { q \in cells : Adjacent(at[p], at[q]) /\ q \notin visited
                    /\ \E s \in start : color[q] = color[s] }

\* Mutant of Grow: the cell is read but not popped.
GrowNoPop(p) ==
  /\ pc = "grow"
  /\ p \in stack
  /\ visited' = visited \cup Fresh(p)
  /\ group' = group \cup Fresh(p)
  /\ groupLen' = groupLen + Cardinality(Fresh(p))
  /\ stack' = stack \cup Fresh(p)
  /\ UNCHANGED << at, color, pc, start, erasable, erasableLen >>

\* One turn of the loop in group(): pop a cell, take its fresh neighbours.
Grow(p) ==
  /\ pc = "grow"
  /\ p \in stack
  /\ visited' = visited \cup Fresh(p)
  /\ group' = group \cup Fresh(p)
  /\ groupLen' = groupLen + Cardinality(Fresh(p))
  /\ stack' = (stack \ {p}) \cup Fresh(p)
  /\ UNCHANGED << at, color, pc, start, erasable, erasableLen >>

\* Mutant of Collect: the threshold is off by one.
CollectMore ==
  /\ pc = "grow"
  /\ stack = {}
  /\ pc' = "scan"
  /\ start' = {}
  /\ group' = {}
  /\ groupLen' = 0
  /\ IF groupLen > Threshold
     THEN /\ erasable' = erasable \cup group
          /\ erasableLen' = erasableLen + groupLen
     ELSE UNCHANGED << erasable, erasableLen >>
  /\ UNCHANGED << at, color, visited, stack >>

\* group() returns and Erasable appends what it collected if it is enough.
Collect ==
  /\ pc = "grow"
  /\ stack = {}
  /\ pc' = "scan"
  /\ start' = {}
  /\ group' = {}
  /\ groupLen' = 0
  /\ IF groupLen >= Threshold
     THEN /\ erasable' = erasable \cup group
          /\ erasableLen' = erasableLen + groupLen
     ELSE UNCHANGED << erasable, erasableLen >>
  /\ UNCHANGED << at, color, visited, stack >>

Return ==
  /\ pc = "scan"
  /\ visited = cells
  /\ pc' = "done"
  /\ UNCHANGED << at, color, visited, start, stack, group, groupLen,
                  erasable, erasableLen >>

Next ==
  \/ \E p \in cells : SkipWhite(p) \/ Start(p) \/ Grow(p)
  \/ Collect
  \/ Return

Spec == Init /\ [][Next]_vars /\ WF_vars(Next)

-----------------------------------------------------------------------------
\* Erasable returns exactly the Pods whose group has `threshold` members or
\* more, each of them once: what the controllers erase, count and convert to
\* garbage is len(erasable).
ErasableCorrect ==
  pc = "done" => /\ erasable = Erasable(at, color, Threshold)
                 /\ erasableLen = Cardinality(erasable)

\* No group is split between two searches that share the visited table: once
\* group() returns, every Pod linked to a visited Pod is visited too.
SearchesDisjoint ==
  pc # "grow" => Closed(at, color, { p \in visited : color[p] # ColorWhite })

\* The search ends on every field.
Terminates == <>(pc = "done")

\* The inductive invariant behind ErasableCorrect and SearchesDisjoint.
Finished == visited \ group

SearchInv ==
  /\ pc # "grow" => start = {} /\ stack = {} /\ group = {} /\ groupLen = 0
  /\ pc = "grow" => \E s \in group :
                      /\ start = {s}
                      /\ color[s] # ColorWhite
                      /\ group \subseteq Group(at, color, s)
  /\ stack \subseteq group
  /\ group \subseteq visited
  /\ \A p \in group \ stack : \A q \in cells :
       Linked(at, color, p, q) => q \in group
  /\ groupLen = Cardinality(group)

ScanInv ==
  /\ Closed(at, color, Finished)
  /\ erasable = { p \in Finished : p \in Erasable(at, color, Threshold) }
  /\ erasableLen = Cardinality(erasable)
  /\ pc = "done" => visited = cells

Inv == TypeOK /\ SearchInv /\ ScanInv
=============================================================================
