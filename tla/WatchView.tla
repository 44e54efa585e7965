----------------------------- MODULE WatchView -----------------------------
(***************************************************************************)
(* kubectl kbkb --watch (runWatch, internal/cli/root.go) and the           *)
(* Overwriter it prints with (pkg/printer/printer.go).  The handlers of    *)
(* the Pod informer and of the node informer run on goroutines of their    *)
(* own, and the command redraws once itself.  Each redraw lists the Pods,  *)
(* lists the nodes and prints, and nothing keeps two of them apart: they   *)
(* share the terminal and lastLines.                                       *)
(*                                                                         *)
(* The caches are the height of the tallest column and whether there are   *)
(* nodes; a frame is what a redraw saw of both, with its number of lines.  *)
(* The terminal is the rows on the screen above the cursor, the last one   *)
(* lowest; one write to it is one step.  Handlers are called for every     *)
(* event and, with the resync period, for every object again.              *)
(***************************************************************************)
EXTENDS Integers, Sequences, SequencesExt

CONSTANTS
  MaxHeight,    \* bound: Pods in a column
  MaxChanges,   \* bound: changes of the caches
  ScreenRows    \* rows of the terminal

ASSUME WatchViewAssumption ==
  /\ MaxHeight \in Nat /\ MaxChanges \in Nat
  /\ ScreenRows \in Nat /\ ScreenRows >= MaxHeight + 1

VARIABLES
  tallest, nodes,   \* the caches
  changes,
  notified,         \* whether a handler has calls waiting; main redraws once
  pc,               \* what each goroutine does next
  frame,            \* what it has read
  screen,
  lastLines,        \* Overwriter.lastLines
  last              \* history: the frame written last

caches == << tallest, nodes, changes >>
terminal == << screen, lastLines, last >>
vars == << caches, notified, pc, frame, terminal >>

Goroutines == {"main", "pods", "nodes"}

Frame == [tallest : 0 .. MaxHeight, nodes : BOOLEAN]

\* Render: the rows of the field, if it has columns, and the floor.
LinesOf(f) == (IF f.nodes THEN f.tallest ELSE 0) + 1

Render(f) == [i \in 1 .. LinesOf(f) |-> [of |-> f, line |-> i]]

\* Before the first frame: nothing.
Blank == [tallest |-> 0, nodes |-> FALSE]

TypeOK ==
  /\ tallest \in 0 .. MaxHeight /\ nodes \in BOOLEAN
  /\ changes \in 0 .. MaxChanges
  /\ notified \in [Goroutines -> BOOLEAN]
  /\ pc \in [Goroutines -> {"idle", "list", "erase", "write", "count"}]
  /\ frame \in [Goroutines -> Frame]
  /\ screen \in Seq([of : Frame, line : 1 .. MaxHeight + 1])
  /\ Len(screen) <= ScreenRows
  /\ lastLines \in 0 .. MaxHeight + 1
  /\ last \in Frame

\* The informers start with empty caches, and runWatch waits for them before it
\* redraws.
Init ==
  /\ tallest = 0 /\ nodes = FALSE /\ changes = 0
  /\ notified = [g \in Goroutines |-> g = "main"]
  /\ pc = [g \in Goroutines |-> "idle"]
  /\ frame = [g \in Goroutines |-> Blank]
  /\ screen = << >> /\ lastLines = 0 /\ last = Blank

-----------------------------------------------------------------------------
Change(g) ==
  /\ changes < MaxChanges /\ changes' = changes + 1
  /\ notified' = [notified EXCEPT ![g] = TRUE]
  /\ UNCHANGED << pc, frame, terminal >>

PodsChange ==
  /\ tallest' \in 0 .. MaxHeight /\ tallest' # tallest
  /\ UNCHANGED nodes
  /\ Change("pods")

NodesChange ==
  /\ nodes' = ~nodes
  /\ UNCHANGED tallest
  /\ Change("nodes")

\* Mutant: informers without a resync period.
ResyncNever(g) == g # "main" /\ UNCHANGED vars

\* An informer calls for each object it has.  That of the Pods is of all
\* namespaces, so there are some, whatever the field shows.
Resync(g) ==
  /\ g # "main" /\ ~notified[g]
  /\ notified' = [notified EXCEPT ![g] = TRUE]
  /\ UNCHANGED << caches, pc, frame, terminal >>

\* redraw() lists the Pods, and calls that come from now on are to come.
ListPods(g) ==
  /\ pc[g] = "idle" /\ notified[g]
  /\ notified' = [notified EXCEPT ![g] = FALSE]
  /\ frame' = [frame EXCEPT ![g].tallest = tallest]
  /\ pc' = [pc EXCEPT ![g] = "list"]
  /\ UNCHANGED << caches, terminal >>

ListNodes(g) ==
  /\ pc[g] = "list"
  /\ frame' = [frame EXCEPT ![g].nodes = nodes]
  /\ pc' = [pc EXCEPT ![g] = "erase"]
  /\ UNCHANGED << caches, notified, terminal >>

\* The cursor goes up lastLines rows, or to the top, and clears what is below.
Erase(g) ==
  /\ pc[g] = "erase"
  /\ screen' = SubSeq(screen, 1, Len(screen) - lastLines)
  /\ pc' = [pc EXCEPT ![g] = "write"]
  /\ UNCHANGED << caches, notified, frame, lastLines, last >>

Scrolled(rows) == SubSeq(rows, 1 + (IF Len(rows) > ScreenRows
                                    THEN Len(rows) - ScreenRows ELSE 0), Len(rows))

\* Mutant: the frame is written above what is there.
WriteAbove(g) ==
  /\ pc[g] = "write"
  /\ screen' = Scrolled(Render(frame[g]) \o screen)
  /\ last' = frame[g]
  /\ pc' = [pc EXCEPT ![g] = "count"]
  /\ UNCHANGED << caches, notified, frame, lastLines >>

Write(g) ==
  /\ pc[g] = "write"
  /\ screen' = Scrolled(screen \o Render(frame[g]))
  /\ last' = frame[g]
  /\ pc' = [pc EXCEPT ![g] = "count"]
  /\ UNCHANGED << caches, notified, frame, lastLines >>

\* Mutant: one line more than the frame has.
CountOver(g) ==
  /\ pc[g] = "count"
  /\ lastLines' = LinesOf(frame[g]) + 1
  /\ pc' = [pc EXCEPT ![g] = "idle"]
  /\ frame' = [frame EXCEPT ![g] = Blank]
  /\ UNCHANGED << caches, notified, screen, last >>

Count(g) ==
  /\ pc[g] = "count"
  /\ lastLines' = LinesOf(frame[g])
  /\ pc' = [pc EXCEPT ![g] = "idle"]
  /\ frame' = [frame EXCEPT ![g] = Blank]
  /\ UNCHANGED << caches, notified, screen, last >>

Redraw(g) == ListPods(g) \/ ListNodes(g) \/ Erase(g) \/ Write(g) \/ Count(g)

Next ==
  \/ PodsChange \/ NodesChange
  \/ \E g \in Goroutines : Resync(g) \/ Redraw(g)

Spec == Init /\ [][Next]_vars

\* Goroutines run, and the informers resync.
FairSpec ==
  Spec /\ \A g \in Goroutines : WF_vars(Redraw(g)) /\ WF_vars(Resync(g))

-----------------------------------------------------------------------------
\* Nobody has erased without writing yet.
Whole == \A g \in Goroutines : pc[g] # "write"

Bottom(f) == IsSuffix(Render(f), screen)

\* Whatever redraws overlap and however wrong lastLines is by then, the lowest
\* rows are the whole frame that was written last, unless it is being replaced.
\* (The rows above it may be those of a frame that nobody erased.)
LastFrameWhole == Whole /\ screen # << >> => Bottom(last)

\* A redraw that read old caches may write last: then it is for a resync to bring
\* the terminal up to date, and it stays so.
ShowsField ==
  <>[](Whole => Bottom([tallest |-> tallest, nodes |-> nodes]))
=============================================================================
