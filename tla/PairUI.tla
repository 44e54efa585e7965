------------------------------- MODULE PairUI -------------------------------
(***************************************************************************)
(* The pair a player operates (internal/scheduler/web/app.js).  It lives   *)
(* in the browser alone: frames of the event stream set the field it moves *)
(* in, keys move and turn it, and locking it sends two placements to the   *)
(* scheduler, whose answer may come before or after the frame that shows   *)
(* it.                                                                     *)
(*                                                                         *)
(* Of a frame the heights, the names of the queued Pods (the garbage left  *)
(* out) and whether it is `open`: manual mode, a stable field, no game     *)
(* over.  Columns are numbered from 0 as in app.js and are always the      *)
(* same ones.  The scheduler is its check of a drop (Scheduler has the     *)
(* rest), and the field changes in every way that other players, garbage,  *)
(* erasures and the kubelet change it.                                     *)
(***************************************************************************)
EXTENDS Integers, Sequences, SequencesExt, FiniteSets, FiniteSetsExt

CONSTANTS
  Cols,         \* number of columns
  MaxHeight,    \* spawn.maxHeight
  Ceiling,      \* bound: how high garbage piles up
  MaxPairs,     \* bound: pairs spawned
  MaxChanges    \* bound: changes by others, and requests that fail

ASSUME PairUIAssumption ==
  /\ Cols \in Nat /\ Cols >= 1
  /\ MaxHeight \in Nat /\ MaxHeight >= 1
  /\ Ceiling \in Nat /\ Ceiling >= MaxHeight
  /\ MaxPairs \in Nat /\ MaxChanges \in Nat

VARIABLES
  height, queue,   \* the field and the queue as they are
  spawned,         \* pairs spawned so far
  changes,
  wire,            \* frames on their way
  shown,           \* `state` of the browser
  pair,            \* `pair`
  drawn,           \* the pair as it was last rendered, or NoPair
  dropping,        \* what has become of the request: "no", "sent", "served"
  request,         \* its placements; history: the frame it was made from
  overfull         \* history: the pair has seen a column above MaxHeight

world == << height, queue, spawned >>
browser == << shown, pair, drawn, overfull >>
vars == << world, changes, wire, browser, dropping, request >>

Columns == 0 .. Cols - 1

Names == 1 .. 2 * MaxPairs

SkyRows == 2

Rows == MaxHeight + SkyRows

\* Bound: a row from which the pair does not come back into the grid.
Off == Rows + 1

Frame == [height : [Columns -> 0 .. Ceiling], queue : Seq(Names), open : BOOLEAN]

NoFrame == [height |-> [c \in Columns |-> 0], queue |-> << >>, open |-> FALSE]

Pair == [col : Columns, row : 0 .. Off, rot : 0 .. 3, key : {0} \cup Names]

NoPair == [col |-> 0, row |-> 0, rot |-> 0, key |-> 0]

NoRequest == [placements |-> << >>, of |-> NoFrame]

TypeOK ==
  /\ height \in [Columns -> 0 .. Ceiling]
  /\ queue \in Seq(Names) /\ Len(queue) <= 2
  /\ spawned \in 0 .. MaxPairs /\ changes \in 0 .. MaxChanges
  /\ wire \in Seq(Frame) /\ shown \in Frame
  /\ pair \in Pair /\ drawn \in Pair
  /\ dropping \in {"no", "sent", "served"}
  /\ request.placements \in Seq([pod : Names, node : Columns])
  /\ request.of \in Frame
  /\ overfull \in BOOLEAN

Init ==
  /\ height = [c \in Columns |-> 0] /\ queue = << >> /\ spawned = 0
  /\ changes = 0
  /\ wire = << >> /\ shown = NoFrame
  /\ pair = NoPair /\ drawn = NoPair
  /\ dropping = "no" /\ request = NoRequest
  /\ overfull = FALSE

-----------------------------------------------------------------------------
(***************************************************************************)
(* The pair on the heights h of the frame.  rot is the side of the         *)
(* satellite: 0 above, 1 right, 2 below, 3 left of the pivot.              *)
(***************************************************************************)
SatCol(p) == p.col + << 0, 1, 0, -1 >>[p.rot + 1]

SatRow(p) == p.row + << 1, 0, -1, 0 >>[p.rot + 1]

CellFree(h, c, r) == c \in Columns /\ r \in h[c] .. Rows - 1

PairFits(h, p) == CellFree(h, p.col, p.row) /\ CellFree(h, SatCol(p), SatRow(p))

Shifted(p, dc, dr) == [p EXCEPT !.col = @ + dc, !.row = @ + dr]

TryMove(h, p, dc, dr) ==
  IF PairFits(h, Shifted(p, dc, dr)) THEN Shifted(p, dc, dr) ELSE p

\* Where a pair that has been turned to np goes, the first that fits: it stays,
\* climbs a ledge, is kicked off a wall or a step, floats up, is pushed down.
Kicks(h, np) ==
  LET sc == SatCol(np)
      off == Shifted(np, np.col - sc, 0)
  IN  CASE np.rot = 0 -> << np, Shifted(np, 0, -1) >>
        [] np.rot = 2 -> << np, Shifted(np, 0, 1) >>
        [] OTHER -> IF sc \in Columns /\ h[sc] = np.row + 1
                    THEN << np, Shifted(np, 0, 1), off >>
                    ELSE << np, off >>

\* Mutant: a kick is not checked.
TryRotateUnchecked(h, p, quarters) ==
  LET np == [p EXCEPT !.rot = (@ + quarters) % 4]
  IN  IF PairFits(h, np) THEN np ELSE Last(Kicks(h, np))

TryRotate(h, p, quarters) ==
  LET tries == Kicks(h, [p EXCEPT !.rot = (@ + quarters) % 4])
      fitting == { i \in DOMAIN tries : PairFits(h, tries[i]) }
  IN  IF fitting = {} THEN p ELSE tries[Min(fitting)]

\* hardDrop() until it locks.
Fallen(h, p) ==
  IF PairFits(h, Shifted(p, 0, -1))
  THEN [p EXCEPT !.row = Min({ r \in 0 .. p.row : PairFits(h, [p EXCEPT !.row = r]) })]
  ELSE p

Spawns(f) == [col |-> (Cols - 1) \div 2, row |-> MaxHeight, rot |-> 0,
              key |-> Head(f.queue)]

\* Mutant: only the pivot is lifted out of the stacks.
SyncPairPivot(f, p) ==
  LET q == IF p.key = Head(f.queue) THEN p ELSE Spawns(f)
  IN  [q EXCEPT !.row = Min({ r \in q.row .. Off : CellFree(f.height, q.col, r) }
                            \cup {Off})]

\* A new pair starts over; the pair is lifted until it fits, or out of the grid.
SyncPair(f, p) ==
  LET q == IF p.key = Head(f.queue) THEN p ELSE Spawns(f)
  IN  [q EXCEPT !.row =
         Min({ r \in q.row .. Rows : PairFits(f.height, [q EXCEPT !.row = r]) }
             \cup {Off})]

\* Mutant: always the pivot first.
PlacementsPivotFirst(f, p) ==
  << [pod |-> f.queue[1], node |-> p.col], [pod |-> f.queue[2], node |-> SatCol(p)] >>

\* Bottom-first.
Placements(f, p) ==
  LET pivot == [pod |-> f.queue[1], node |-> p.col]
      sat == [pod |-> f.queue[2], node |-> SatCol(p)]
  IN  IF p.rot = 2 THEN << sat, pivot >> ELSE << pivot, sat >>

Stacked(placements, i) ==
  Cardinality({ j \in 1 .. i : placements[j].node = placements[i].node })

\* Mutant: each Pod is checked by itself.
ValidDropEach(f, p) ==
  \A i \in 1 .. 2 : f.height[Placements(f, p)[i].node] + 1 <= MaxHeight

ValidDrop(f, p) ==
  LET pl == Placements(f, p)
  IN  \A i \in DOMAIN pl : f.height[pl[i].node] + Stacked(pl, i) <= MaxHeight

OperableIn(f) == f.open /\ Len(f.queue) >= 2

Operable == OperableIn(shown) /\ dropping = "no"

-----------------------------------------------------------------------------
(***************************************************************************)
(* The browser.                                                            *)
(***************************************************************************)
Set(f, p) ==
  /\ pair' = p
  /\ overfull' = ((overfull /\ pair.key = p.key)
                    \/ \E c \in Columns : f.height[c] > MaxHeight)

\* render() with a pair that can be operated.
Draw(f, p) == (\E q \in {SyncPair(f, p)} : Set(f, q)) /\ drawn' = pair'

\* lock()
Lock(p) ==
  /\ ValidDrop(shown, p)
  /\ Set(shown, p)
  /\ drawn' = NoPair
  /\ dropping' = "sent"
  /\ request' = [placements |-> Placements(shown, p), of |-> shown]
  /\ UNCHANGED shown

\* The pair as keydown finds it.
Synced == SyncPair(shown, pair)

\* Left, right and the two turns.
Steer ==
  /\ Operable
  /\ \/ \E dc \in {-1, 1} : Draw(shown, TryMove(shown.height, Synced, dc, 0))
     \/ \E quarters \in {1, 3} : Draw(shown, TryRotate(shown.height, Synced, quarters))
  /\ UNCHANGED << world, changes, wire, shown, dropping, request >>

\* Mutant: the pair on the ground is not locked.
SoftDropNoLock ==
  /\ Operable
  /\ Draw(shown, TryMove(shown.height, Synced, 0, -1))
  /\ UNCHANGED << world, changes, wire, shown, dropping, request >>

SoftDrop ==
  /\ Operable
  /\ \E p \in {Synced} : \E down \in {TryMove(shown.height, p, 0, -1)} :
       \/ /\ down # p \/ ~ValidDrop(shown, p)
          /\ Draw(shown, down)
          /\ UNCHANGED << shown, dropping, request >>
       \/ down = p /\ Lock(p)
  /\ UNCHANGED << world, changes, wire >>

\* keydown returns after hardDrop() without rendering, also when it did not lock.
HardDrop ==
  /\ Operable
  /\ \E p \in {Fallen(shown.height, Synced)} :
       \/ Lock(p)
       \/ /\ ~ValidDrop(shown, p)
          /\ Set(shown, p)
          /\ UNCHANGED << shown, drawn, dropping, request >>
  /\ UNCHANGED << world, changes, wire >>

\* es.onmessage
Receive ==
  /\ wire # << >>
  /\ shown' = Head(wire)
  /\ wire' = Tail(wire)
  /\ IF OperableIn(shown') /\ dropping = "no"
     THEN Draw(shown', pair)
     ELSE drawn' = NoPair /\ UNCHANGED << pair, overfull >>
  /\ UNCHANGED << world, changes, dropping, request >>

\* fetch() returns, or throws.  Nothing is rendered.
Answered ==
  /\ dropping = "served"
  /\ dropping' = "no"
  /\ request' = NoRequest
  /\ UNCHANGED << world, changes, wire, browser >>

-----------------------------------------------------------------------------
(***************************************************************************)
(* The scheduler and the field.                                            *)
(***************************************************************************)
\* The checks of Drop.
Accepts(placements) ==
  \A i \in DOMAIN placements :
    /\ placements[i].pod \in ToSet(queue)
    /\ height[placements[i].node] + Stacked(placements, i) <= MaxHeight

\* At most two Pods wait: what is left of the queue is a stretch of it.
Bound(placements) ==
  LET bound == { placements[i].pod : i \in DOMAIN placements }
      left == { i \in DOMAIN queue : queue[i] \notin bound }
  IN  /\ height' = [c \in Columns |->
           height[c] + Cardinality({ i \in DOMAIN placements : placements[i].node = c })]
      /\ queue' = IF left = {} THEN << >> ELSE SubSeq(queue, Min(left), Max(left))

Change == changes < MaxChanges /\ changes' = changes + 1

\* handleDrop.  A request that fails has bound both Pods, one or none.
Serve ==
  /\ dropping = "sent"
  /\ dropping' = "served"
  /\ LET pl == request.placements
     IN  \/ /\ IF Accepts(pl) THEN Bound(pl) ELSE UNCHANGED << height, queue >>
            /\ UNCHANGED changes
         \/ /\ Change
            /\ \/ UNCHANGED << height, queue >>
               \/ Accepts(pl) /\ Bound(<< pl[1] >>)
  /\ UNCHANGED << spawned, wire, browser, request >>

\* The next pair is spawned when nothing is queued.
Spawn ==
  /\ queue = << >> /\ spawned < MaxPairs
  /\ queue' = << 2 * spawned + 1, 2 * spawned + 2 >>
  /\ spawned' = spawned + 1
  /\ UNCHANGED << height, changes, wire, browser, dropping, request >>

\* Another browser, or auto mode, drops the pair.
OtherDrops ==
  /\ Len(queue) = 2
  /\ Change
  /\ \E a, b \in Columns :
       LET pl == << [pod |-> queue[1], node |-> a], [pod |-> queue[2], node |-> b] >>
       IN  Accepts(pl) /\ Bound(pl)
  /\ UNCHANGED << spawned, wire, browser, dropping, request >>

\* Garbage lands, Pods of a column are erased, a queued Pod is deleted.
OthersChange ==
  /\ Change
  /\ \/ \E c \in Columns : /\ height[c] < Ceiling
                           /\ height' = [height EXCEPT ![c] = @ + 1]
                           /\ UNCHANGED queue
     \/ \E c \in Columns : /\ height[c] > 0
                           /\ \E n \in 0 .. height[c] - 1 :
                                height' = [height EXCEPT ![c] = n]
                           /\ UNCHANGED queue
     \/ \E i \in DOMAIN queue : queue' = RemoveAt(queue, i) /\ UNCHANGED height
  /\ UNCHANGED << spawned, wire, browser, dropping, request >>

SendFrame(open) ==
  /\ wire = << >>
  /\ wire' = << [height |-> height, queue |-> queue, open |-> open] >>
  /\ UNCHANGED << world, changes, browser, dropping, request >>

Next ==
  \/ Steer \/ SoftDrop \/ HardDrop \/ Receive \/ Answered
  \/ Serve \/ Spawn \/ OtherDrops \/ OthersChange
  \/ \E open \in BOOLEAN : SendFrame(open)

Spec == Init /\ [][Next]_vars

\* The player keeps pressing down.
FairSpec == Spec /\ WF_vars(SoftDrop)

-----------------------------------------------------------------------------
\* However frames, keys and turns with their kicks alternate, the pair is drawn
\* on free cells of the grid.  Only a column above MaxHeight, which garbage may
\* bring, lifts it out of the grid, and it stays there when the column shrinks.
DrawnFits ==
  drawn # NoPair =>
    PairFits(shown.height, drawn) \/ (overfull /\ drawn.row = Off)

\* The check in the browser and the one in the scheduler agree: a drop that is
\* sent is accepted, as long as its Pods wait and no stack has grown since the
\* frame it was made from.
SentIsAccepted ==
  /\ dropping = "sent"
  /\ { x.pod : x \in ToSet(request.placements) } \subseteq ToSet(queue)
  /\ \A c \in Columns : height[c] <= request.of.height[c]
  => Accepts(request.placements)

\* The Pods of the drawn pair, from below: the cells it was drawn on.
DrawnCells(p) ==
  << [pod |-> shown.queue[1], node |-> p.col, row |-> p.row],
     [pod |-> shown.queue[2], node |-> SatCol(p), row |-> SatRow(p)] >>

\* What is sent is what the player last saw: each Pod goes to the column it was
\* drawn in, and of two in one column the lower one goes first.
SentAsDrawn ==
  [][dropping = "no" /\ dropping' = "sent" /\ drawn # NoPair =>
       LET cells == DrawnCells(drawn)
           sent == request'.placements
       IN  /\ drawn.key = shown.queue[1]
           /\ \A i \in 1 .. 2 : \E j \in 1 .. 2 :
                sent[j].pod = cells[i].pod /\ sent[j].node = cells[i].node
           /\ sent[1].node = sent[2].node =>
                \A i, j \in 1 .. 2 :
                  sent[1].pod = cells[i].pod /\ sent[2].pod = cells[j].pod
                    => cells[i].row < cells[j].row]_vars

\* Down locks the pair in the end, unless the player never stops steering (a turn
\* on the ground floats the pair up), or its columns are full.
DownLocks ==
  <>[][pair'.key = pair.key => pair'.col = pair.col /\ pair'.rot = pair.rot]_pair
    => []<>(~Operable \/ ~ValidDrop(shown, Synced))
=============================================================================
