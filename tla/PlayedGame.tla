----------------------------- MODULE PlayedGame ----------------------------
(***************************************************************************)
(* The game loop with somebody to play it: the scheduler in auto mode      *)
(* instead of the Bind of GameLoop, which binds any Pod at any time.  Here *)
(* a pair is bound Pod by Pod, only onto a settled field, only when a      *)
(* whole pair waits and fits, and a request in between may fail: autoDrop  *)
(* and Drop each read the Kbkb, and one that cannot read it takes all      *)
(* nodes for columns and the flag of the scheduler for the height limit.   *)
(*                                                                         *)
(* It is the scheduler of module Scheduler with a cache that is up to      *)
(* date: how an old one misleads it is shown there, and PairIsPlayed there *)
(* is what lets PlayPair and BindNext be fair here.  No garbage arrives.   *)
(***************************************************************************)
EXTENDS GameLoop

CONSTANT FlagMaxHeight   \* the scheduler's --max-height

ASSUME FlagAssumption == FlagMaxHeight \in Nat

VARIABLES
  plan,     \* what autoDrop has still to bind, [pod, node] each
  misses    \* how many of its drops met a failed request; MaxFaults bounds all

playedVars == << vars, plan, misses >>

Placement == [pod : Names, node : DOMAIN Nodes]

PlayedTypeOK ==
  /\ TypeOK
  /\ plan \in Seq(Placement) /\ Len(plan) <= Pair
  /\ misses \in 0 .. MaxFaults

PlayedInit == Init /\ plan = << >> /\ misses = 0

-----------------------------------------------------------------------------
\* pending(): the queue.  Names are in creation order.
Waiting == { p \in Unscheduled(pods) : ~pods[p].deleting }

\* The Pods that have waited longest, in creation order: one sequence, or none
\* when too few wait.
FirstPair ==
  { q \in [1 .. Pair -> Waiting] :
      /\ \A i, j \in 1 .. Pair : i < j => q[i] < q[j]
      /\ \A p \in Waiting : (\E i \in 1 .. Pair : q[i] = p) \/ q[Pair] < p }

\* What a scheduler plays by that has read the Kbkb, and by that has not.
ColumnsFor(kb) == IF kb THEN Columns ELSE DOMAIN Nodes

LimitFor(kb) == IF kb THEN MaxHeight ELSE FlagMaxHeight

RoomOn(kb, n) == LimitFor(kb) - Cardinality({ p \in Names : pods[p].node = n })

\* Where a pair may go, one column for each Pod.
PairFits(kb) ==
  { x \in [1 .. Pair -> ColumnsFor(kb)] :
      \A i \in 1 .. Pair :
        Cardinality({ j \in 1 .. Pair : x[j] = x[i] }) <= RoomOn(kb, x[i]) }

\* Mutant: one Pod more than a pair.
PlayOneMore ==
  /\ plan = << >>
  /\ StableField(pods)
  /\ \E q \in FirstPair, x \in PairFits(TRUE) :
       plan' = [i \in 1 .. Pair + 1 |-> [pod |-> q[1], node |-> x[1]]]
  /\ UNCHANGED << vars, misses >>

\* autoDrop reads the Kbkb and chooses columns for the first pair of the queue;
\* Drop reads the Kbkb again, and refuses what does not fit by what it has read.
PlayPair ==
  /\ plan = << >>
  /\ \E kb, again \in BOOLEAN :
       /\ misses' = IF kb /\ again THEN misses ELSE misses + 1
       /\ misses' + faults <= MaxFaults
       /\ Stable(pods, New(pods, Nodes, ColumnsFor(kb)))
       /\ \E q \in FirstPair, x \in PairFits(kb) :
            plan' = IF x \in PairFits(again)
                    THEN [i \in 1 .. Pair |-> [pod |-> q[i], node |-> x[i]]]
                    ELSE << >>
  /\ UNCHANGED vars

\* Mutant: a pair of which one Pod is bound is not gone on with.
BindNextOnce ==
  /\ plan # << >>
  /\ Bind(Head(plan).pod, Head(plan).node)
  /\ plan' = << >>
  /\ UNCHANGED << eraseVars, spawnVars, misses >>

BindNext ==
  /\ plan # << >>
  /\ Bind(Head(plan).pod, Head(plan).node)
  /\ plan' = Tail(plan)
  /\ UNCHANGED << eraseVars, spawnVars, misses >>

\* The request fails, or the Pod is gone: the drop ends there.
BindFails ==
  /\ plan # << >>
  /\ \/ misses + faults < MaxFaults /\ misses' = misses + 1
     \/ Head(plan).pod \notin Unscheduled(pods) /\ UNCHANGED misses
  /\ plan' = << >>
  /\ UNCHANGED vars

-----------------------------------------------------------------------------
Manager == (EraseNext /\ UNCHANGED spawnVars) \/ (SpawnNext /\ UNCHANGED eraseVars)

Others ==
  /\ Informers \/ Kubelet \/ \E p \in Names : CleanUp(p)
  /\ UNCHANGED << eraseVars, spawnVars >>

PlayedNext ==
  \/ PlayPair \/ BindNext \/ BindFails
  \/ /\ Manager \/ Others \/ Crash
     /\ faults' + misses <= MaxFaults
     /\ UNCHANGED << plan, misses >>

PlayedSpec == PlayedInit /\ [][PlayedNext]_playedVars

\* As in GameLoop, and somebody plays: every tick of auto mode tries again, and
\* nothing has to fail.
PlayedFairness ==
  /\ Fairness
  /\ WF_playedVars(PlayPair /\ UNCHANGED misses)
  /\ WF_playedVars(BindNext \/ BindFails)

FairPlayedSpec == PlayedSpec /\ PlayedFairness

-----------------------------------------------------------------------------
\* Fewer Pods wait than make a pair: neither auto mode nor the web UI plays
\* them, and the spawn controller waits for them.
Stranded == Waiting # {} /\ FirstPair = {}

Ended == kbkb.phase = "GameOver" \/ created + Pair > MaxPods

\* The game does not come to a halt before it is over, for as long as the model
\* has names left, but where a pair does not fit (the last cell of one column),
\* or where a fault has left a part of a pair behind.
GoesOnUnlessStuck ==
  []<>(Ended \/ PairFits(TRUE) = {} \/ (Stranded /\ faults + misses > 0))

\* README: "New pairs spawn automatically once every Pod on the field is Ready.
\* The game ends when a column reaches the height limit."
GoesOn == []<>Ended
=============================================================================
