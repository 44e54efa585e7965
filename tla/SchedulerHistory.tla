-------------------------- MODULE SchedulerHistory --------------------------
(***************************************************************************)
(* The scheduler with a history of how the Pods came.  It checks heights   *)
(* in its cache, so whether it keeps columns to their height depends on    *)
(* what may be missing there: the Pods of the pair before (created while   *)
(* one waits, by a spawn controller that reads an old cache), garbage, and *)
(* what a failed request leaves behind.  The variable records that none of *)
(* these has happened; no action of the scheduler reads it.                *)
(***************************************************************************)
EXTENDS Scheduler

VARIABLE calm   \* history: pairs came one at a time, no garbage, no failed request

historyVars == << vars, calm >>

\* Garbage is created, or the first Pod of a pair while a Pod of another waits.
Crowds ==
  /\ created' # created
  /\ pods'[created'].ojama \/ (created % PairSize = 0 /\ QueuedInStore # {})

StaysCalm == faults' = 0 /\ ~Crowds

HistoryInit == Init /\ calm = TRUE

HistoryNext == Next /\ calm' = (calm /\ StaysCalm)

HistorySpec == HistoryInit /\ [][HistoryNext]_historyVars

-----------------------------------------------------------------------------
\* One player is refused full columns for as long as it is calm, however old the
\* cache is: what is not in it of the pair before, the checks of Drop do not need.
\* After that the scheduler may overfill a column (see RefusesFullColumns).
RefusesWhileCalm == [][calm' => \A p \in Names : ~Overfills(p)]_historyVars
=============================================================================
