------------------------------- MODULE Score -------------------------------
(***************************************************************************)
(* What the status of a Kbkb promises its readers (KbkbStatus in           *)
(* api/v1beta1/kbkb_types.go): the scores are those of one game played one *)
(* step after the other, whatever the two controllers that write them do   *)
(* at the same time, from however old a copy.                              *)
(***************************************************************************)
EXTENDS Integers

CONSTANT Kokeshi

VARIABLES phase, chain, maxChain, totalErased, allClears

scores == << maxChain, totalErased, allClears >>

Init ==
  /\ phase = "" /\ chain = 0
  /\ maxChain = 0 /\ totalErased = 0 /\ allClears = 0

\* One link of a chain: at least one group of kokeshi Pods or more.
Erase ==
  /\ phase' = "Erasing"
  /\ chain' = IF phase = "Erasing" THEN chain + 1 ELSE 1
  /\ maxChain' = IF maxChain < chain' THEN chain' ELSE maxChain
  /\ totalErased' \in Nat /\ totalErased' >= totalErased + Kokeshi
  /\ UNCHANGED allClears

\* The chain ends; the field may have been cleared by it.
EndChain ==
  /\ phase = "Erasing"
  /\ phase' = "Idle" /\ chain' = 0
  /\ allClears' \in {allClears, allClears + 1}
  /\ UNCHANGED << maxChain, totalErased >>

FirstIdle ==
  /\ phase = ""
  /\ phase' = "Idle" /\ chain' = 0
  /\ UNCHANGED scores

GameOver ==
  /\ phase # "GameOver"
  /\ phase' = "GameOver"
  /\ UNCHANGED << chain, scores >>

NewGame ==
  /\ phase = "GameOver"
  /\ phase' = "Idle" /\ chain' = 0
  /\ maxChain' = 0 /\ totalErased' = 0 /\ allClears' = 0

Next == Erase \/ EndChain \/ FirstIdle \/ GameOver \/ NewGame

Spec == Init /\ [][Next]_<< phase, chain, scores >>
=============================================================================
