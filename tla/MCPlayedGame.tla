--------------------------- MODULE MCPlayedGame ----------------------------
(***************************************************************************)
(* PlayedGame on small clusters: columns 1 .. NumColumns, and a control-   *)
(* plane node that is excluded.                                            *)
(***************************************************************************)
EXTENDS PlayedGame, TLC

CONSTANT NumColumns

MCNodes ==
  [n \in 1 .. NumColumns + 1 |->
     [created |-> n,
      labels |-> IF n = NumColumns + 1 THEN ControlPlaneLabel :> "" ELSE << >>]]

MCSelector == << >>
=============================================================================
