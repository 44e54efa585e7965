---------------------------- MODULE MCGameLoop -----------------------------
(***************************************************************************)
(* GameLoop on small clusters: NumColumns columns, then NumMasters         *)
(* control-plane nodes, which are excluded.                                *)
(***************************************************************************)
EXTENDS GameLoop, TLC

CONSTANTS NumColumns, NumMasters

MCNodes ==
  [n \in 1 .. NumColumns + NumMasters |->
     [created |-> n,
      labels |-> IF n > NumColumns THEN ControlPlaneLabel :> "" ELSE << >>]]

MCSelector == << >>
=============================================================================
