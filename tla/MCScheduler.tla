---------------------------- MODULE MCScheduler ----------------------------
(***************************************************************************)
(* Scheduler on small clusters: NumColumns columns, then NumMasters        *)
(* control-plane nodes, which are excluded when the Kbkb can be read.      *)
(***************************************************************************)
EXTENDS Scheduler

CONSTANTS NumColumns, NumMasters

MCNodes ==
  [n \in 1 .. NumColumns + NumMasters |->
     [created |-> n,
      labels |-> IF n > NumColumns THEN ControlPlaneLabel :> "" ELSE << >>]]

MCSelector == << >>
=============================================================================
