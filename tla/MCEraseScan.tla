---------------------------- MODULE MCEraseScan ----------------------------
(***************************************************************************)
(* EraseScan on every field of a small box: every choice of stack heights  *)
(* and of colours.  A Pod is named by its cell.                            *)
(***************************************************************************)
EXTENDS EraseScan

CONSTANTS Width, MaxStack, Palette

MCFields ==
  UNION { LET box == { <<x, y>> : x \in 0 .. Width - 1, y \in 0 .. MaxStack - 1 }
              pods == { c \in box : c[2] < h[c[1]] }
          IN  { [at |-> [c \in pods |-> c], color |-> f] :
                  f \in [pods -> Palette \cup {ColorWhite}] } :
          h \in [0 .. Width - 1 -> 0 .. MaxStack] }
=============================================================================
