------------------------------- MODULE Display -------------------------------
(***************************************************************************)
(* What each stage between a drawing program and the panel promises: the   *)
(* host drivers towards the device, and the firmware towards the panel.    *)
(* A cell shows what it was given at some time, and never goes back to     *)
(* something given before what it shows already.  When a cell is shown,    *)
(* and whether every version is, is left open.                             *)
(*                                                                         *)
(* MemLcdUsb, MemLcdSpi and MemLcdFw implement this specification.         *)
(***************************************************************************)
EXTENDS Naturals

CONSTANT Cells   \* the parts of the picture that change one by one

VARIABLES
  given,   \* the version of each cell that the stage was given last
  shown    \* the version of each cell that the stage has passed on

vars == <<given, shown>>

Init == given = [c \in Cells |-> 0] /\ shown = given

(* A version given before this step, and not before the one shown. *)
Showable(c) == shown[c] .. given[c]

Next ==
  /\ given' \in [Cells -> Nat]
  /\ shown' \in [Cells -> Nat]
  /\ \A c \in Cells : given'[c] >= given[c] /\ shown'[c] \in Showable(c)

Spec == Init /\ [][Next]_vars
=============================================================================
