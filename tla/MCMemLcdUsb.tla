---------------------------- MODULE MCMemLcdUsb ----------------------------
(* Instances of MemLcdUsb for TLC.                                         *)
EXTENDS MemLcdUsb
CONSTANT w1

(* Two lines to a page, so that a fault for one line also opens another.   *)
MCPages == {l \div 2 : l \in Lines}
MCPageOf == [l \in Lines |-> l \div 2]
=============================================================================
