------------------------------ MODULE MCUdiCdcRx ------------------------------
(***************************************************************************)
(* The receiving half of the serial port under names of its own, for TLC   *)
(* and for UdiProofs, which speaks of the sending half and of the keyboard *)
(* as well.                                                                *)
(***************************************************************************)
EXTENDS Naturals

CONSTANTS
  RxBufSize, Banks, ReadSizes,  \* see UdiCdcRx
  MaxSent, MaxRead              \* bounds, MaxBytes and MaxRead of UdiCdcRx

ASSUME ReadsAssumption ==
  /\ RxBufSize \in Nat \ {0} /\ Banks \in {1, 2} /\ MaxSent \in Nat /\ MaxRead \in Nat
  /\ ReadSizes \subseteq Nat \ {0}

VARIABLES rx, rxEp, fifo, rxRunning, rxPc, rxOp, local, sent, read, passed

Rx == INSTANCE UdiCdcRx WITH
  BufSize <- RxBufSize, MaxBytes <- MaxSent,
  ep <- rxEp, running <- rxRunning, pc <- rxPc, op <- rxOp

RxSpec     == Rx!Spec
RxFairSpec == Rx!FairSpec

(* What the host sends is read once and in order, and the port does not    *)
(* stop by itself, see UdiCdcRx!ReceivesInOrder.                           *)
ReceivesInOrder == Rx!ReceivesInOrder

(* A thread that waits for bytes gets them, see UdiCdcRx!ReceivesInTheEnd. *)
ReceivesInTheEnd == Rx!ReceivesInTheEnd
=============================================================================
