------------------------------ MODULE MCUdiCdcTx ------------------------------
(***************************************************************************)
(* The sending half of the serial port under names of its own, for TLC and *)
(* for UdiProofs, which speaks of the receiving half and of the keyboard   *)
(* as well.                                                                *)
(***************************************************************************)
EXTENDS Naturals

CONSTANTS
  TxBufSize, WriteSizes, Frames, ZlpDelay, Spills,  \* see UdiCdcTx
  MaxWritten                                        \* bound, MaxBytes of UdiCdcTx

ASSUME WritesAssumption ==
  /\ TxBufSize \in Nat \ {0} /\ MaxWritten \in Nat
  /\ WriteSizes \subseteq Nat \ {0}
ASSUME DelaysAssumption ==
  Frames \in Nat \ {0, 1} /\ ZlpDelay \in Nat \ {0} /\ Spills \in BOOLEAN

VARIABLES tx, txEp, frame, sof, txRunning, txPc, txOp, stored, arrived

Tx == INSTANCE UdiCdcTx WITH
  BufSize <- TxBufSize, MaxBytes <- MaxWritten,
  ep <- txEp, running <- txRunning, pc <- txPc, op <- txOp

TxSpec     == Tx!Spec
TxFairSpec == Tx!FairSpec

(* What the application stores is sent once and in order, and the port     *)
(* does not stop by itself, see UdiCdcTx!SendsInOrder.                     *)
SendsInOrder == Tx!SendsInOrder

(* While the link is up every byte is sent in the end, see                 *)
(* UdiCdcTx!SendsInTheEnd.                                                 *)
SendsInTheEnd == Tx!SendsInTheEnd
=============================================================================
