---------------------------- MODULE MCUdpControl ----------------------------
(***************************************************************************)
(* The control endpoint for TLC and the proofs, with a routine that serves *)
(* each packet before the next SETUP comes.  The README says what happens  *)
(* otherwise.                                                              *)
(***************************************************************************)
EXTENDS Naturals

CONSTANTS PktSize, MaxLength, Aborts

ASSUME ControlAssumption ==
  /\ PktSize \in Nat \ {0} /\ MaxLength \in Nat /\ MaxLength < 65536
  /\ Aborts \in BOOLEAN

VARIABLES host, c, csr, fifo

Ctl == INSTANCE UdpControl WITH Prompt <- TRUE

CtlSpec     == Ctl!Spec
CtlFairSpec == Ctl!FairSpec

(* A host that ends the data phase of an IN request has the whole buffer   *)
(* of the class, and one told that its OUT data arrived is told the truth, *)
(* see UdpControl!DataComplete.                                            *)
DataComplete == Ctl!DataComplete

(* The driver does not leave the IN data phase before the host does,       *)
(* unless it has nothing to send, see UdpControl!PhaseEndsTogether.        *)
PhaseEndsTogether == Ctl!PhaseEndsTogether

(* Only a refused request, or one sending more than the class takes, is    *)
(* stalled, see UdpControl!StallsOnlyItsRequest.                           *)
StallsOnlyItsRequest == Ctl!StallsOnlyItsRequest

(* A finished request had its callback once, after the handshake, see      *)
(* UdpControl!CallbackOnceAfterHandshake.                                  *)
CallbackOnceAfterHandshake == Ctl!CallbackOnceAfterHandshake

(* Every request ends, but for one in whose data stage there is nothing to *)
(* send, see UdpControl!TransfersEnd.                                      *)
TransfersEnd == Ctl!TransfersEnd
=============================================================================
