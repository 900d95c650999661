---------------------------- MODULE MCInterruptIn ----------------------------
(***************************************************************************)
(* Instances for TLC of the two classes that send through an interrupt IN  *)
(* endpoint: the keyboard and the serial-state notifications.  Each has    *)
(* the endpoint of an interface of its own and shares no state with the    *)
(* other, so a behaviour is one of the one or of the other.                *)
(***************************************************************************)
EXTENDS UdiHidKbd

CONSTANT Deviations

VARIABLES
  class,  \* the one that this behaviour is of
  state, msg, cdcOngoing, call, cdcEp, cdcHost, fresh, cdcLost

Cdc == INSTANCE UdiCdcComm
         WITH ongoing <- cdcOngoing, ep <- cdcEp, host <- cdcHost, lost <- cdcLost

cdcVars == <<state, msg, cdcOngoing, call, cdcEp, cdcHost, fresh, cdcLost>>

MCInit == class \in {"keyboard", "serial"} /\ Init /\ Cdc!Init

MCNext ==
  \/ class = "keyboard" /\ Next /\ UNCHANGED <<class, cdcVars>>
  \/ class = "serial" /\ Cdc!Next /\ UNCHANGED <<class, vars>>

(* What the fairness asks for is not enabled in the class at rest.         *)
MCSpec ==
  /\ MCInit /\ [][MCNext]_<<class, vars, cdcVars>>
  /\ WF_vars(IsrSent) /\ WF_vars(HostTakes)
  /\ WF_cdcVars(Cdc!Notify) /\ WF_cdcVars(Cdc!IsrSent) /\ WF_cdcVars(Cdc!HostTakes)

(* The host is told of an error of the serial port only if it occurred     *)
(* since it was told last, see UdiCdcComm!ErrorsToldOnce; and a message is *)
(* marked as under way exactly while one is (UdiCdcComm!TypeOK).           *)
ErrorsToldOnce == Cdc!TypeOK /\ Cdc!ErrorsToldOnce

(* The host ends up with the lines of the serial port as they are, see     *)
(* UdiCdcComm!LinesArrive.                                                 *)
LinesArrive == Cdc!LinesArrive
=============================================================================
