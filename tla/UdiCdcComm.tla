----------------------------- MODULE UdiCdcComm -----------------------------
(***************************************************************************)
(* The notifications of the serial state in udi_cdc.c.  The application    *)
(* sets and clears signals; the state is sent when it differs from the     *)
(* message sent last and no message is being sent, by the call itself or   *)
(* by the callback of the message before.  The callback comes for aborted  *)
(* messages too.  Errors are reported once: the callback takes them out of *)
(* the state and the message.                                              *)
(*                                                                         *)
(* The call updates the state in a critical section, and nothing else: the *)
(* interrupt routine may run between any two of its other steps.  Which    *)
(* transfers the endpoint accepts, and when their callback comes, is what  *)
(* udp_device.c does for an IN endpoint.                                   *)
(***************************************************************************)
EXTENDS Naturals

CONSTANT
  Deviations   \* {} or {"race"}: a message may be over before the call that
               \* sent it has stored that it is under way

(* The signals that are set and cleared, and the irregular ones that a     *)
(* message clears.  Break and ring are never raised.                       *)
Lines  == {"DCD", "DSR"}
Errors == {"FRAMING", "PARITY", "OVERRUN"}

VARIABLES
  state,    \* udi_cdc_state
  msg,      \* uid_cdc_state_msg.value
  ongoing,  \* udi_cdc_serial_state_msg_ongoing
  call,     \* the call of the application: its next step and, after
            \* udd_ep_run, what that has returned
  ep,       \* the endpoint and its job, see TypeOK
  host,     \* the lines in the message the host has got last
  fresh,    \* history: errors that occurred since the host was told of them
  lost      \* history: the newest message was refused by udd_ep_run, aborted, or
            \* sent to another endpoint

usb  == <<ongoing, ep, lost>>
vars == <<state, msg, call, usb, host, fresh>>

Signals == Lines \cup Errors
NoJob == [state |-> "none", data |-> {}]

Init ==
  /\ state = {} /\ msg = {} /\ ongoing = FALSE
  /\ call = [at |-> "none", ok |-> FALSE]
  /\ ep = [enabled |-> FALSE, halted |-> FALSE, stallRequested |-> FALSE, job |-> NoJob]
  /\ host = {} /\ fresh = {} /\ lost = FALSE

-----------------------------------------------------------------------------
(* udd_ep_run of the message, which is copied into the FIFO at once.       *)
Accepts(e) == e.enabled /\ ~e.halted /\ ~e.stallRequested /\ e.job.state = "none"

Run(e, m) ==
  /\ ep' = IF Accepts(e) THEN [e EXCEPT !.job = [state |-> "sent", data |-> m]] ELSE e
  /\ lost' = ~Accepts(e)

-----------------------------------------------------------------------------
(* The application.                                                        *)
Goto(step) == call' = [call EXCEPT !.at = step]

Changed(s) ==
  /\ call.at = "none" /\ Goto("test")
  /\ state' = s
  /\ UNCHANGED <<msg, usb, host>>

SignalLine(l) ==
  /\ Changed(state \cup {l}) \/ Changed(state \ {l})
  /\ UNCHANGED fresh

SignalError(x) ==
  /\ Changed(state \cup {x})
  /\ fresh' = fresh \cup {x}

(* udi_cdc_ctrl_state_notify.                                              *)
Test ==
  /\ call.at = "test"
  /\ Goto(IF ~ongoing /\ state # msg THEN "fill" ELSE "none")
  /\ UNCHANGED <<state, msg, usb, host, fresh>>

Fill ==
  /\ call.at = "fill" /\ Goto("run")
  /\ msg' = state
  /\ UNCHANGED <<state, usb, host, fresh>>

RunMessage ==
  /\ call.at = "run"
  /\ Run(ep, msg)
  /\ call' = [at |-> "store", ok |-> Accepts(ep)]
  /\ UNCHANGED <<state, msg, ongoing, host, fresh>>

Store ==
  /\ call.at = "store" /\ Goto("none")
  /\ ongoing' = call.ok
  /\ UNCHANGED <<state, msg, ep, lost, host, fresh>>

-----------------------------------------------------------------------------
(* The interrupt routine.                                                  *)

(* It is not served between udd_ep_run and the store, or it is a race.     *)
MayInterrupt == call.at # "store" \/ "race" \in Deviations

(* Mutant of Reported: the errors stay in the message.                     *)
ReportedForGood(s) == s

(* The signals that are left when a message is over.                       *)
Reported(s) == s \ Errors

(* udi_cdc_serial_state_msg_sent, when e has no job; gone says that the    *)
(* host has not got the message.                                           *)
MessageSent(e, gone) ==
  /\ state' = Reported(state)
  /\ \/ /\ Reported(state) = Reported(msg)
        /\ msg' = Reported(msg) /\ ongoing' = FALSE
        /\ ep' = e /\ lost' = (lost \/ gone)
     \/ /\ Reported(state) # Reported(msg)
        /\ msg' = Reported(state) /\ ongoing' = Accepts(e)
        /\ Run(e, Reported(state))

(* The same with the number of another endpoint as argument, and the lines *)
(* sent in the message: udd_ep_run refuses the next one, or it is under    *)
(* way where nobody expects it.                                            *)
MessageAstray(e, sent) ==
  /\ state' = Reported(state) /\ msg' = Reported(state) /\ lost' = TRUE
  /\ \/ ongoing' = FALSE /\ ep' = e
     \/ /\ Reported(state) # sent
        /\ ongoing' = TRUE
        /\ ep' = [e EXCEPT !.job = [state |-> "astray", data |-> {}]]

Interrupt == MayInterrupt /\ UNCHANGED <<call, host, fresh>>

(* The message was taken.  A halt that waited for it is executed, and the  *)
(* job is left on without its callback.                                    *)
IsrSent ==
  /\ ep.job.state = "taken"
  /\ \/ /\ ep.stallRequested
        /\ ep' = [ep EXCEPT !.stallRequested = FALSE, !.halted = TRUE,
                            !.job.state = "held"]
        /\ UNCHANGED <<state, msg, ongoing, lost>>
     \/ /\ ~ep.stallRequested
        /\ MessageSent([ep EXCEPT !.job = NoJob], FALSE)
  /\ Interrupt

(* A message on another endpoint is over: sent, aborted, or, when that one *)
(* is an OUT endpoint, overwritten by what the host has sent.              *)
IsrAstray ==
  /\ ep.job.state = "astray"
  /\ \E sent \in SUBSET Lines : MessageAstray([ep EXCEPT !.job = NoJob], sent)
  /\ Interrupt

(* A job that is on here ends as aborted, with its callback. *)
HasJob(e) == e.job.state \notin {"none", "astray"}

Abort(e) ==
  \/ /\ ~HasJob(e)
     /\ ep' = e
     /\ UNCHANGED <<state, msg, ongoing, lost>>
  \/ /\ HasJob(e)
     /\ MessageSent([e EXCEPT !.job = NoJob], e.job.state = "sent")

(* The endpoint is freed; a bus reset has cleared its registers too. *)
Disable ==
  /\ ep.enabled
  /\ \E halted \in {ep.halted, FALSE} :
       Abort([ep EXCEPT !.enabled = FALSE, !.halted = halted])
  /\ Interrupt

(* Mutant of Enable: the message keeps the state of the last connection.   *)
EnableKeepsMessage ==
  /\ ~ep.enabled
  /\ ep' = [ep EXCEPT !.enabled = TRUE, !.stallRequested = FALSE]
  /\ state' = {} /\ host' = {} /\ fresh' = {} /\ lost' = (ep.job.state = "astray")
  /\ MayInterrupt
  /\ UNCHANGED <<msg, ongoing, call>>

(* udd_ep_alloc and udi_cdc_comm_enable, which leaves ongoing alone; the   *)
(* host takes the signals for cleared.                                     *)
Enable ==
  /\ ~ep.enabled
  /\ ep' = [ep EXCEPT !.enabled = TRUE, !.stallRequested = FALSE]
  /\ state' = {} /\ msg' = {} /\ host' = {} /\ fresh' = {}
  /\ lost' = (ep.job.state = "astray")
  /\ MayInterrupt
  /\ UNCHANGED <<ongoing, call>>

(* SET_FEATURE(ENDPOINT_HALT): udd_ep_abort, whose callback may run the    *)
(* next message, and udd_ep_set_halt, which lets that be sent first.       *)
SendsNext == HasJob(ep) /\ Reported(state) # Reported(msg)

Halt ==
  /\ ep.enabled /\ ~ep.halted /\ ~ep.stallRequested
  /\ \/ ~SendsNext /\ Abort([ep EXCEPT !.halted = TRUE])
     \/ /\ SendsNext
        /\ state' = Reported(state) /\ msg' = Reported(state) /\ ongoing' = TRUE
        /\ ep' = [ep EXCEPT !.stallRequested = TRUE,
                            !.job = [state |-> "sent", data |-> Reported(state)]]
        /\ lost' = FALSE
  /\ Interrupt

(* CLEAR_FEATURE(ENDPOINT_HALT): a halt still waiting is forgotten, and a  *)
(* job left on is over: its callback is called.  But udd_ep_clear_halt     *)
(* calls it without arguments, so that ep, to which it sends the next      *)
(* message, is any number.                                                 *)
ClearHalt ==
  /\ ep.enabled
  /\ \/ /\ ep.stallRequested
        /\ ep' = [ep EXCEPT !.stallRequested = FALSE]
        /\ UNCHANGED <<state, msg, ongoing, lost>>
     \/ /\ ep.halted
        /\ \/ Abort([ep EXCEPT !.halted = FALSE])
           \/ /\ HasJob(ep)
              /\ MessageAstray([ep EXCEPT !.halted = FALSE, !.job = NoJob], Reported(msg))
  /\ Interrupt

HostTakes ==
  /\ ep.job.state = "sent"
  /\ ep' = [ep EXCEPT !.job.state = "taken"]
  /\ host' = ep.job.data \intersect Lines
  /\ fresh' = fresh \ ep.job.data
  /\ UNCHANGED <<state, msg, ongoing, call, lost>>

-----------------------------------------------------------------------------
Notify == Test \/ Fill \/ RunMessage \/ Store
Requests == Enable \/ Disable \/ Halt \/ ClearHalt

Next ==
  \/ \E l \in Lines : SignalLine(l)
  \/ \E x \in Errors : SignalError(x)
  \/ Notify \/ IsrSent \/ IsrAstray \/ Requests \/ HostTakes

Spec == Init /\ [][Next]_vars

(* A call goes on, interrupts are served, the host polls the endpoint.     *)
FairSpec == Spec /\ WF_vars(Notify) /\ WF_vars(IsrSent) /\ WF_vars(HostTakes)

-----------------------------------------------------------------------------
(* Every variable has its type; a message is marked as under way when one  *)
(* is, but for the call that is about to store it.                         *)
TypeOK ==
  /\ state \subseteq Signals /\ msg \subseteq Signals /\ ongoing \in BOOLEAN
  /\ call \in [at : {"none", "test", "fill", "run", "store"}, ok : BOOLEAN]
  /\ ep \in [enabled : BOOLEAN, halted : BOOLEAN, stallRequested : BOOLEAN,
             job : [state : {"none", "sent", "taken", "held", "astray"}, data : SUBSET Signals]]
  /\ host \subseteq Lines /\ fresh \subseteq Errors /\ lost \in BOOLEAN
  /\ call.at # "store" => (ongoing <=> ep.job.state # "none")

(* "will not send another notification until their state changes": the     *)
(* host is told of an error only if it occurred since it was told last,    *)
(* whatever else changes while messages are sent, aborted and refused.     *)
ErrorsToldOnce ==
  ep.job.state = "sent" => ep.job.data \intersect Errors \subseteq fresh

(* The host ends up with the lines as they are: while they do not change,  *)
(* their last state arrives, unless its message was refused or aborted, or *)
(* went to another endpoint, or the endpoint is halted.                    *)
LinesArrive ==
  \A r \in SUBSET Lines :
    state \intersect Lines = r /\ ep.enabled
      ~> \/ host = r \/ state \intersect Lines # r
         \/ lost \/ ep.halted \/ ~ep.enabled

(* The host is told of an error.  Does not hold: see the README, known     *)
(* deviations.                                                             *)
ErrorsArrive ==
  \A x \in Errors :
    x \in fresh ~> x \notin fresh \/ lost \/ ep.halted \/ ~ep.enabled
=============================================================================
