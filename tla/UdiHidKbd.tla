------------------------------ MODULE UdiHidKbd ------------------------------
(***************************************************************************)
(* The keyboard udi_hid_kbd.c: the application changes a report, in        *)
(* critical sections, which is sent at once unless one is being sent; the  *)
(* callback of a transfer sends the report again if it has changed.  Which *)
(* transfers the endpoint accepts, and when their callback comes, is what  *)
(* udp_device.c does for an IN endpoint; the callback is called for an     *)
(* aborted transfer too and does not look which.                           *)
(***************************************************************************)
EXTENDS Naturals, FiniteSetsExt

CONSTANTS
  Keys,       \* keys that the application presses, none of them 0
  Modifiers,  \* modifier keys
  Slots       \* keys in a report: UDI_HID_KBD_REPORT_SIZE - 2

ASSUME KeysAssumption == 0 \notin Keys /\ Slots \in Nat \ {0}

VARIABLES
  report,   \* udi_hid_kbd_report: its modifiers, its array of keys
  valid,    \* udi_hid_kbd_b_report_valid: report is newer than what was sent
  ongoing,  \* udi_hid_kbd_b_report_trans_ongoing
  ep,       \* the endpoint and its job, see TypeOK
  host,     \* the report the host has got last
  lost      \* history: the newest report was refused by udd_ep_run or aborted

vars == <<report, valid, ongoing, ep, host, lost>>

Released == [mods |-> {}, keys |-> [i \in 1 .. Slots |-> 0]]
NoJob == [state |-> "none", data |-> Released]

Init ==
  /\ report = Released /\ valid = FALSE /\ ongoing = FALSE
  /\ ep = [enabled |-> FALSE, halted |-> FALSE, stallRequested |-> FALSE, job |-> NoJob]
  /\ host = Released /\ lost = FALSE

-----------------------------------------------------------------------------
(* Sending, in either context.                                             *)

Accepts(e) == e.enabled /\ ~e.halted /\ ~e.stallRequested /\ e.job.state = "none"

(* Mutant of Send: a report that has to wait is forgotten.                 *)
SendOrForget(r, busy, e) ==
  /\ valid' = FALSE
  /\ ongoing' = (busy \/ Accepts(e))
  /\ ep' = IF ~busy /\ Accepts(e)
           THEN [e EXCEPT !.job = [state |-> "sent", data |-> r]] ELSE e
  /\ lost' = IF busy THEN lost ELSE ~Accepts(e)

(* udi_hid_kbd_send_report with report r: nothing while one is being sent, *)
(* else ongoing says whether udd_ep_run accepted it, and valid is cleared. *)
Send(r, busy, e) ==
  \/ /\ busy
     /\ valid' = TRUE /\ ongoing' = TRUE /\ ep' = e
     /\ UNCHANGED lost
  \/ /\ ~busy
     /\ valid' = FALSE /\ ongoing' = Accepts(e) /\ lost' = ~Accepts(e)
     /\ ep' = IF Accepts(e) THEN [e EXCEPT !.job = [state |-> "sent", data |-> r]]
              ELSE e

(* udi_hid_kbd_report_sent, called when e has no job; gone says that the   *)
(* host has not got the report that was being sent.                        *)
ReportSent(e, gone) ==
  \/ /\ valid
     /\ Send(report, FALSE, e)
  \/ /\ ~valid
     /\ ongoing' = FALSE /\ ep' = e /\ lost' = (lost \/ gone)
     /\ UNCHANGED valid

-----------------------------------------------------------------------------
(* The application.                                                        *)

Change(r) == report' = r /\ Send(r, ongoing, ep) /\ UNCHANGED host

ModifierUp(m)   == Change([report EXCEPT !.mods = @ \ {m}])
ModifierDown(m) == Change([report EXCEPT !.mods = @ \cup {m}])

(* The slots at which the loops over the array stop for key k. *)
Stops(k) == {i \in 1 .. Slots : report.keys[i] \in {0, k}}

(* Mutant of Removed: the last slot keeps its key.                         *)
RemovedKeepsLast(keys, i) ==
  [j \in 1 .. Slots |-> IF j >= i /\ j < Slots THEN keys[j + 1] ELSE keys[j]]

(* The key in slot i is removed, and those behind it move up. *)
Removed(keys, i) ==
  [j \in 1 .. Slots |->
     CASE j < i -> keys[j] [] j = Slots -> 0 [] OTHER -> keys[j + 1]]

Up(k) ==
  /\ Stops(k) # {} /\ report.keys[Min(Stops(k))] = k
  /\ Change([report EXCEPT !.keys = Removed(@, Min(Stops(k)))])

(* A key that is pressed already, or one too many, changes nothing. *)
Down(k) ==
  /\ Stops(k) # {} /\ report.keys[Min(Stops(k))] = 0
  /\ Change([report EXCEPT !.keys[Min(Stops(k))] = k])

-----------------------------------------------------------------------------
(* The interrupt routine.                                                  *)

(* The packet was taken.  A halt that waited for it is executed, and the   *)
(* job is left on without its callback.                                    *)
IsrSent ==
  /\ ep.job.state = "taken"
  /\ \/ /\ ep.stallRequested
        /\ ep' = [ep EXCEPT !.stallRequested = FALSE, !.halted = TRUE,
                            !.job.state = "held"]
        /\ UNCHANGED <<valid, ongoing, lost>>
     \/ /\ ~ep.stallRequested
        /\ ReportSent([ep EXCEPT !.job = NoJob], FALSE)
  /\ UNCHANGED <<report, host>>

(* A job that is on ends as aborted, with its callback. *)
Abort(e) ==
  \/ /\ e.job.state = "none"
     /\ ep' = e
     /\ UNCHANGED <<valid, ongoing, lost>>
  \/ /\ e.job.state # "none"
     /\ ReportSent([e EXCEPT !.job = NoJob], e.job.state = "sent")

(* The endpoint is freed; a bus reset has cleared its registers too. *)
Disable ==
  /\ ep.enabled
  /\ \E halted \in {ep.halted, FALSE} :
       Abort([ep EXCEPT !.enabled = FALSE, !.halted = halted])
  /\ UNCHANGED <<report, host>>

(* udd_ep_alloc and udi_hid_kbd_enable; the host forgets what was pressed. *)
Enable ==
  /\ ~ep.enabled
  /\ ep' = [ep EXCEPT !.enabled = TRUE, !.stallRequested = FALSE]
  /\ report' = Released /\ valid' = FALSE /\ ongoing' = FALSE
  /\ host' = Released /\ lost' = FALSE

(* SET_FEATURE(ENDPOINT_HALT): udd_ep_abort, whose callback may run the     *)
(* next transfer, and udd_ep_set_halt, which lets that be sent first.      *)
HaltNow ==
  /\ ep.job.state = "none" \/ ~valid
  /\ Abort([ep EXCEPT !.halted = TRUE])

HaltAfterNext ==
  /\ ep.job.state # "none" /\ valid
  /\ ep' = [ep EXCEPT !.stallRequested = TRUE, !.job = [state |-> "sent", data |-> report]]
  /\ valid' = FALSE /\ ongoing' = TRUE /\ lost' = FALSE

Halt ==
  /\ ep.enabled /\ ~ep.halted /\ ~ep.stallRequested
  /\ HaltNow \/ HaltAfterNext
  /\ UNCHANGED <<report, host>>

(* CLEAR_FEATURE(ENDPOINT_HALT): a halt still waiting is forgotten, and a  *)
(* job left on is over: its callback is called.                            *)
ClearHalt ==
  /\ ep.enabled
  /\ \/ /\ ep.stallRequested
        /\ ep' = [ep EXCEPT !.stallRequested = FALSE]
        /\ UNCHANGED <<valid, ongoing, lost>>
     \/ /\ ep.halted
        /\ Abort([ep EXCEPT !.halted = FALSE])
  /\ UNCHANGED <<report, host>>

HostTakes ==
  /\ ep.job.state = "sent"
  /\ ep' = [ep EXCEPT !.job.state = "taken"]
  /\ host' = ep.job.data
  /\ UNCHANGED <<report, valid, ongoing, lost>>

-----------------------------------------------------------------------------
Application ==
  \/ \E k \in Keys : Up(k) \/ Down(k)
  \/ \E m \in Modifiers : ModifierUp(m) \/ ModifierDown(m)

Requests == Enable \/ Disable \/ Halt \/ ClearHalt

Next == Application \/ IsrSent \/ Requests \/ HostTakes

Spec == Init /\ [][Next]_vars

(* Interrupts are served and the host polls the endpoint.                  *)
FairSpec == Spec /\ WF_vars(IsrSent) /\ WF_vars(HostTakes)

-----------------------------------------------------------------------------
(* The keys of a report fill its first slots, none twice. *)
Packed(keys) ==
  /\ keys \in [1 .. Slots -> Keys \cup {0}]
  /\ \A i, j \in 1 .. Slots : i < j => keys[j] = 0 \/ keys[i] \notin {0, keys[j]}

Reports == [mods : SUBSET Modifiers, keys : {k \in [1 .. Slots -> Keys \cup {0}] : Packed(k)}]

(* Every variable has its type.  What is reported has no key twice and no  *)
(* gap, which the loops rely on that stop at the first free slot; and a    *)
(* report that waits waits for one that is being sent.                     *)
TypeOK ==
  /\ report \in Reports /\ host \in Reports
  /\ valid \in BOOLEAN /\ ongoing \in BOOLEAN /\ lost \in BOOLEAN
  /\ ep \in [enabled : BOOLEAN, halted : BOOLEAN, stallRequested : BOOLEAN,
             job : [state : {"none", "sent", "taken", "held"}, data : Reports]]
  /\ valid => ongoing
  /\ ongoing <=> ep.job.state # "none"

(* The host ends up with the keys that are pressed: while nothing changes, *)
(* the last report arrives, unless its transfer was refused or aborted or  *)
(* the endpoint is halted.  Reports that follow each other quickly may     *)
(* pass unseen, the last one not.                                          *)
LastReportArrives ==
  \A r \in Reports :
    report = r /\ ep.enabled
      ~> host = r \/ report # r \/ lost \/ ep.halted \/ ~ep.enabled
=============================================================================
