---------------------------- MODULE UdpInEndpoint ----------------------------
(***************************************************************************)
(* One IN endpoint of the firmware's USB device driver udp_device.c: the   *)
(* job of the endpoint, the banks of its FIFO, the interrupt service       *)
(* routine that refills them, and the requests that configure, free, halt  *)
(* and resume it.                                                          *)
(*                                                                         *)
(* Data are counted in units of half a packet.  A packet in the FIFO says  *)
(* of which job it is, at which offset it starts, its length, and whether  *)
(* it is the last of its job.  The operators below map a state of the      *)
(* endpoint to the next one, as the functions of the driver do; the client *)
(* runs a job from the callback of the previous one, from the start of     *)
(* frame routine, or (Use) from the main thread.                           *)
(***************************************************************************)
EXTENDS Naturals, Sequences

CONSTANTS
  PktSize,     \* ptr_job->size: units in a full packet
  MaxSize,     \* bound: units in the largest buffer
  Uses,        \* the ways in which endpoints are used: a set of Use
  Reconfigure  \* does the host reconfigure while packets are in the FIFO

(* An endpoint has banks (udd_get_endpoint_bank_max_nbr).  Does the main   *)
(* thread run transfers too (udi_cdc_tx_send), does the callback of an     *)
(* aborted job run the next (udi_hid_kbd_report_sent), and do halts,       *)
(* configurations and resets come while the main thread is in udd_ep_run?  *)
Use == [banks : {1, 2}, thread : BOOLEAN, rerun : BOOLEAN, disturbed : BOOLEAN]

ASSUME SizesAssumption  == PktSize \in Nat \ {0} /\ MaxSize \in Nat
ASSUME UsesAssumption   == Uses \subseteq Use /\ Reconfigure \in BOOLEAN

VARIABLES
  e,    \* the endpoint: CSR and IMR bits, FIFO, job; fields in TypeOK
  want, \* history: job and offset of the packet the host is to get next
  isr,  \* "none", or the routine is within "halt"
  pc,   \* the main thread in udd_ep_run
  resetPending

vars == <<e, want, isr, pc, resetPending>>

Init ==
  /\ \E u \in Uses :
     e = [use |-> u, enabled |-> FALSE, force |-> FALSE, stallSent |-> FALSE, irq |-> FALSE,
          txrdy |-> FALSE, txcomp |-> FALSE, fifo |-> <<>>,
          busy |-> FALSE, cb |-> "null", job |-> 0, size |-> 0, cnt |-> 0,
          short |-> FALSE, end |-> FALSE, stall |-> FALSE, bank |-> 0,
          given |-> FALSE]
  /\ want = [job |-> 1, off |-> 0]
  /\ isr = "none" /\ pc = "idle" /\ resetPending = FALSE

(* The buffers that a client may hand over.                                *)
Bufs == [size : 0 .. MaxSize, short : BOOLEAN]

-----------------------------------------------------------------------------
(* The functions of the driver.                                            *)

(* udd_ep_write_fifo; buf_size - buf_cnt is unsigned: past the end of the  *)
(* buffer it is huge.                                                      *)
IsShort(s)   == s.size >= s.cnt /\ s.size - s.cnt < PktSize

(* Mutant of PktLen: the last packet is full too.                          *)
PktLenFull(s) == PktSize

PktLen(s)    == IF IsShort(s) THEN s.size - s.cnt ELSE PktSize
AllLoaded(s) == s.cnt >= s.size /\ ~s.short

(* Mutant of WriteFifo: a short last packet is sent again as an empty one. *)
WriteFifoKeepsShort(s) ==
  LET t == [s EXCEPT !.cnt = @ + PktLen(s), !.bank = @ + 1]
  IN  [t EXCEPT !.fifo = Append(@, [job |-> s.job, off |-> s.cnt,
                                    len |-> PktLen(s), last |-> t.cnt >= t.size])]

WriteFifo(s) ==
  LET t == [s EXCEPT !.cnt = @ + PktLen(s), !.bank = @ + 1,
                     !.short = @ /\ ~IsShort(s)]
  IN  [t EXCEPT !.fifo = Append(@, [job |-> s.job, off |-> s.cnt,
                                    len |-> PktLen(s), last |-> AllLoaded(t)])]

(* udd_ep_in_sent loads a bank if one is free and data are left.           *)
MayLoad(s) == s.bank < s.use.banks /\ ~AllLoaded(s)

InSent(s, tx) ==
  IF ~MayLoad(s) THEN s
  ELSE LET t == WriteFifo(s)
       IN  [t EXCEPT !.txrdy = @ \/ tx, !.end = @ \/ AllLoaded(t)]

(* The value it returns: true for "Pending".                               *)
Pending(s) == s.bank >= s.use.banks \/ (MayLoad(s) /\ ~AllLoaded(WriteFifo(s)))

(* udd_ep_run once the job is filled in.                                   *)
StartJob(s) ==
  LET t == [s EXCEPT !.irq = TRUE] IN
  IF s.txrdy \/ s.txcomp THEN t
  ELSE IF Pending(t) THEN InSent(InSent(t, TRUE), FALSE) ELSE InSent(t, TRUE)

Accepts(s) == s.enabled /\ ~s.stall /\ ~s.force /\ ~s.busy

(* udd_ep_run as the interrupt routine calls it, with no other context in  *)
(* between; refused, it changes nothing.                                   *)
Run(s, buf) ==
  IF ~Accepts(s) THEN s
  ELSE StartJob([s EXCEPT !.busy = TRUE, !.job = 1 - @, !.size = buf.size,
                          !.cnt = 0, !.cb = "trans",
                          !.short = buf.short \/ buf.size = 0, !.end = FALSE,
                          !.given = TRUE])

(* udd_ep_finish_job: the states after the client's callback.              *)
Finish(s) ==
  IF ~s.busy THEN {s}
  ELSE LET t == [s EXCEPT !.busy = FALSE, !.given = @ /\ s.cb = "null"]
       IN  {t} \cup (IF s.cb = "null" THEN {} ELSE {Run(t, b) : b \in Bufs})

(* Mutant of Abort: the job ends and nobody is told.                       *)
AbortSilently(s) == {[s EXCEPT !.busy = FALSE]}

(* The same with UDD_EP_TRANSFER_ABORT.                                    *)
Abort(s) ==
  IF s.use.rerun THEN Finish(s)
  ELSE {[s EXCEPT !.busy = FALSE, !.given = @ /\ ~(s.busy /\ s.cb # "null")]}

-----------------------------------------------------------------------------
(* udd_ep_interrupt, a packet was sent.                                    *)

Ack(s) == [s EXCEPT !.txcomp = FALSE]

(* bank--, an uint8_t.                                                     *)
BankSent(s) == [s EXCEPT !.bank = (@ + 255) % 256]

(* A halt was requested: send what is left, then stall.                    *)
SentStalling(s) ==
  IF s.bank # 0 THEN Ack([s EXCEPT !.txrdy = TRUE])
  ELSE [Ack(s) EXCEPT !.force = TRUE, !.stall = FALSE]

(* Mutant of EndReached: the end is only looked at when no bank is left.   *)
EndReachedLate(s) ==
  IF s.end /\ s.bank # 0 THEN Finish([s EXCEPT !.end = FALSE, !.size = s.cnt]) ELSE {s}

(* Finish the job when its end was loaded.                                 *)
EndReached(s) ==
  IF s.end THEN Finish([s EXCEPT !.end = FALSE, !.size = s.cnt]) ELSE {s}

(* Send the other bank while loading, or load one and send it.             *)
Refill(s) ==
  IF AllLoaded(s) /\ s.bank = 0 THEN {Ack([s EXCEPT !.irq = FALSE])}
  ELSE IF s.use.banks = 1 THEN {Ack(InSent(s, TRUE))}
  ELSE IF s.bank > 0 THEN {InSent(Ack([s EXCEPT !.txrdy = TRUE]), FALSE)}
  ELSE LET t == InSent(s, TRUE)
           u == [t EXCEPT !.end = FALSE, !.size = t.cnt]
       IN  {InSent(Ack(v), FALSE) : v \in IF Pending(s) THEN {t} ELSE Finish(u)}

IsrSent(s) ==
  LET t == BankSent(s) IN
  IF t.stall THEN {SentStalling(t)}
  ELSE UNION {Refill(u) : u \in EndReached(t)}

-----------------------------------------------------------------------------
(* The hardware and the host.                                              *)

NextJob == [job |-> 1 - e.job, off |-> 0]

(* The packet that follows p.                                              *)
After(p) == IF p.last THEN [job |-> 1 - p.job, off |-> 0]
            ELSE [job |-> p.job, off |-> p.off + p.len]

(* The host takes the packet that is ready; an empty bank is sent as an    *)
(* empty packet.                                                           *)
HostTake ==
  /\ e.enabled /\ ~e.force /\ e.txrdy
  /\ e' = [e EXCEPT !.txrdy = FALSE, !.txcomp = TRUE,
                    !.fifo = IF @ = <<>> THEN @ ELSE Tail(@)]
  /\ want' = IF e.fifo = <<>> THEN want ELSE After(Head(e.fifo))
  /\ UNCHANGED <<isr, pc, resetPending>>

HostStalled ==
  /\ e.enabled /\ e.force /\ ~e.stallSent
  /\ e' = [e EXCEPT !.stallSent = TRUE]
  /\ UNCHANGED <<want, isr, pc, resetPending>>

(* May the bus be reset or the control endpoint be served now?             *)
Undisturbed == e.use.disturbed \/ pc = "idle"

(* A bus reset clears every CSR and IMR, and the FIFO.                     *)
BusReset ==
  /\ ~resetPending /\ Undisturbed
  /\ resetPending' = TRUE
  /\ e' = [e EXCEPT !.enabled = FALSE, !.force = FALSE, !.stallSent = FALSE,
                    !.irq = FALSE, !.txrdy = FALSE, !.txcomp = FALSE, !.fifo = <<>>]
  /\ UNCHANGED <<want, isr, pc>>

-----------------------------------------------------------------------------
(* The interrupt routine.                                                  *)
InIsr == isr = "none" /\ ~resetPending

IsrIn ==
  /\ InIsr /\ e.irq /\ e.txcomp
  /\ e' \in IsrSent(e)
  /\ UNCHANGED <<want, isr, pc, resetPending>>

IsrStall ==
  /\ InIsr /\ e.irq /\ ~e.txcomp /\ e.stallSent
  /\ e' = [e EXCEPT !.stallSent = FALSE]
  /\ UNCHANGED <<want, isr, pc, resetPending>>

(* End of bus reset: kill the jobs, then udc_reset frees the endpoints.    *)
IsrReset ==
  /\ isr = "none" /\ resetPending
  /\ resetPending' = FALSE
  /\ e' \in Abort([e EXCEPT !.enabled = FALSE])
  /\ want' = NextJob
  /\ UNCHANGED <<isr, pc>>

(* The start of frame routine of a class runs a job.                       *)
IsrRun ==
  /\ InIsr /\ Accepts(e)
  /\ \E b \in Bufs : e' = Run(e, b)
  /\ UNCHANGED <<want, isr, pc, resetPending>>

EpFree ==
  /\ InIsr /\ Undisturbed /\ e.enabled
  /\ Reconfigure \/ (e.fifo = <<>> /\ ~e.txcomp)
  /\ e' \in Abort([e EXCEPT !.enabled = FALSE])
  /\ want' = NextJob
  /\ UNCHANGED <<isr, pc, resetPending>>

(* udd_reset_endpoint empties the FIFO; the flags of CSR stay.             *)
EpAlloc ==
  /\ InIsr /\ Undisturbed /\ ~e.enabled
  /\ e' = [e EXCEPT !.enabled = TRUE, !.end = FALSE, !.stall = FALSE,
                    !.bank = 0, !.fifo = <<>>]
  /\ UNCHANGED <<want, isr, pc, resetPending>>

(* Mutant of Killed: the count of buffered banks is kept.                  *)
KilledKeepsBank(s) == [s EXCEPT !.irq = FALSE, !.txrdy = FALSE,
                                !.txcomp = FALSE, !.fifo = <<>>]

(* SET_FEATURE(ENDPOINT_HALT): udd_ep_abort kills the banks, acknowledges, *)
(* resets the FIFO and aborts the job ...                                  *)
Killed(s) == [s EXCEPT !.irq = FALSE, !.txrdy = FALSE, !.txcomp = FALSE,
                       !.bank = 0, !.fifo = <<>>]

HaltAbort ==
  /\ InIsr /\ Undisturbed /\ e.enabled
  /\ isr' = "halt"
  /\ e' \in Abort(Killed(e))
  /\ want' = NextJob
  /\ UNCHANGED <<pc, resetPending>>

(* ... and udd_ep_set_halt stalls, at once or when the banks are sent.     *)
HaltSet ==
  /\ isr = "halt"
  /\ isr' = "none"
  /\ e' = IF e.txrdy \/ e.bank > 1
          THEN [e EXCEPT !.stall = TRUE, !.irq = TRUE]
          ELSE [e EXCEPT !.force = TRUE, !.irq = TRUE]
  /\ UNCHANGED <<want, pc, resetPending>>

(* CLEAR_FEATURE(ENDPOINT_HALT).  A registered job is over and its         *)
(* callback, whichever the union holds, is called; it may run a job.       *)
ClearHalt ==
  /\ InIsr /\ Undisturbed /\ (e.force \/ e.stall)
  /\ LET s == [e EXCEPT !.stall = FALSE]
         t == [s EXCEPT !.force = FALSE, !.stallSent = FALSE, !.fifo = <<>>,
                        !.busy = FALSE, !.given = @ /\ ~e.busy]
     IN  IF ~e.force THEN e' = s
         ELSE e' \in {t} \cup (IF e.busy THEN {Run(t, b) : b \in Bufs} ELSE {})
  /\ UNCHANGED <<want, isr, pc, resetPending>>

(* udd_ep_wait_stall_clear on a halted endpoint.                           *)
WaitStallClear ==
  /\ InIsr /\ Undisturbed /\ e.enabled /\ ~e.busy /\ (e.force \/ e.stall)
  /\ e' = [e EXCEPT !.busy = TRUE, !.cb = "nohalt"]
  /\ UNCHANGED <<want, isr, pc, resetPending>>

-----------------------------------------------------------------------------
(* udd_ep_run in the main thread, one step per access that the interrupt   *)
(* routine may come between.                                               *)
InThread == e.use.thread /\ isr = "none"

RunCheck ==
  /\ InThread /\ pc = "idle" /\ e.enabled /\ ~e.stall /\ ~e.force
  /\ pc' = "checked"
  /\ UNCHANGED <<e, want, isr, resetPending>>

RunClaim ==
  /\ InThread /\ pc = "checked"
  /\ e' = [e EXCEPT !.busy = TRUE]
  /\ pc' = IF e.busy THEN "idle" ELSE "claimed"
  /\ UNCHANGED <<want, isr, resetPending>>

RunSize ==
  /\ InThread /\ pc = "claimed"
  /\ \E n \in 0 .. MaxSize : e' = [e EXCEPT !.job = 1 - @, !.size = n]
  /\ pc' = "sized"
  /\ UNCHANGED <<want, isr, resetPending>>

RunSetup ==
  /\ InThread /\ pc = "sized"
  /\ \E b \in BOOLEAN :
       e' = [e EXCEPT !.cnt = 0, !.cb = "trans", !.given = TRUE,
                      !.short = b \/ e.size = 0, !.end = FALSE]
  /\ pc' = "set"
  /\ UNCHANGED <<want, isr, resetPending>>

RunStart ==
  /\ InThread /\ pc = "set"
  /\ e' = StartJob(e)
  /\ pc' = "idle"
  /\ UNCHANGED <<want, isr, resetPending>>

-----------------------------------------------------------------------------
Hardware == HostTake \/ HostStalled \/ BusReset
Isr      == IsrIn \/ IsrStall \/ IsrReset \/ IsrRun
Requests == EpFree \/ EpAlloc \/ HaltAbort \/ HaltSet \/ ClearHalt \/ WaitStallClear
Thread   == RunCheck \/ RunClaim \/ RunSize \/ RunSetup \/ RunStart

Next == Hardware \/ Isr \/ Requests \/ Thread

Spec == Init /\ [][Next]_vars

(* The host keeps polling the endpoint, interrupts are served and the      *)
(* routine runs to its end.                                                *)
Fairness ==
  /\ WF_vars(HostTake) /\ WF_vars(IsrIn) /\ WF_vars(IsrReset) /\ WF_vars(HaltSet)
  /\ WF_vars(RunClaim) /\ WF_vars(RunSize) /\ WF_vars(RunSetup) /\ WF_vars(RunStart)

FairSpec == Spec /\ Fairness

-----------------------------------------------------------------------------
Packets == [job : {0, 1}, off : 0 .. MaxSize, len : 0 .. PktSize, last : BOOLEAN]

(* The fields of the endpoint have their types, and no more packets are    *)
(* buffered than there are banks.                                          *)
TypeOK ==
  /\ e \in [use : Uses, enabled : BOOLEAN, force : BOOLEAN, stallSent : BOOLEAN,
            irq : BOOLEAN, txrdy : BOOLEAN, txcomp : BOOLEAN,
            fifo : UNION {[1 .. n -> Packets] : n \in 0 .. 2},
            busy : BOOLEAN, cb : {"null", "trans", "nohalt"}, job : {0, 1},
            size : 0 .. MaxSize, cnt : 0 .. MaxSize, short : BOOLEAN,
            end : BOOLEAN, stall : BOOLEAN, bank : 0 .. 255, given : BOOLEAN]
  /\ Len(e.fifo) <= e.use.banks
  /\ want \in [job : {0, 1}, off : 0 .. MaxSize]
  /\ isr \in {"none", "halt"} /\ pc \in {"idle", "checked", "claimed", "sized", "set"}
  /\ resetPending \in BOOLEAN

(* "No data buffered in FIFO" (udd_ep_alloc), "Reset number of buffered    *)
(* banks" (udd_ep_abort): the driver's count of buffered banks is the      *)
(* number of packets in the FIFO plus the one whose end it has not seen.   *)
BankCounts ==
  e.enabled => e.bank = Len(e.fifo) + (IF e.txcomp THEN 1 ELSE 0)

(* The host gets every packet of every job once and in order: what is      *)
(* ready to be sent is the packet that follows the last one it got, over   *)
(* appended jobs, both banks, empty last packets and halts.  (A job run by *)
(* the callback of an abort may be lost in a halt.)                        *)
StreamInOrder ==
  e.txrdy /\ ~e.use.rerun => /\ e.fifo # <<>>
             /\ want = [job |-> Head(e.fifo).job, off |-> Head(e.fifo).off]

(* A buffer that was accepted for a transfer comes back: while the driver  *)
(* has it the job is on.                                                   *)
EveryRunIsAnswered == e.given => e.busy

(* Every transfer that the driver accepts ends while the host polls; but   *)
(* for one run by the callback of the abort that precedes a halt.          *)
TransfersEnd ==
  \A j \in {0, 1} : e.given /\ e.job = j /\ ~e.use.rerun ~> ~e.given \/ e.job # j
=============================================================================
