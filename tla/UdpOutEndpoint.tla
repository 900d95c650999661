--------------------------- MODULE UdpOutEndpoint ---------------------------
(***************************************************************************)
(* One OUT endpoint of the firmware's USB device driver udp_device.c: the  *)
(* job of the endpoint, its status register CSR, the interrupt service     *)
(* routine, the requests of the control endpoint that reach it (configure, *)
(* free, halt, clear halt) and the bus reset.                              *)
(*                                                                         *)
(* The processor has one core: the interrupt routine is never preempted by *)
(* the main thread, while the hardware and the host go on between any two  *)
(* steps.  The callback of a job runs inside the routine; the OUT classes  *)
(* (udi_vendor.c, udi_cdc.c) start the next job there, or do not, after a  *)
(* completed transfer, and never after an aborted one.                     *)
(***************************************************************************)
EXTENDS Naturals, Sequences

CONSTANTS
  Banks,       \* udd_get_endpoint_bank_max_nbr(ep)
  JobSize,     \* packets that the buffer of a job holds
  Rewinds      \* does a bus reset rewind the bank pointer of the hardware

ASSUME BanksAssumption == Banks \in {1, 2}
ASSUME JobSizeAssumption == JobSize \in Nat \ {0}
ASSUME SwitchAssumption == Rewinds \in BOOLEAN

VARIABLES
  enabled, force, stallSent, \* CSR: EPEDS, FORCESTALL, STALLSENT
  irqOn,                     \* the endpoint's bit of IMR
  rx,                        \* packets received and not acknowledged, oldest first
  hwNext,                    \* the bank that the hardware fills next
  busy, cb, left, bank,      \* job: busy, the callback union, room left, bank
  isr,     \* "none", or the routine is within "halt" or "enable", see below
  pc,      \* the main thread in udd_ep_run: "idle", "checked", "claimed", "set"
  resetPending,              \* ENDBUSRES
  given,   \* history: a client's buffer is with the driver
  wasReset,\* history: the bus was reset since udd_enable
  threaded \* history: the main thread has called udd_ep_run too, as
           \* udi_cdc_rx_start does

csr  == <<enabled, force, stallSent, irqOn>>
fifo == <<rx, hwNext>>
job  == <<busy, cb, left, bank>>
ctx  == <<isr, pc, resetPending>>
hist == <<given, wasReset, threaded>>
vars == <<csr, fifo, job, ctx, hist>>

BankIds == 0 .. Banks - 1
Sizes   == {"full", "short", "empty"}
Other(b) == (b + 1) % Banks

Init ==
  /\ enabled = FALSE /\ force = FALSE /\ stallSent = FALSE /\ irqOn = FALSE
  /\ rx = <<>> /\ hwNext = 0
  /\ busy = FALSE /\ cb = "null" /\ left = 0 /\ bank = 0
  /\ isr = "none" /\ pc = "idle" /\ resetPending = FALSE
  /\ given = FALSE /\ wasReset = FALSE /\ threaded = FALSE

-----------------------------------------------------------------------------
(* The hardware and the host.                                              *)

HostSend ==
  /\ enabled /\ ~force
  /\ Len(rx) < Banks
  /\ \E s \in Sizes : rx' = Append(rx, [bank |-> hwNext, size |-> s])
  /\ hwNext' = Other(hwNext)
  /\ UNCHANGED <<csr, job, ctx, hist>>

(* The host addresses a halted endpoint and is answered STALL.             *)
HostStalled ==
  /\ enabled /\ force /\ ~stallSent
  /\ stallSent' = TRUE
  /\ UNCHANGED <<enabled, force, irqOn, fifo, job, ctx, hist>>

(* The hardware clears every CSR and IMR when the bus is reset.            *)
BusReset ==
  /\ ~resetPending
  /\ resetPending' = TRUE
  /\ wasReset' = TRUE
  /\ enabled' = FALSE /\ force' = FALSE /\ stallSent' = FALSE /\ irqOn' = FALSE
  /\ rx' = <<>>
  /\ hwNext' = IF Rewinds THEN 0 ELSE hwNext
  /\ UNCHANGED <<job, isr, pc, given, threaded>>

(* udd_reset_endpoint empties the FIFO and the byte count; the flags of    *)
(* received banks stay.                                                    *)
ResetFifo(q) == [k \in DOMAIN q |-> [q[k] EXCEPT !.size = "empty"]]

-----------------------------------------------------------------------------
(* Pieces of the interrupt routine.                                        *)

InIsr == isr = "none" /\ ~resetPending

(* Mutant of AbortJob: the job ends and nobody is told.                    *)
AbortJobSilently ==
  /\ busy' = FALSE
  /\ UNCHANGED <<given, cb, left, bank>>

(* udd_ep_finish_job with UDD_EP_TRANSFER_ABORT.                           *)
AbortJob ==
  /\ busy' = FALSE
  /\ given' = (given /\ ~(busy /\ cb # "null"))
  /\ UNCHANGED <<cb, left, bank>>

(* Mutant of AckedBank: bank 0 is preferred whenever it is flagged.        *)
AckedBankLowest ==
  IF \E k \in DOMAIN rx : rx[k].bank = 0 THEN 0 ELSE 1

(* The bank that udd_ep_ack_out_received takes for the one just read: with *)
(* all banks flagged the job's own, else the flagged one.                  *)
AckedBank == IF Len(rx) = 2 THEN bank ELSE Head(rx).bank

(* The flag of that bank is cleared: of the oldest packet, or by mistake    *)
(* of the second one.                                                      *)
ClearBank == rx' = IF AckedBank = Head(rx).bank THEN Tail(rx) ELSE <<Head(rx)>>

(* Mutant of AckOut: the job's bank only counts up.                        *)
AckOutNoWrap == ClearBank /\ bank' = AckedBank + 1

(* ... and the job moves to the other bank.                                *)
AckOut == ClearBank /\ bank' = Other(AckedBank)

(* The packet fills the buffer: nb_data > 0 and nb_data >= nb_remain.      *)
Fills(p) == p.size # "empty" /\ left <= 1

(* Mutant of FinishOut: the interrupt is disabled after the callback.      *)
FinishOutThenMask(again) ==
  /\ irqOn' = FALSE
  /\ busy' = again
  /\ given' = (again \/ (given /\ ~(busy /\ cb # "null")))
  /\ left' = IF again THEN JobSize ELSE 0

(* Disable the interrupt, end the job if one is on, and call the client,   *)
(* which may run the next job from its callback.                           *)
FinishOut(again) ==
  /\ irqOn' = again
  /\ busy' = again
  /\ given' = (again \/ (given /\ ~(busy /\ cb # "null")))
  /\ left' = IF again THEN JobSize ELSE 0

(* udd_ep_out_received: copy into the job's buffer, acknowledge, finish on *)
(* a full buffer or a short packet unless the endpoint is halted.          *)
IsrOut ==
  /\ InIsr /\ irqOn /\ rx # <<>>
  /\ AckOut
  /\ LET p == Head(rx) IN
     IF (Fills(p) \/ p.size # "full") /\ ~force
     THEN \E again \in BOOLEAN :
            /\ again => busy /\ cb = "trans" /\ enabled
            /\ FinishOut(again)
     ELSE /\ left' = IF p.size = "empty" \/ left = 0 THEN left ELSE left - 1
          /\ UNCHANGED <<irqOn, busy, given>>
  /\ UNCHANGED <<enabled, force, stallSent, hwNext, cb, ctx, wasReset, threaded>>

(* Stall sent: acknowledge.                                                *)
IsrStall ==
  /\ InIsr /\ irqOn /\ rx = <<>> /\ stallSent
  /\ stallSent' = FALSE
  /\ UNCHANGED <<enabled, force, irqOn, fifo, job, ctx, hist>>

(* End of bus reset: kill the jobs, then udc_reset frees the endpoints.    *)
IsrReset ==
  /\ isr = "none" /\ resetPending
  /\ resetPending' = FALSE
  /\ enabled' = FALSE
  /\ AbortJob
  /\ UNCHANGED <<force, stallSent, irqOn, fifo, isr, pc, wasReset, threaded>>

-----------------------------------------------------------------------------
(* Requests of the control endpoint, inside the same routine.              *)

(* SET_CONFIGURATION or SET_INTERFACE disables the interface ...           *)
EpFree ==
  /\ InIsr /\ enabled
  /\ enabled' = FALSE
  /\ AbortJob
  /\ UNCHANGED <<force, stallSent, irqOn, fifo, ctx, wasReset, threaded>>

(* ... and enables it: udd_ep_alloc, then the class runs its first job.    *)
EpAlloc ==
  /\ InIsr /\ ~enabled
  /\ enabled' = TRUE
  /\ rx' = ResetFifo(rx)
  /\ isr' = "enable"
  /\ UNCHANGED <<force, stallSent, irqOn, hwNext, job, pc, resetPending, hist>>

(* Every step of udd_ep_run, with no other context in between.             *)
RunJob ==
  /\ busy' = TRUE /\ cb' = "trans" /\ left' = JobSize /\ given' = TRUE
  /\ irqOn' = TRUE
  /\ UNCHANGED bank

EnableClass ==
  /\ isr = "enable"
  /\ isr' = "none"
  /\ IF enabled /\ ~force /\ ~busy
     THEN RunJob
     ELSE UNCHANGED <<job, given, irqOn>>
  /\ UNCHANGED <<enabled, force, stallSent, fifo, pc, resetPending, wasReset, threaded>>

(* Mutant of HaltAbort: SET_FEATURE halts without aborting first.          *)
HaltWithoutAbort ==
  /\ InIsr
  /\ isr' = "halt"
  /\ UNCHANGED <<csr, fifo, job, pc, resetPending, hist>>

(* SET_FEATURE(ENDPOINT_HALT): udd_ep_abort acknowledges all banks, resets *)
(* the FIFO and aborts the job ...                                         *)
HaltAbort ==
  /\ InIsr
  /\ isr' = "halt"
  /\ irqOn' = FALSE
  /\ rx' = <<>>
  /\ busy' = FALSE
  /\ given' = (given /\ ~(busy /\ cb # "null"))
  /\ bank' = IF Len(rx) = 1 THEN Other(AckedBank) ELSE bank
  /\ UNCHANGED <<enabled, force, stallSent, hwNext, cb, left, pc, resetPending, wasReset, threaded>>

(* ... and udd_ep_set_halt enables the stall handshake and the interrupt.  *)
HaltSet ==
  /\ isr = "halt"
  /\ isr' = "none"
  /\ force' = TRUE
  /\ irqOn' = TRUE
  /\ UNCHANGED <<enabled, stallSent, fifo, job, pc, resetPending, hist>>

(* CLEAR_FEATURE(ENDPOINT_HALT).  A registered job is over and its         *)
(* callback, whichever the union holds, is called; it may run a job.       *)
ClearHalt ==
  /\ InIsr /\ force
  /\ force' = FALSE /\ stallSent' = FALSE
  /\ rx' = ResetFifo(rx)
  /\ \/ /\ busy /\ enabled /\ RunJob
     \/ /\ busy' = FALSE /\ given' = (given /\ ~busy)
        /\ UNCHANGED <<cb, left, bank, irqOn>>
  /\ UNCHANGED <<enabled, hwNext, ctx, wasReset, threaded>>

(* udd_ep_wait_stall_clear on a halted endpoint.                           *)
WaitStallClear ==
  /\ InIsr /\ enabled /\ ~busy /\ force
  /\ busy' = TRUE /\ cb' = "nohalt"
  /\ UNCHANGED <<csr, fifo, left, bank, ctx, hist>>

-----------------------------------------------------------------------------
(* udd_ep_run in the main thread: the endpoint is tested outside, the job  *)
(* claimed inside, filled in outside and started inside critical sections. *)
InThread == isr = "none"

RunCheck ==
  /\ InThread /\ pc = "idle" /\ enabled /\ ~force
  /\ pc' = "checked" /\ threaded' = TRUE
  /\ UNCHANGED <<csr, fifo, job, isr, resetPending, given, wasReset>>

RunClaim ==
  /\ InThread /\ pc = "checked"
  /\ busy' = TRUE
  /\ pc' = IF busy THEN "idle" ELSE "claimed"
  /\ UNCHANGED <<csr, fifo, cb, left, bank, isr, resetPending, hist>>

RunSetup ==
  /\ InThread /\ pc = "claimed"
  /\ cb' = "trans" /\ left' = JobSize /\ given' = TRUE
  /\ pc' = "set"
  /\ UNCHANGED <<csr, fifo, busy, bank, isr, resetPending, wasReset, threaded>>

RunStart ==
  /\ InThread /\ pc = "set"
  /\ irqOn' = TRUE
  /\ pc' = "idle"
  /\ UNCHANGED <<enabled, force, stallSent, fifo, job, isr, resetPending, hist>>

-----------------------------------------------------------------------------
Hardware == HostSend \/ HostStalled \/ BusReset
Isr      == IsrOut \/ IsrStall \/ IsrReset
Requests == \/ EpFree \/ EpAlloc \/ EnableClass \/ HaltAbort \/ HaltSet
            \/ ClearHalt \/ WaitStallClear
Thread   == RunCheck \/ RunClaim \/ RunSetup \/ RunStart

Next == Hardware \/ Isr \/ Requests \/ Thread

Spec == Init /\ [][Next]_vars

-----------------------------------------------------------------------------
Packets == [bank : BankIds, size : Sizes]

CsrTypeOK  == enabled \in BOOLEAN /\ force \in BOOLEAN /\ stallSent \in BOOLEAN /\ irqOn \in BOOLEAN
FifoTypeOK == rx \in Seq(Packets) /\ Len(rx) \in 0 .. Banks /\ hwNext \in BankIds
JobTypeOK  ==
  /\ busy \in BOOLEAN /\ cb \in {"null", "trans", "nohalt"}
  /\ left \in 0 .. JobSize /\ bank \in BankIds
CtxTypeOK  ==
  /\ isr \in {"none", "halt", "enable"}
  /\ pc \in {"idle", "checked", "claimed", "set"}
  /\ resetPending \in BOOLEAN
HistTypeOK == given \in BOOLEAN /\ wasReset \in BOOLEAN /\ threaded \in BOOLEAN

(* Every variable has its type, and at most Banks packets are pending.     *)
TypeOK == CsrTypeOK /\ FifoTypeOK /\ JobTypeOK /\ CtxTypeOK /\ HistTypeOK

(* What udd_ep_ack_out_received relies on ("The only way is to use         *)
(* ptr_job->bank"): when all banks hold a packet, the job's bank is the    *)
(* one that was filled first.                                              *)
BankInSync == Len(rx) = 2 => bank = rx[1].bank

(* The same as long as the bus was not reset: neither halting nor          *)
(* reconfiguring nor any order of packets and acknowledgements loses track *)
(* of the banks.                                                           *)
BankInSyncUntilReset == ~wasReset => BankInSync

(* "When the transfer is finished or aborted (stall, reset, ...), the      *)
(* callback is called" (udd_ep_run): a buffer that was accepted comes back, *)
(* for while the driver has it the job is on and some later step ends it.  *)
EveryRunIsAnswered == given => busy

(* The same as long as all transfers are run from the interrupt routine.   *)
IsrRunIsAnswered == ~threaded => EveryRunIsAnswered

(* A job whose callback is for the end of a transfer never waits on a      *)
(* halted endpoint, where udd_ep_clear_halt would call it as call_nohalt;  *)
(* as long as all transfers are run from the interrupt routine.            *)
HaltedJobAwaitsClear == ~threaded /\ force /\ busy => cb = "nohalt"

(* A running transfer on a live endpoint can be interrupted by its packets: *)
(* no path leaves a job on with the endpoint's interrupt masked.           *)
ArmedJobListens ==
  busy /\ cb = "trans" /\ enabled /\ pc = "idle" => irqOn

(* "After calling this function, any transaction on ep will be handled     *)
(* normally" (udd_ep_clear_halt): a packet accepted from the host on an    *)
(* endpoint that is not halted is received by somebody's transfer.  No     *)
(* invariant: see the README, known deviations.                            *)
NothingSwallowed ==
  enabled /\ ~force /\ irqOn /\ rx # <<>> /\ isr = "none" => busy

(* "If a transfer is on going, then it is stopped and the callback         *)
(* registered is called to signal the end of transfer" (udd_ep_abort): the *)
(* driver stores nothing into the buffer of a job that is over.  Not so:   *)
(* see the README, known deviations.                                       *)
StoppedMeansStopped ==
  [][(rx # <<>> /\ Head(rx).size # "empty" /\ left' < left) => busy]_vars
=============================================================================
