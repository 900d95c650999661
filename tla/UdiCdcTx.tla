------------------------------- MODULE UdiCdcTx -------------------------------
(***************************************************************************)
(* The sending half of the serial port udi_cdc.c: the main thread puts     *)
(* bytes with udi_cdc_putc and udi_cdc_write_buf into one of two buffers,  *)
(* while the interrupt routine sends the other one (udi_cdc_tx_send, on a  *)
(* start of frame and when a buffer was sent, udi_cdc_data_sent).  Some    *)
(* flags decide which buffer is whose; the main thread looks at them and   *)
(* acts on them in critical sections of their own.                         *)
(*                                                                         *)
(* The n-th byte stored is the number n.  A buffer is one packet           *)
(* (UDI_CDC_LOW_RATE, conf_usb.h), so that a transfer is a packet.  With 9 *)
(* data bits a value is two bytes: putc of two, write_buf of twice as      *)
(* many.                                                                   *)
(***************************************************************************)
EXTENDS Naturals, Sequences, FiniteSetsExt

CONSTANTS
  BufSize,     \* UDI_CDC_TX_BUFFERS
  WriteSizes,  \* bytes that a call of udi_cdc_write_buf may be given
  Frames,      \* frame numbers are counted modulo Frames
  ZlpDelay,    \* starts of frame without data before an empty packet is sent
  Spills,      \* may udi_cdc_putc store behind the end of a buffer
  MaxBytes     \* bound: bytes that the application sends

VARIABLES
  tx,       \* udi_cdc_tx_*: see TypeOK
  ep,       \* the endpoint: enabled, halted, and the transfer that is on
  frame,    \* udd_get_frame_number()
  sof,      \* the interrupt of a start of frame is pending
  running,  \* udi_cdc_data_running
  pc,       \* the main thread: "idle", "ready", "full", "store"
  op,       \* its call, with the bytes that it has left to store
  stored,   \* number of the last byte stored
  arrived   \* bytes that the host has got

vars == <<tx, ep, frame, sof, running, pc, op, stored, arrived>>
thread == <<pc, op, stored>>

Other(b) == 1 - b
NoTransfer == [state |-> "none", data |-> <<>>]
EmptyBuffers == [b \in {0, 1} |-> <<>>]

Init ==
  /\ tx = [mem |-> EmptyBuffers, sel |-> 0, both |-> FALSE, ongoing |-> FALSE,
           sofNum |-> 0, zlp |-> 0]
  /\ ep = [enabled |-> FALSE, halted |-> FALSE, job |-> NoTransfer]
  /\ frame = 0 /\ sof = FALSE /\ running = FALSE
  /\ pc = "idle" /\ op = [kind |-> "write", left |-> 0]
  /\ stored = 0 /\ arrived = <<>>

-----------------------------------------------------------------------------
(* The interrupt routine.                                                  *)

(* A transfer is going on, or the packet of this frame was short.          *)
MustWait(x) == x.ongoing \/ x.sofNum = frame

(* An empty buffer is sent only as often as every ZlpDelay frames.         *)
NothingYet(x) == x.mem[x.sel] = <<>> /\ x.zlp + 1 < ZlpDelay

(* The buffer to send: the selected one, but the other one when both have  *)
(* data, for that was filled first.                                        *)
Leaving(x) == IF x.both THEN Other(x.sel) ELSE x.sel

(* udd_ep_run, which is refused on an endpoint that is off or halted; the  *)
(* refusal goes unnoticed.                                                 *)
Run(e, data) ==
  IF e.enabled /\ ~e.halted THEN [state |-> "sent", data |-> data] ELSE NoTransfer

(* udi_cdc_tx_send: the pair of the flags and the endpoint it leaves. *)
TxSend(x, e) ==
  LET b == Leaving(x)
      full == Len(x.mem[b]) = BufSize
  IN CASE MustWait(x) -> <<x, e>>
       [] ~MustWait(x) /\ NothingYet(x) -> <<[x EXCEPT !.zlp = @ + 1], e>>
       [] OTHER ->
            <<[x EXCEPT !.zlp = 0, !.sel = Other(b), !.ongoing = TRUE,
                        !.sofNum = IF full THEN 0 ELSE frame],
              [e EXCEPT !.job = Run(e, x.mem[b])]>>

Becomes(pair) == tx' = pair[1] /\ ep' = pair[2]

(* Mutant of Sent: the transfer still counts as going on.                  *)
SentGoesOn(x) == [x EXCEPT !.mem[Other(x.sel)] = <<>>, !.both = FALSE]

(* Mutant of Sent: the other buffer still counts as full.                  *)
SentStaysFull(x) == [x EXCEPT !.mem[Other(x.sel)] = <<>>, !.ongoing = FALSE]

(* udi_cdc_data_sent before its call of udi_cdc_tx_send. *)
Sent(x) ==
  [x EXCEPT !.mem[Other(x.sel)] = <<>>, !.both = FALSE, !.ongoing = FALSE]

IsrSent ==
  /\ ep.job.state = "taken"
  /\ Becomes(TxSend(Sent(tx), [ep EXCEPT !.job = NoTransfer]))
  /\ UNCHANGED <<frame, sof, running, thread, arrived>>

(* udi_cdc_data_sof_notify, called for the interfaces of a configuration. *)
IsrSof ==
  /\ sof
  /\ sof' = FALSE
  /\ IF ep.enabled THEN Becomes(TxSend(tx, ep)) ELSE UNCHANGED <<tx, ep>>
  /\ UNCHANGED <<frame, running, thread, arrived>>

(* The part of udi_cdc_data_enable that prepares sending. *)
Cleared(x) ==
  [x EXCEPT !.mem = EmptyBuffers, !.both = FALSE, !.ongoing = FALSE, !.sel = 0,
            !.sofNum = 0]

(* udi_cdc_data_enable, which succeeds if the other half can receive.      *)
Enable ==
  /\ ~ep.enabled
  /\ Becomes(TxSend(Cleared(tx), [ep EXCEPT !.enabled = TRUE]))
  /\ running' \in BOOLEAN
  /\ UNCHANGED <<frame, sof, thread, arrived>>

(* The endpoint is freed, the transfer aborted, and udi_cdc_data_disable   *)
(* called; a bus reset has removed the halt too.  udi_cdc_data_sent does   *)
(* nothing when aborted.                                                   *)
Disable ==
  /\ ep.enabled
  /\ \E halted \in {ep.halted, FALSE} :
       ep' = [enabled |-> FALSE, halted |-> halted, job |-> NoTransfer]
  /\ running' = FALSE
  /\ UNCHANGED <<tx, frame, sof, thread, arrived>>

(* SET_FEATURE(ENDPOINT_HALT) aborts the transfer, CLEAR_FEATURE runs none. *)
Halt ==
  /\ ep.enabled /\ ~ep.halted
  /\ ep' = [ep EXCEPT !.halted = TRUE, !.job = NoTransfer]
  /\ UNCHANGED <<tx, frame, sof, running, thread, arrived>>

ClearHalt ==
  /\ ep.enabled /\ ep.halted
  /\ ep' = [ep EXCEPT !.halted = FALSE]
  /\ UNCHANGED <<tx, frame, sof, running, thread, arrived>>

Requests == Enable \/ Disable \/ Halt \/ ClearHalt

-----------------------------------------------------------------------------
(* The host.                                                               *)

HostFrame ==
  /\ ~sof
  /\ frame' = (frame + 1) % Frames /\ sof' = TRUE
  /\ UNCHANGED <<tx, ep, running, thread, arrived>>

HostTakes ==
  /\ ep.job.state = "sent"
  /\ ep' = [ep EXCEPT !.job.state = "taken"]
  /\ arrived' = arrived \o ep.job.data
  /\ UNCHANGED <<tx, frame, sof, running, thread>>

-----------------------------------------------------------------------------
(* The main thread.                                                        *)

Calls ==
  [kind : {"putc"}, left : {1, 2}] \cup [kind : {"write"}, left : WriteSizes]

Call ==
  /\ pc = "idle"
  /\ \E c \in Calls : stored + c.left <= MaxBytes /\ op' = c
  /\ pc' = "ready"
  /\ UNCHANGED <<tx, ep, frame, sof, running, stored, arrived>>

(* Mutant of MovesOn: whether a transfer is going on is not looked at.     *)
MovesOnAlways == Len(tx.mem[tx.sel]) = BufSize /\ ~tx.both

(* The selected buffer is full and the other one free.                     *)
MovesOn == Len(tx.mem[tx.sel]) = BufSize /\ ~tx.ongoing /\ ~tx.both

(* udi_cdc_multi_get_free_tx_buffer counts the room of both buffers, also  *)
(* that of the one which is being sent.                                    *)
FreeTxBuffer ==
  IF MovesOn THEN BufSize
  ELSE (BufSize - Len(tx.mem[0])) + (BufSize - Len(tx.mem[1]))

(* udi_cdc_multi_is_tx_ready, which may move on to the other buffer. *)
IsTxReady ==
  /\ pc = "ready"
  /\ tx' = IF MovesOn THEN [tx EXCEPT !.both = TRUE, !.sel = Other(@)] ELSE tx
  /\ pc' = IF FreeTxBuffer # 0 THEN "store" ELSE "full"
  /\ UNCHANGED <<ep, frame, sof, running, op, stored, arrived>>

(* Wait for room as long as the interface runs. *)
Full ==
  /\ pc = "full"
  /\ pc' = IF running THEN "ready" ELSE "idle"
  /\ UNCHANGED <<tx, ep, frame, sof, running, op, stored, arrived>>

Room == BufSize - Len(tx.mem[tx.sel])

(* Bytes stored at once: udi_cdc_multi_putc relies on is_tx_ready,         *)
(* udi_cdc_multi_write_buf looks for itself and may store none.            *)
Chunk == IF op.kind = "putc" THEN 1 ELSE Min({Room, op.left})

Store ==
  /\ pc = "store"
  /\ op.kind = "putc" => Room > 0 \/ Spills
  /\ tx' = [tx EXCEPT !.mem[tx.sel] = @ \o [i \in 1 .. Chunk |-> stored + i]]
  /\ stored' = stored + Chunk
  /\ op' = [op EXCEPT !.left = @ - Chunk]
  /\ pc' = IF op.left = Chunk THEN "idle" ELSE "ready"
  /\ UNCHANGED <<ep, frame, sof, running, arrived>>

Main == IsTxReady \/ Full \/ Store

-----------------------------------------------------------------------------
Isr  == IsrSent \/ IsrSof
Host == HostFrame \/ HostTakes

Next == Isr \/ Requests \/ Host \/ Call \/ Main

Spec == Init /\ [][Next]_vars

(* Interrupts are served, the host counts frames and asks for packets.     *)
FairSpec == Spec /\ WF_vars(IsrSent) /\ WF_vars(IsrSof)
                 /\ WF_vars(HostFrame) /\ WF_vars(HostTakes)

-----------------------------------------------------------------------------
Buffered == UNION {[1 .. n -> 1 .. MaxBytes] : n \in 0 .. BufSize}

(* Every variable has its type; no buffer holds more than BufSize bytes,   *)
(* and the zero-length counter stays below its limit.                      *)
TypeOK ==
  /\ tx \in [mem : [{0, 1} -> Buffered], sel : {0, 1}, both : BOOLEAN,
             ongoing : BOOLEAN, sofNum : 0 .. Frames - 1, zlp : 0 .. ZlpDelay - 1]
  /\ ep \in [enabled : BOOLEAN, halted : BOOLEAN,
             job : [state : {"none", "sent", "taken"}, data : Buffered]]
  /\ frame \in 0 .. Frames - 1 /\ sof \in BOOLEAN /\ running \in BOOLEAN
  /\ pc \in {"idle", "ready", "full", "store"}
  /\ op.kind \in {"putc", "write"} /\ op.left \in 0 .. MaxBytes
  /\ stored \in 0 .. MaxBytes

(* udi_cdc_is_tx_ready says that "a new character sent is possible": a     *)
(* byte put after it said so is stored inside the buffer.                  *)
StoresInside == \A b \in {0, 1} : Len(tx.mem[b]) <= BufSize

(* The refinement: the link works while a transfer that the flags say is   *)
(* going on is known to the endpoint.                                      *)
Link == ep.enabled /\ ~ep.halted /\ (tx.ongoing => ep.job.state # "none")

Outgoing ==
  CASE ep.job.state = "sent" -> ep.job.data
    [] ep.job.state # "sent" /\ ~tx.ongoing /\ tx.both -> tx.mem[Other(tx.sel)]
    [] OTHER -> <<>>

Stream == INSTANCE ByteStream WITH
  Bytes <- 1 .. MaxBytes, link <- IF Link THEN "up" ELSE "down",
  asked <- TRUE, put <- stored,
  waiting <- Outgoing \o tx.mem[tx.sel], arrived <- arrived

(* A port that works goes on working until the host halts or disables it,  *)
(* and does when enabled: no flag says that a transfer is going on which   *)
(* the endpoint does not know of and whose end will not be told.           *)
StaysUp ==
  [][Link \/ ~ep.enabled => Link' \/ ~ep'.enabled \/ ep'.halted]_vars

(* What the application stores is sent once and in order, with no loss but *)
(* at a halt and between two configurations; two buffers that change hands *)
(* between thread and interrupt never lose, repeat or overtake a byte, nor *)
(* does the link go down by itself.                                        *)
SendsInOrder == Stream!Spec /\ StaysUp

(* While the link is up every byte is sent in the end: whichever buffer it *)
(* is in, the start of frame or the buffer before it takes it along.       *)
SendsInTheEnd == Stream!Progress
=============================================================================
