------------------------------- MODULE UdiCdcRx -------------------------------
(***************************************************************************)
(* The receiving half of the serial port udi_cdc.c: the interrupt routine  *)
(* receives into one of two buffers (udi_cdc_data_received), while the     *)
(* main thread reads the other one with udi_cdc_getc and udi_cdc_read_buf. *)
(* Whoever finds that the one is read and the other received exchanges     *)
(* them (udi_cdc_rx_start).  The main thread reads position and selection  *)
(* in a critical section, and everything else outside of it.               *)
(*                                                                         *)
(* The n-th byte of the host is the number n.  A buffer is one packet      *)
(* (UDI_CDC_LOW_RATE, conf_usb.h), so that a transfer is a packet.  With 9 *)
(* data bits a value is two bytes and getc reads two.                      *)
(***************************************************************************)
EXTENDS Naturals, Sequences, FiniteSetsExt

CONSTANTS
  BufSize,     \* UDI_CDC_RX_BUFFERS
  Banks,       \* packets that the endpoint holds
  ReadSizes,   \* bytes that a call of udi_cdc_read_buf may ask for
  MaxBytes,    \* bound: bytes that the host sends
  MaxRead      \* bound: bytes read before the last time that the interface
               \* is enabled

VARIABLES
  rx,       \* udi_cdc_rx_*: see TypeOK
  ep,       \* the endpoint: enabled, halted, interrupt on, and the transfer
  fifo,     \* packets received and not acknowledged, oldest first
  running,  \* udi_cdc_data_running
  pc,       \* the main thread: "idle" or the step of its call that comes next
  op,       \* its call, with the bytes that it has left to read
  local,    \* its pos, buf_sel, copy_nb and buf_sel_trans, while they matter
  sent,     \* number of the last byte of the host
  read,     \* bytes that the application has got
  passed    \* history: may what the thread read from rx be outdated when it
            \* uses it, as after 2 receptions; see Passed

vars == <<rx, ep, fifo, running, pc, op, local, sent, read, passed>>
thread == <<pc, op, local>>

Other(b) == 1 - b
Unset == [pos |-> 0, sel |-> 0, nb |-> 0, trans |-> 0]

(* The transfer of the endpoint, and the buffer of the last one; room says *)
(* that a packet still fits that buffer, which no transfer may own.        *)
NoTransfer == [on |-> FALSE, buf |-> 0, room |-> FALSE]
Aborted(job)  == [job EXCEPT !.on = FALSE]
Finished(job) == [job EXCEPT !.on = FALSE, !.room = FALSE]

Init ==
  /\ rx = [mem |-> [b \in {0, 1} |-> [i \in 1 .. BufSize |-> 0]],
           nb |-> [b \in {0, 1} |-> 0], sel |-> 0, pos |-> 0, ongoing |-> FALSE]
  /\ ep = [enabled |-> FALSE, halted |-> FALSE, irq |-> FALSE, job |-> NoTransfer]
  /\ fifo = <<>> /\ running = FALSE
  /\ pc = "idle" /\ op = [kind |-> "read", left |-> 0]
  /\ local = Unset
  /\ sent = 0 /\ read = <<>> /\ passed = 0

-----------------------------------------------------------------------------
(* Pieces of both contexts.                                                *)

(* Mutant of MayStart: beyond the count, where the position never is.      *)
MayStartBeyond(x) == ~x.ongoing /\ x.pos > x.nb[x.sel]

(* Mutant of MayStart: whether the buffer has been read is not looked at.  *)
MayStartUnread(x) == ~x.ongoing

MayStart(x) == ~x.ongoing /\ x.pos >= x.nb[x.sel]

(* The critical section of udi_cdc_rx_start: the buffers are exchanged. *)
Exchanged(x) == [x EXCEPT !.pos = 0, !.sel = Other(@), !.ongoing = TRUE]

(* udd_ep_run is refused on an endpoint that is off, halted or busy. *)
Run(e, b) ==
  IF e.enabled /\ ~e.halted /\ ~e.job.on
  THEN [e EXCEPT !.job = [on |-> TRUE, buf |-> b, room |-> TRUE], !.irq = TRUE]
  ELSE e

(* Mutant of RxStart: no transfer is run, as if the caller did it.         *)
RxStartIdle(x, e) == IF MayStart(x) THEN <<Exchanged(x), e>> ELSE <<x, e>>

(* All of udi_cdc_rx_start, as the interrupt routine runs it. *)
RxStart(x, e) == IF MayStart(x) THEN <<Exchanged(x), Run(e, x.sel)>> ELSE <<x, e>>

Becomes(pair) == rx' = pair[1] /\ ep' = pair[2]

-----------------------------------------------------------------------------
(* The interrupt routine.                                                  *)

(* The driver copies a packet over the beginning of the buffer. *)
Overwritten(old, packet) == packet \o SubSeq(old, Len(packet) + 1, Len(old))

(* udi_cdc_data_received: an empty packet has the transfer run again. *)
Received(x, e, n) ==
  IF n = 0 THEN <<x, Run(e, Other(x.sel))>>
  ELSE RxStart([x EXCEPT !.nb[Other(x.sel)] = n, !.ongoing = FALSE], e)

(* Between the thread's look at pos and buf_sel and its comparison one     *)
(* packet may pass: what it has read then says that there is no data.  A   *)
(* second one, or a new configuration, deceives it.                        *)
Passed(n) == IF pc = "test" /\ n > 0 THEN Min({passed + 1, 2}) ELSE passed

Reread == IF pc \in {"test", "take", "store", "run"} THEN 2 ELSE passed

(* Any packet ends a transfer, being short or as long as the buffer. *)
IsrReceived ==
  /\ ep.irq /\ ep.job.on /\ fifo # <<>>
  /\ LET packet == Head(fifo)
         b == ep.job.buf IN
     /\ Becomes(Received([rx EXCEPT !.mem[b] = Overwritten(@, packet)],
                         [ep EXCEPT !.job = Finished(@), !.irq = FALSE], Len(packet)))
     /\ passed' = Passed(Len(packet))
  /\ fifo' = Tail(fifo)
  /\ UNCHANGED <<running, thread, sent, read>>

(* With no transfer on, the interrupt is on only after a halt; the packet  *)
(* is acknowledged and ends a transfer that is over.  It is copied into    *)
(* the buffer of a transfer that the halt has aborted.                     *)
IsrSwallows ==
  /\ ep.irq /\ ~ep.job.on /\ fifo # <<>>
  /\ fifo' = Tail(fifo)
  /\ ep' = [ep EXCEPT !.job = Finished(@), !.irq = FALSE]
  /\ rx' = IF ep.job.room
           THEN [rx EXCEPT !.mem[ep.job.buf] = Overwritten(@, Head(fifo))] ELSE rx
  /\ UNCHANGED <<running, thread, sent, read, passed>>

(* The part of udi_cdc_data_enable that prepares receiving; the count of   *)
(* the second buffer is kept.                                              *)
Cleared(x) == [x EXCEPT !.ongoing = FALSE, !.sel = 0, !.nb[0] = 0, !.pos = 0]

(* udi_cdc_data_enable, which fails if udi_cdc_rx_start does. *)
Enable ==
  /\ ~ep.enabled /\ Len(read) <= MaxRead
  /\ Becomes(RxStart(Cleared(rx), [ep EXCEPT !.enabled = TRUE]))
  /\ running' = ~ep.halted
  /\ passed' = Reread
  /\ UNCHANGED <<fifo, thread, sent, read>>

(* The endpoint is freed, the transfer aborted, and udi_cdc_data_disable   *)
(* called; a bus reset has cleared the endpoint's registers too.           *)
(* udi_cdc_data_received does nothing when aborted.                        *)
Disable ==
  /\ ep.enabled
  /\ \E keep \in BOOLEAN :
       ep' = [enabled |-> FALSE, halted |-> keep /\ ep.halted,
              irq |-> keep /\ ep.irq, job |-> Aborted(ep.job)]
  /\ fifo' = <<>>
  /\ running' = FALSE
  /\ UNCHANGED <<rx, thread, sent, read, passed>>

(* SET_FEATURE(ENDPOINT_HALT) empties the endpoint, aborts the transfer    *)
(* and turns the interrupt on, CLEAR_FEATURE runs no transfer.             *)
Halt ==
  /\ ep.enabled /\ ~ep.halted
  /\ ep' = [ep EXCEPT !.halted = TRUE, !.irq = TRUE, !.job = Aborted(@)]
  /\ fifo' = <<>>
  /\ UNCHANGED <<rx, running, thread, sent, read, passed>>

ClearHalt ==
  /\ ep.enabled /\ ep.halted
  /\ ep' = [ep EXCEPT !.halted = FALSE]
  /\ UNCHANGED <<rx, fifo, running, thread, sent, read, passed>>

Requests == Enable \/ Disable \/ Halt \/ ClearHalt

HostSend ==
  /\ ep.enabled /\ ~ep.halted /\ Len(fifo) < Banks
  /\ \E n \in 0 .. BufSize :
       /\ sent + n <= MaxBytes
       /\ fifo' = Append(fifo, [i \in 1 .. n |-> sent + i])
       /\ sent' = sent + n
  /\ UNCHANGED <<rx, ep, running, thread, read, passed>>

-----------------------------------------------------------------------------
(* The main thread.                                                        *)

Calls ==
  [kind : {"getc"}, left : {1, 2}] \cup [kind : {"read"}, left : ReadSizes]

Call ==
  /\ pc = "idle"
  /\ op' \in Calls
  /\ pc' = "look"
  /\ UNCHANGED <<rx, ep, fifo, running, local, sent, read, passed>>

(* Position and selection, in a critical section. *)
Look ==
  /\ pc = "look"
  /\ local' = [local EXCEPT !.pos = rx.pos, !.sel = rx.sel]
  /\ pc' = "test"
  /\ UNCHANGED <<rx, ep, fifo, running, op, sent, read, passed>>

(* The count of the buffer that was selected, outside of it. *)
Test ==
  /\ pc = "test"
  /\ pc' = IF local.pos >= rx.nb[local.sel] THEN "empty" ELSE "take"
  /\ UNCHANGED <<rx, ep, fifo, running, op, local, sent, read, passed>>

(* Wait for data as long as the interface runs. *)
Empty ==
  /\ pc = "empty"
  /\ pc' = IF running THEN "look" ELSE "idle"
  /\ local' = Unset /\ passed' = 0
  /\ UNCHANGED <<rx, ep, fifo, running, op, sent, read>>

(* copy_nb is unsigned: a position beyond the count makes it large.        *)
Chunk ==
  IF op.kind = "getc" THEN 1
  ELSE IF local.pos > rx.nb[local.sel] THEN op.left
  ELSE Min({rx.nb[local.sel] - local.pos, op.left})

(* The n bytes from a position on; 0 stands for one behind the buffer, and *)
(* for one never received.                                                 *)
Copied(buf, pos, n) ==
  [i \in 1 .. n |-> IF pos + i \in 1 .. BufSize THEN buf[pos + i] ELSE 0]

Take ==
  /\ pc = "take"
  /\ local' = [local EXCEPT !.nb = Chunk]
  /\ read' = read \o Copied(rx.mem[local.sel], local.pos, Chunk)
  /\ op' = [op EXCEPT !.left = @ - Chunk]
  /\ pc' = "store"
  /\ UNCHANGED <<rx, ep, fifo, running, sent, passed>>

(* udi_cdc_multi_getc counts from the position it took, and                *)
(* udi_cdc_multi_read_buf from the one it finds.                           *)
NewPos == (IF op.kind = "getc" THEN local.pos ELSE rx.pos) + local.nb

StorePos ==
  /\ pc = "store"
  /\ rx' = [rx EXCEPT !.pos = NewPos]
  /\ local' = Unset /\ passed' = 0
  /\ pc' = "start"
  /\ UNCHANGED <<ep, fifo, running, op, sent, read>>

AfterChunk == IF op.left = 0 THEN "idle" ELSE "look"

(* udi_cdc_rx_start: exchange the buffers in a critical section ... *)
Start ==
  /\ pc = "start"
  /\ IF MayStart(rx)
     THEN /\ rx' = Exchanged(rx)
          /\ local' = [local EXCEPT !.trans = rx.sel]
          /\ pc' = "run"
     ELSE /\ pc' = AfterChunk
          /\ UNCHANGED <<rx, local>>
  /\ UNCHANGED <<ep, fifo, running, op, sent, read, passed>>

(* ... and run the transfer after it. *)
RunTransfer ==
  /\ pc = "run"
  /\ ep' = Run(ep, local.trans)
  /\ pc' = AfterChunk
  /\ local' = Unset /\ passed' = 0
  /\ UNCHANGED <<rx, fifo, running, op, sent, read>>

Main == Look \/ Test \/ Empty \/ Take \/ StorePos \/ Start \/ RunTransfer

-----------------------------------------------------------------------------
Isr == IsrReceived \/ IsrSwallows

Next == Isr \/ Requests \/ HostSend \/ Call \/ Main

Spec == Init /\ [][Next]_vars

(* Interrupts are served and the main thread is not blocked.               *)
FairSpec == Spec /\ WF_vars(Isr) /\ WF_vars(Main)

-----------------------------------------------------------------------------
Buffered == UNION {[1 .. n -> 1 .. MaxBytes] : n \in 0 .. BufSize}

(* Every variable has its type; no count is beyond its buffer.             *)
TypeOK ==
  /\ rx \in [mem : [{0, 1} -> [1 .. BufSize -> 0 .. MaxBytes]],
             nb : [{0, 1} -> 0 .. BufSize], sel : {0, 1}, pos : Nat, ongoing : BOOLEAN]
  /\ ep \in [enabled : BOOLEAN, halted : BOOLEAN, irq : BOOLEAN,
             job : [on : BOOLEAN, buf : {0, 1}, room : BOOLEAN]]
  /\ ep.job.on => ep.enabled /\ ~ep.halted /\ ep.irq /\ ep.job.room
  /\ Len(fifo) <= Banks /\ \A i \in DOMAIN fifo : fifo[i] \in Buffered
  /\ running \in BOOLEAN
  /\ pc \in {"idle", "look", "test", "empty", "take", "store", "start", "run"}
  /\ op.kind \in {"getc", "read"} /\ op.left \in Nat
  /\ local \in [pos : Nat, sel : {0, 1}, nb : Nat, trans : {0, 1}]
  /\ sent \in 0 .. MaxBytes /\ passed \in 0 .. 2

(* What the thread has read from rx and is about to act on still holds,    *)
(* and the endpoint writes only into the other buffer than the one that is *)
(* read, or after a refused transfer into one in which nothing is read.    *)
InStep ==
  /\ pc \in {"take", "store"} =>
       local.sel = rx.sel /\ local.pos = rx.pos /\ rx.pos < rx.nb[rx.sel]
  /\ pc = "run" => rx.ongoing /\ ~ep.job.on /\ local.trans = Other(rx.sel)
  /\ ep.job.room =>
       /\ rx.ongoing
       /\ ep.job.buf = Other(rx.sel) \/ (~ep.job.on /\ rx.nb[rx.sel] = 0)

(* Enabling the interface again selects the second buffer, with the count  *)
(* it was left with.                                                       *)
Leftover == ~ep.enabled /\ rx.nb[1] > 0

Astray == ~InStep \/ Leftover

(* The refinement: the link works while a transfer that the flags say is   *)
(* going on is known to the endpoint, or is about to be, and no packet is  *)
(* swallowed.                                                              *)
Link == /\ ~Astray /\ ep.enabled /\ ~ep.halted
        /\ rx.ongoing => ep.job.on \/ pc = "run"
        /\ ep.irq => ep.job.on

(* Bytes of the selected buffer that the application has not got. *)
Unread == SubSeq(rx.mem[rx.sel],
                 rx.pos + (IF pc = "store" THEN local.nb ELSE 0) + 1, rx.nb[rx.sel])

Exchangeable == IF rx.ongoing THEN <<>>
                ELSE SubSeq(rx.mem[Other(rx.sel)], 1, rx.nb[Other(rx.sel)])

(* Bytes in the banks of the endpoint.                                     *)
Packet(i) == IF i <= Len(fifo) THEN fifo[i] ELSE <<>>
Packets == Packet(1) \o Packet(2)

Stream == INSTANCE ByteStream WITH
  Bytes <- 1 .. MaxBytes,
  link <- IF Astray THEN "astray" ELSE IF Link THEN "up" ELSE "down",
  asked <- pc # "idle", put <- sent,
  waiting <- Unread \o Exchangeable \o Packets, arrived <- read

(* A port that works goes on working until the host halts or disables it,  *)
(* and does when enabled: whoever exchanges the buffers runs the transfer  *)
(* into the one that is free, and the endpoint does not refuse it.         *)
LinkStays == Link \/ ~ep.enabled => Link' \/ ~ep'.enabled \/ ep'.halted \/ passed' = 2

(* Thread and interrupt routine get out of step only when two packets pass *)
(* the thread at its comparison or the interface is enabled while it is    *)
(* between reading rx and acting on it.                                    *)
StepKept == ~Astray => ~Astray' \/ Leftover' \/ passed' = 2

StaysUp == [][LinkStays /\ StepKept]_vars

(* What the host sends is read once and in order, with no loss but at a    *)
(* halt and between two configurations: a thread that works with what it   *)
(* read before an interrupt takes no byte twice and leaves none out, and   *)
(* the link goes down or astray by none but the named events (README,      *)
(* known deviations, for those that lead it astray).                       *)
ReceivesInOrder == Stream!Spec /\ StaysUp

(* A thread that waits for bytes gets them: the two buffers always get     *)
(* back to the side that needs one.                                        *)
ReceivesInTheEnd == Stream!Progress
=============================================================================
