------------------------------ MODULE UdpControl ------------------------------
(***************************************************************************)
(* Endpoint 0 of the firmware's USB device driver udp_device.c: the state  *)
(* machine that takes a SETUP request through its data and status stages,  *)
(* and a USB host that may be slow, give up, or reset the bus.             *)
(*                                                                         *)
(* Data are counted in units: PktSize of them fill a packet.  What a       *)
(* request means is left to the classes (udc_process_setup); here it is    *)
(* refused or accepted, with a buffer and perhaps a callback.  No class of *)
(* this firmware registers over_under_run, which therefore stays null.     *)
(***************************************************************************)
EXTENDS Naturals

CONSTANTS
  PktSize,      \* USB_DEVICE_EP_CTRL_SIZE, in units
  MaxLength,    \* bound: the largest wLength, in units, a 16-bit number
  Prompt,       \* does the routine serve a packet before the next SETUP comes
  Aborts        \* does the host ever give a transfer up

VARIABLES
  host,  \* the request the host is carrying out and how far it is
  c,     \* the driver: udd_ep_control_state, udd_g_ctrlreq, the counters
         \* udd_ctrl_payload_nb_trans and prev_, b_shortpacket; and of the
         \* request it holds, whether the host finished it and its callbacks
  csr,   \* flags of UDP_CSR[0]
  fifo   \* units in the packet received (rx) and in the one to send (tx)

vars == <<host, c, csr, fifo>>

Flags  == {"RXSETUP", "RX_BK0", "TXCOMP", "TXPKTRDY", "STALLSENT", "FORCESTALL"}
States == {"SETUP", "DATA_IN", "DATA_OUT", "WAIT_IN_ZLP", "WAIT_OUT_ZLP",
           "STALL_REQ"}

(* The requests of a host and the answers of the classes: a descriptor or  *)
(* status, cut at wLength, or nothing (usbVendorDeviceSetupInReceived); a  *)
(* buffer of wLength units to fill; no data; no buffer at all (vendor      *)
(* requests); or a refusal, as of a SETUP packet that is not 8 bytes long. *)
Answered(r) ==
  \/ ~r.ok /\ r.payload = 0 /\ ~r.callback
  \/ /\ r.ok /\ r.dir = "IN" /\ r.length > 0 /\ ~r.callback
     /\ r.payload <= r.length
  \/ /\ r.ok /\ r.dir = "OUT" /\ r.payload \in {0, r.length}
     /\ r.callback => r.payload = r.length

Requests ==
  {r \in [dir : {"IN", "OUT"}, length : 0 .. MaxLength,
          payload : 0 .. MaxLength, ok : BOOLEAN, callback : BOOLEAN] : Answered(r)}

NoRequest ==
  [dir |-> "OUT", length |-> 0, payload |-> 0, ok |-> TRUE, callback |-> FALSE]

Init ==
  /\ host = [req |-> NoRequest, stage |-> "idle", moved |-> 0, cut |-> FALSE]
  /\ c = [state |-> "SETUP", req |-> NoRequest, nb |-> 0, prev |-> 0,
          short |-> FALSE, shaken |-> FALSE, calls |-> 0, early |-> FALSE]
  /\ csr = {} /\ fifo = [rx |-> 0, tx |-> 0]

-----------------------------------------------------------------------------
(* The functions of the driver.  Each maps the state x = [c, csr, fifo] it *)
(* finds to the one it leaves.                                             *)

Now == [c |-> c, csr |-> csr, fifo |-> fifo]

Ack(x, flag) == [x EXCEPT !.csr = @ \ {flag}]

CtrlInit(x) ==
  [x EXCEPT !.c.state = "SETUP", !.c.req.callback = FALSE, !.c.req.payload = 0]

EndOfRequest(x) ==
  IF x.c.req.callback
  THEN [x EXCEPT !.c.calls = @ + 1,
                 !.c.early = @ \/ ~ (x.c.shaken \/ "RXSETUP" \in x.csr)]
  ELSE x

StallData(x) ==
  [x EXCEPT !.c.state = "STALL_REQ", !.csr = @ \union {"FORCESTALL"}]

SendZlpIn(x) ==
  [x EXCEPT !.c.state = "WAIT_IN_ZLP", !.csr = @ \union {"TXPKTRDY"}, !.fifo.tx = 0]

SendZlpOut(x) == [x EXCEPT !.c.state = "WAIT_OUT_ZLP"]

(* Mutant of Fill: a full last packet is taken for a short one.            *)
FillFullIsShort(x) ==
  LET remain == (x.c.req.payload - x.c.nb) % 65536
      n      == IF remain >= PktSize THEN PktSize ELSE remain
      y      == [x EXCEPT !.c.short = remain <= PktSize]
  IN IF "RX_BK0" \in x.csr
     THEN Ack(SendZlpOut(y), "TXCOMP")
     ELSE Ack([y EXCEPT !.c.nb = @ + n, !.fifo.tx = n,
                        !.csr = @ \union {"TXPKTRDY"}], "TXCOMP")

(* The next packet of the data phase, unless the host has ended the phase  *)
(* with an OUT packet.  nb_remain is an unsigned 16-bit number.            *)
Fill(x) ==
  LET remain == (x.c.req.payload - x.c.nb) % 65536
      n      == IF remain >= PktSize THEN PktSize ELSE remain
      y      == [x EXCEPT !.c.short = remain < PktSize]
  IN IF "RX_BK0" \in x.csr
     THEN Ack(SendZlpOut(y), "TXCOMP")
     ELSE Ack([y EXCEPT !.c.nb = @ + n, !.fifo.tx = n,
                        !.csr = @ \union {"TXPKTRDY"}], "TXCOMP")

(* Mutant: the phase ends without the empty packet.                        *)
DataSentNoZlp(x) ==
  Ack(SendZlpOut([x EXCEPT !.c.prev = @ + x.c.nb]), "TXCOMP")

(* Nothing remains of the buffer: the phase is over, or an empty packet    *)
(* must still tell so.                                                     *)
DataSent(x) ==
  LET y == [x EXCEPT !.c.prev = @ + x.c.nb]
  IN IF y.c.req.length = y.c.prev \/ y.c.short
     THEN Ack(SendZlpOut(y), "TXCOMP")
     ELSE Fill(y)

(* Mutant: the request is forgotten before its callback is called.         *)
InSentInitFirst(x) ==
  IF x.c.state = "WAIT_IN_ZLP" THEN EndOfRequest(CtrlInit(Ack(x, "TXCOMP")))
  ELSE IF x.c.req.payload = x.c.nb THEN DataSent(x)
  ELSE Fill(x)

InSent(x) ==
  IF x.c.state = "WAIT_IN_ZLP" THEN CtrlInit(EndOfRequest(Ack(x, "TXCOMP")))
  ELSE IF x.c.req.payload = x.c.nb THEN DataSent(x)
  ELSE Fill(x)

(* Mutant: an OUT packet in the IN data phase is taken for an error.       *)
OutOfPhaseStrict(x) ==
  LET y == IF x.c.state = "WAIT_OUT_ZLP" THEN EndOfRequest(x) ELSE StallData(x)
  IN CtrlInit(Ack(y, "RX_BK0"))

(* Outside the data phase an OUT packet ends a request with IN data; in    *)
(* the others it is an error, whose stall request ctrl_init then forgets.  *)
OutOfPhase(x) ==
  LET y == IF x.c.state \in {"DATA_IN", "WAIT_OUT_ZLP"}
           THEN EndOfRequest(x) ELSE StallData(x)
  IN CtrlInit(Ack(y, "RX_BK0"))

(* Mutant: only the last packet is counted.                                *)
OutReceivedLast(x) ==
  LET room == x.c.req.payload - x.c.nb
      n    == IF x.fifo.rx > room THEN room ELSE x.fifo.rx
      y    == [x EXCEPT !.c.nb = n]
  IN IF x.c.state # "DATA_OUT" THEN OutOfPhase(x)
     ELSE IF n # PktSize \/ x.c.req.length <= x.c.prev + y.c.nb
     THEN SendZlpIn(Ack([y EXCEPT !.c.req.payload = y.c.nb], "RX_BK0"))
     ELSE IF y.c.req.payload = y.c.nb
     THEN Ack(StallData(y), "RX_BK0")
     ELSE Ack(y, "RX_BK0")

OutReceived(x) ==
  LET room == x.c.req.payload - x.c.nb
      n    == IF x.fifo.rx > room THEN room ELSE x.fifo.rx
      y    == [x EXCEPT !.c.nb = @ + n]
  IN IF x.c.state # "DATA_OUT" THEN OutOfPhase(x)
     ELSE IF n # PktSize \/ x.c.req.length <= x.c.prev + y.c.nb
     THEN SendZlpIn(Ack([y EXCEPT !.c.req.payload = y.c.nb], "RX_BK0"))
     ELSE IF y.c.req.payload = y.c.nb
     THEN Ack(StallData(y), "RX_BK0")
     ELSE Ack(y, "RX_BK0")

(* The driver takes over the request in the FIFO.                          *)
Load(x) ==
  [x EXCEPT !.c.req = host.req, !.c.shaken = FALSE, !.c.calls = 0]

DataPhase(x, s) == [x EXCEPT !.c.nb = 0, !.c.prev = 0, !.c.state = s]

SetupReceived(x) ==
  LET y == Load(IF x.c.state = "SETUP" THEN x ELSE CtrlInit(EndOfRequest(x)))
      z == Ack(y, "RXSETUP")
  IN CASE ~ y.c.req.ok        -> StallData(z)
       [] y.c.req.ok /\ y.c.req.dir = "IN" -> InSent(DataPhase(z, "DATA_IN"))
       [] y.c.req.ok /\ y.c.req.dir = "OUT" /\ y.c.req.length = 0 -> SendZlpIn(z)
       [] OTHER               -> DataPhase(z, "DATA_OUT")

Becomes(x) == c' = x.c /\ csr' = x.csr /\ fifo' = x.fifo /\ UNCHANGED host

(* udd_ctrl_interrupt serves one event, in this order.                     *)
IsrSetup == "RXSETUP" \in csr /\ Becomes(SetupReceived(Now))

IsrInSent ==
  "RXSETUP" \notin csr /\ "TXCOMP" \in csr /\ Becomes(InSent(Now))

IsrOutReceived ==
  /\ csr \intersect {"RXSETUP", "TXCOMP"} = {} /\ "RX_BK0" \in csr
  /\ Becomes(OutReceived(Now))

IsrStall ==
  /\ csr \intersect {"RXSETUP", "TXCOMP", "RX_BK0"} = {} /\ "STALLSENT" \in csr
  /\ Becomes(Ack(Now, "STALLSENT"))

(* The end of a bus reset.                                                 *)
IsrReset ==
  /\ host.stage = "reset"
  /\ c' = CtrlInit(Now).c /\ host' = [host EXCEPT !.stage = "idle"]
  /\ UNCHANGED <<csr, fifo>>

Isr == IsrSetup \/ IsrInSent \/ IsrOutReceived \/ IsrStall \/ IsrReset

-----------------------------------------------------------------------------
(* The host and the hardware.  While RXSETUP is set nothing else is        *)
(* accepted; a SETUP packet drops a packet to send and ends a stall.       *)

InProgress == host.stage \in {"data", "status"}

(* A new request: after the last one, or giving it up.                     *)
HostSetup(r) ==
  /\ host.stage # "reset" /\ "RXSETUP" \notin csr
  /\ InProgress => Aborts
  /\ Prompt => csr \intersect {"TXCOMP", "RX_BK0"} = {}
  /\ host' = [req |-> r, moved |-> 0, cut |-> FALSE,
              stage |-> IF r.length = 0 THEN "status" ELSE "data"]
  /\ csr' = (csr \ {"FORCESTALL", "TXPKTRDY"}) \union {"RXSETUP"}
  /\ UNCHANGED <<c, fifo>>

(* The request is finished when the host has seen the handshake.           *)
Shaken ==
  c' = [c EXCEPT !.shaken = "RXSETUP" \notin csr]

Free == csr \intersect {"RXSETUP", "FORCESTALL"} = {}

HostTakes ==
  /\ Free /\ "TXPKTRDY" \in csr /\ "TXCOMP" \notin csr
  /\ csr' = (csr \ {"TXPKTRDY"}) \union {"TXCOMP"}
  /\ UNCHANGED fifo

HostDataIn ==
  /\ host.stage = "data" /\ host.req.dir = "IN" /\ HostTakes
  /\ LET n == host.moved + fifo.tx
     IN host' = [host EXCEPT !.moved = n,
                             !.stage = IF fifo.tx < PktSize \/ n >= host.req.length
                                       THEN "status" ELSE @]
  /\ UNCHANGED c

HostStatusIn ==
  /\ host.stage = "status" /\ (host.req.dir = "OUT" \/ host.req.length = 0)
  /\ HostTakes /\ Shaken
  /\ host' = [host EXCEPT !.stage = "done"]

HostGives(n) ==
  /\ Free /\ "RX_BK0" \notin csr
  /\ csr' = csr \union {"RX_BK0"} /\ fifo' = [fifo EXCEPT !.rx = n]

HostDataOut ==
  /\ host.stage = "data" /\ host.req.dir = "OUT"
  /\ LET left == host.req.length - host.moved
         n    == IF left > PktSize THEN PktSize ELSE left
     IN /\ HostGives(n)
        /\ host' = [host EXCEPT !.moved = @ + n,
                                !.stage = IF n = left THEN "status" ELSE @]
  /\ UNCHANGED c

(* The empty OUT packet that ends a request with IN data.                  *)
HostStatusOut ==
  /\ host.stage = "status" /\ host.req.dir = "IN" /\ host.req.length > 0
  /\ HostGives(0) /\ Shaken
  /\ host' = [host EXCEPT !.stage = "done"]

(* The same before its time: the host cuts the data phase.                 *)
HostCut ==
  /\ Aborts /\ host.stage = "data" /\ host.req.dir = "IN"
  /\ HostGives(0) /\ Shaken
  /\ host' = [host EXCEPT !.stage = "done", !.cut = TRUE]

HostStalled ==
  /\ InProgress /\ "RXSETUP" \notin csr /\ "FORCESTALL" \in csr
  /\ csr' = csr \union {"STALLSENT"} /\ host' = [host EXCEPT !.stage = "stalled"]
  /\ UNCHANGED <<c, fifo>>

BusReset ==
  /\ host.stage # "reset"
  /\ host' = [host EXCEPT !.stage = "reset"] /\ csr' = {}
  /\ UNCHANGED <<c, fifo>>

HostProceeds ==
  HostDataIn \/ HostStatusIn \/ HostDataOut \/ HostStatusOut \/ HostStalled

Next == Isr \/ HostProceeds \/ HostCut \/ BusReset \/ \E r \in Requests : HostSetup(r)

Spec == Init /\ [][Next]_vars

(* The interrupt is level triggered and the processor serves it; the host  *)
(* keeps polling the endpoint.                                             *)
FairSpec == Spec /\ WF_vars(Isr) /\ WF_vars(HostProceeds)

-----------------------------------------------------------------------------
(* All variables keep their types; a packet is never longer than the       *)
(* endpoint and no more is counted than the largest buffer holds.          *)
TypeOK ==
  /\ host \in [req : [dir : {"IN", "OUT"}, length : 0 .. MaxLength,
                      payload : 0 .. MaxLength, ok : BOOLEAN, callback : BOOLEAN],
               stage : {"idle", "data", "status", "done", "stalled", "reset"},
               moved : 0 .. MaxLength, cut : BOOLEAN]
  /\ c \in [state : States,
            req : [dir : {"IN", "OUT"}, length : 0 .. MaxLength,
                   payload : 0 .. MaxLength, ok : BOOLEAN, callback : BOOLEAN],
            nb : 0 .. MaxLength, prev : 0 .. 2 * MaxLength, short : BOOLEAN,
            shaken : BOOLEAN, calls : 0 .. 1, early : BOOLEAN]
  /\ csr \subseteq Flags
  /\ fifo \in [rx : 0 .. PktSize, tx : 0 .. PktSize]

(* The assertion of udd_ctrl_in_sent: a sent packet is served in the IN    *)
(* data phase or while the handshake is awaited, in no other state.        *)
SentInDataPhase ==
  "TXCOMP" \in csr /\ "RXSETUP" \notin csr => c.state \in {"DATA_IN", "WAIT_IN_ZLP"}

HostGetsAll ==
  host.req.dir = "IN" /\ host.stage \in {"status", "done"} /\ host.req.ok
    /\ ~ host.cut /\ host.req.length > 0
    => host.moved = host.req.payload

HandshakeMeansStored ==
  host.stage = "done" /\ host.req.dir = "OUT" /\ host.req.length > 0
    /\ "RXSETUP" \notin csr
    => host.req.ok /\ c.nb = host.req.payload

(* A host that ends the data phase of an IN request has the whole buffer   *)
(* of the class, whichever of wLength or a short packet ended it; a host   *)
(* told that its OUT data arrived is told the truth, for the buffer of the *)
(* class is full.                                                          *)
DataComplete == HostGetsAll /\ HandshakeMeansStored

(* An IN request that its class has accepted, with nothing to send.        *)
Unanswered == host.req.ok /\ host.req.dir = "IN" /\ host.req.payload = 0

(* The driver does not leave the IN data phase before the host does; when  *)
(* there is nothing to send it may (see the README, known deviations).     *)
PhaseEndsTogether ==
  c.state = "WAIT_OUT_ZLP" /\ "RXSETUP" \notin csr
    => \/ host.stage \in {"status", "done", "reset"}
       \/ host.stage = "data" /\ Unanswered

(* Only a refused request, or one sending more than the class takes, is    *)
(* stalled; a stall never hits the request that follows.                   *)
StallsOnlyItsRequest ==
  "FORCESTALL" \in csr \/ host.stage = "stalled"
    => ~ host.req.ok \/ host.req.payload < host.req.length \/ host.stage = "reset"

HandshakeIsAnswered ==
  c.shaken /\ host.stage = "done" /\ csr \intersect {"TXCOMP", "RX_BK0", "RXSETUP"} = {}
    => c.calls = (IF host.req.callback THEN 1 ELSE 0)

(* A request that the host has finished and the driver has served had its  *)
(* callback, once, and after the handshake, as changing the address of the *)
(* device must be.  The next SETUP also calls that of a request the host   *)
(* has given up, which is not counted here.                                *)
CallbackOnceAfterHandshake == HandshakeIsAnswered /\ ~ c.early

(* Every request ends: done, stalled, or given up by the host, in a bus    *)
(* reset or with the SETUP of the next one; but for one with no data to    *)
(* send whose data phase the driver has left (README, known deviations).   *)
TransfersEnd ==
  []<>(\/ ~InProgress \/ "RXSETUP" \in csr
       \/ host.stage = "data" /\ c.state = "WAIT_OUT_ZLP" /\ Unanswered)
=============================================================================
