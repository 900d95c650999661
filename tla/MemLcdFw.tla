------------------------------- MODULE MemLcdFw -------------------------------
(***************************************************************************)
(* The display side of the firmware MemLcdUsbSharp: the main program       *)
(* (main.c, MemLcd.c) blanks the frame buffer and then sends it to the     *)
(* panel line by line for ever, while the interrupt routine runs the       *)
(* callback of the vendor interface (usbVendorDev.c, udi_vendor.c), which  *)
(* stores the line of each packet into the same frame buffer.              *)
(*                                                                         *)
(* A line is a pair of halves, for a copy of a line by the main program is *)
(* not atomic for the interrupt routine.  Its content is a version number: *)
(* 0 for the pattern of main.c, and the n-th packet of the host carries n. *)
(* The endpoint is the one of UdpOutEndpoint with two banks, reduced to    *)
(* what the display sees of it.                                            *)
(***************************************************************************)
EXTENDS Naturals, Sequences

CONSTANTS
  Height,      \* DISPLAY_HEIGH_DOTS
  HostLines,   \* numbers that a packet may name in its first byte
  Sizes,       \* parts of a packet that the host may send: 0 nothing, 1 the
               \* number, 2 the number and half of the line, 3 all of it
  MaxVersion   \* bound: packets that the host sends

ASSUME HeightAssumption  == Height \in Nat \ {0} /\ HostLines \subseteq 0 .. 255
ASSUME VersionAssumption == Sizes \subseteq 0 .. 3 /\ MaxVersion \in Nat

VARIABLES
  fb,       \* memLcdFrameBuffer
  beyond,   \* numbers of lines behind it at which the callback has stored
  lcd,      \* lcd_line.data
  panel,    \* what the display shows
  pc, cline,\* the main program and its loop counter
  recv,     \* usbVendorDevRecvBuff
  ep,       \* the endpoint: on, halted, irq, rx (full banks), and its job:
            \* busy, room (is there room left in recv)
  setting,  \* udi_display_alternate_setting
  ext,      \* history: enabled by UDI_DISPLAY_ENABLE_EXT, not disabled since
  version,  \* history: packets sent
  calm,     \* history: configured after the boot, since then neither halted
            \* nor configured again, and every packet a whole line of the panel
  last      \* history: per line the last version sent since then, or 0

mainVars == <<lcd, panel, pc, cline>>
hist     == <<ext, version, calm, last>>
vars     == <<fb, beyond, mainVars, recv, ep, setting, hist>>

Shown   == 0 .. Height - 1
Halves  == {1, 2}
Version == 0 .. MaxVersion
Even(v) == [h \in Halves |-> v]

Init ==
  /\ fb = [l \in Shown |-> Even(0)] /\ beyond = {}
  /\ lcd = Even(0) /\ panel = [l \in Shown |-> Even(0)]
  /\ pc = "blank1" /\ cline = 0
  /\ recv = [line |-> 0, data |-> Even(0)]
  /\ ep = [on |-> FALSE, halted |-> FALSE, irq |-> FALSE, busy |-> FALSE,
           room |-> FALSE, rx |-> <<>>]
  /\ setting = 0 /\ ext = FALSE
  /\ version = 0 /\ calm = FALSE /\ last = [l \in Shown |-> 0]

-----------------------------------------------------------------------------
(* The main program.                                                       *)

(* memcpy of the pattern into line cline.                                  *)
Blank(h, at, next) ==
  /\ pc = at /\ pc' = next
  /\ fb' = [fb EXCEPT ![cline][h] = 0]
  /\ UNCHANGED <<beyond, lcd, panel, recv, ep, setting, hist>>

BlankLine ==
  \/ Blank(1, "blank1", "blank2") /\ UNCHANGED cline
  \/ /\ Blank(2, "blank2", IF cline = Height - 1 THEN "copy1" ELSE "blank1")
     /\ cline' = (cline + 1) % Height

(* memcld_write_line copies the line ...                                   *)
Copy(h, at, next) ==
  /\ pc = at /\ pc' = next
  /\ lcd' = [lcd EXCEPT ![h] = fb[cline][h]]
  /\ UNCHANGED <<fb, beyond, panel, cline, recv, ep, setting, hist>>

CopyLine == Copy(1, "copy1", "copy2") \/ Copy(2, "copy2", "send")

(* Mutant of SendLine: the loop ends one line early.                       *)
SendLineButLast ==
  /\ pc = "send" /\ pc' = "copy1"
  /\ panel' = [panel EXCEPT ![cline] = lcd]
  /\ cline' = IF cline + 1 >= Height - 1 THEN 0 ELSE cline + 1
  /\ UNCHANGED <<fb, beyond, lcd, recv, ep, setting, hist>>

(* ... and sends it, each byte until the SPI accepts it; then the next     *)
(* line of memlcd_update_screen, for ever.                                 *)
SendLine ==
  /\ pc = "send" /\ pc' = "copy1"
  /\ panel' = [panel EXCEPT ![cline] = lcd]
  /\ cline' = (cline + 1) % Height
  /\ UNCHANGED <<fb, beyond, lcd, recv, ep, setting, hist>>

-----------------------------------------------------------------------------
(* The host and the hardware of the endpoint.                              *)

Packets == [line : HostLines, size : Sizes, version : 1 .. MaxVersion]

HostSend ==
  /\ ep.on /\ ~ep.halted /\ Len(ep.rx) < 2
  /\ version < MaxVersion
  /\ version' = version + 1
  /\ \E l \in HostLines, s \in Sizes :
       /\ ep' = [ep EXCEPT !.rx = Append(@, [line |-> l, size |-> s, version |-> version'])]
       /\ calm' = (calm /\ l \in Shown /\ s = 3)
       /\ last' = IF calm' THEN [last EXCEPT ![l] = version'] ELSE last
  /\ UNCHANGED <<fb, beyond, mainVars, recv, setting, ext>>

BusReset ==
  /\ ep.on \/ ep.rx # <<>>
  /\ ep' = [ep EXCEPT !.on = FALSE, !.halted = FALSE, !.irq = FALSE, !.busy = FALSE,
                      !.rx = <<>>]
  /\ ext' = (ext /\ setting # 1)
  /\ calm' = FALSE
  /\ UNCHANGED <<fb, beyond, mainVars, recv, setting, version, last>>

-----------------------------------------------------------------------------
(* The interrupt routine.                                                  *)

(* udd_ep_out_received copies as many bytes as there are, and as there is  *)
(* room for.                                                               *)
Received(p) ==
  IF ~ep.room THEN recv
  ELSE [line |-> IF p.size >= 1 THEN p.line ELSE recv.line,
        data |-> [h \in Halves |-> IF p.size > h THEN p.version ELSE recv.data[h]]]

(* udi_display_bulk_out_run, udd_ep_run.                                   *)
BulkOutRun(q) ==
  IF q.on /\ ~q.halted /\ ~q.busy
  THEN [q EXCEPT !.busy = TRUE, !.irq = TRUE, !.room = TRUE]
  ELSE q

(* Mutant of GoodLine: the last line is refused.                           *)
GoodLineButLast(l) == l < Height - 1

(* Mutant of GoodLine: one line further still.                             *)
GoodLineFurther(l) == ~(l > Height + 1)

(* The test of vendor_out_ep_callback: the number Height passes too.       *)
GoodLine(l) == ~(l > Height)

(* memcpy into line l, whether the array has one or not.                   *)
StoreLine(l, data) ==
  IF l \in Shown THEN fb' = [fb EXCEPT ![l] = data] /\ UNCHANGED beyond
                 ELSE beyond' = beyond \cup {l} /\ UNCHANGED fb

(* vendor_out_ep_callback.                                                 *)
OutCallback(r, q) ==
  \/ GoodLine(r.line) /\ StoreLine(r.line, r.data) /\ ep' = BulkOutRun(q)
  \/ ~GoodLine(r.line) /\ ep' = q /\ UNCHANGED <<fb, beyond>>

(* Mutant of IsrReceive: with both banks full the second is served first.  *)
IsrReceiveLast ==
  /\ ep.irq /\ ep.rx # <<>>
  /\ LET p == ep.rx[Len(ep.rx)]
         q == [ep EXCEPT !.rx = SubSeq(@, 1, Len(@) - 1), !.irq = FALSE, !.busy = FALSE,
                       !.room = FALSE]
     IN  /\ recv' = Received(p)
         /\ IF ep.busy THEN OutCallback(recv', q) ELSE ep' = q /\ UNCHANGED <<fb, beyond>>
  /\ UNCHANGED <<mainVars, setting, hist>>

(* Every packet of the host is short for the 64 bytes of the endpoint, so  *)
(* it ends the job if one is on.                                           *)
IsrReceive ==
  /\ ep.irq /\ ep.rx # <<>>
  /\ LET p == Head(ep.rx)
         q == [ep EXCEPT !.rx = Tail(@), !.irq = FALSE, !.busy = FALSE,
                       !.room = FALSE]
     IN  /\ recv' = Received(p)
         /\ IF ep.busy THEN OutCallback(recv', q) ELSE ep' = q /\ UNCHANGED <<fb, beyond>>
  /\ UNCHANGED <<mainVars, setting, hist>>

(* udc_iface_disable: the endpoint is freed, its job aborted, and          *)
(* udi_display_disable tests an alternate setting that does not exist.     *)
Disable ==
  /\ ep.on
  /\ ep' = [ep EXCEPT !.on = FALSE, !.busy = FALSE]
  /\ ext' = (ext /\ setting # 1)
  /\ calm' = FALSE
  /\ UNCHANGED <<fb, beyond, mainVars, recv, setting, version, last>>

(* History: nothing of the time before is left in the banks or the buffer. *)
Quiet ==
  /\ pc \notin {"blank1", "blank2"} /\ ~ep.halted
  /\ ep.rx = <<>> \/ recv.line \in Shown

(* Mutant of Enable: the interface starts no transfer.                     *)
EnableIdle ==
  /\ ~ep.on
  /\ ep' = [ep EXCEPT !.on = TRUE]
  /\ setting' = 0 /\ ext' = TRUE
  /\ calm' = Quiet
  /\ last' = [l \in Shown |-> 0]
  /\ UNCHANGED <<fb, beyond, mainVars, recv, version>>

(* The flags of the banks outlive the content of their FIFO.               *)
Emptied(rx) ==
  [k \in 1 .. Len(rx) |-> [line |-> rx[k].line, size |-> 0, version |-> rx[k].version]]

(* udc_iface_enable: udd_ep_alloc empties the FIFO but not the flags of    *)
(* the banks, and usbVendorDeviceEnableExt runs the first job, or not.     *)
Enable ==
  /\ ~ep.on
  /\ ep' = BulkOutRun([ep EXCEPT !.on = TRUE, !.rx = Emptied(@)])
  /\ setting' = 0 /\ ext' = TRUE
  /\ calm' = Quiet
  /\ last' = [l \in Shown |-> 0]
  /\ UNCHANGED <<fb, beyond, mainVars, recv, version>>

(* SET_FEATURE(ENDPOINT_HALT) aborts, and CLEAR_FEATURE resumes, the       *)
(* endpoint; the callback returns at once on an abort.                     *)
Halt ==
  /\ ep.on
  /\ ep' = [ep EXCEPT !.halted = TRUE, !.irq = TRUE, !.busy = FALSE, !.rx = <<>>]
  /\ calm' = FALSE
  /\ UNCHANGED <<fb, beyond, mainVars, recv, setting, ext, version, last>>

ClearHalt ==
  /\ ep.halted
  /\ ep' = [ep EXCEPT !.halted = FALSE]
  /\ UNCHANGED <<fb, beyond, mainVars, recv, setting, hist>>

-----------------------------------------------------------------------------
Main == BlankLine \/ CopyLine \/ SendLine
Usb  == HostSend \/ BusReset \/ IsrReceive \/ Disable \/ Enable \/ Halt \/ ClearHalt
Next == Main \/ Usb

(* The main loop never waits for anything but the SPI, which never stops,  *)
(* and a pending interrupt is served.                                      *)
Fairness == WF_vars(Main) /\ WF_vars(IsrReceive)

Spec     == Init /\ [][Next]_vars
FairSpec == Spec /\ Fairness

-----------------------------------------------------------------------------
Line == [Halves -> Version]
Packet == [line : HostLines, size : 0 .. 3, version : Version]
Endpoint == [on : BOOLEAN, halted : BOOLEAN, irq : BOOLEAN, busy : BOOLEAN,
             room : BOOLEAN, rx : Seq(Packet)]

(* Every variable has its type; of the lines behind the frame buffer no    *)
(* more than the first is ever stored to.                                  *)
TypeOK ==
  /\ fb \in [Shown -> Line] /\ beyond \subseteq {Height}
  /\ lcd \in Line /\ panel \in [Shown -> Line]
  /\ pc \in {"blank1", "blank2", "copy1", "copy2", "send"} /\ cline \in Shown
  /\ recv \in [line : HostLines \cup {0}, data : Line]
  /\ ep \in Endpoint /\ Len(ep.rx) <= 2
  /\ setting = 0 /\ ext \in BOOLEAN /\ version \in Version /\ calm \in BOOLEAN
  /\ last \in [Shown -> Version]

(* As long as the host sends whole lines of the panel, every line that it  *)
(* sent last is in the frame buffer in one piece, or still in a bank: the  *)
(* callback, the banks and the running refresh lose and mix nothing.       *)
NoLineLost ==
  calm => \A l \in Shown : last[l] # 0 =>
            \/ fb[l] = Even(last[l])
            \/ \E k \in DOMAIN ep.rx : ep.rx[k].line = l /\ ep.rx[k].version = last[l]

(* The firmware is a display of half lines, given every packet that the    *)
(* host sends: none shows a packet not sent yet or returns to an older     *)
(* one, not even while a line is stored during its copy or when packets    *)
(* wait in both banks.                                                     *)
D == INSTANCE Display
       WITH Cells <- Shown \X Halves,
            given <- [c \in Shown \X Halves |-> version],
            shown <- [c \in Shown \X Halves |-> panel[c[1]][c[2]]]
ImplementsDisplay == D!Spec

(* What was sent last for a line reaches the panel, whole, unless a newer  *)
(* version is sent or the host disturbs the endpoint; a line that was torn *)
(* is thus repaired by a later refresh.                                    *)
LastLineShown ==
  \A l \in Shown, v \in 1 .. MaxVersion :
    calm /\ last[l] = v ~> panel[l] = Even(v) \/ last[l] # v \/ ~calm

(* Nothing is stored outside the frame buffer.  No invariant: the number   *)
(* Height passes the test (see the README, known deviations).              *)
StoresInside == beyond = {}

(* "When the USB device is unplugged or is reset by the USB host, the USB  *)
(* interface is disabled and the UDI_VENDOR_DISABLE_EXT() callback         *)
(* function is called" (udi_vendor.h).  No invariant: see the README,      *)
(* known deviations.                                                       *)
DisableExtCalled == ~ep.on => ~ext
=============================================================================
