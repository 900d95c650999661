--------------------------- MODULE MemLcdFwProofs ---------------------------
(***************************************************************************)
(* Theorems about MemLcdFw: for every height of the panel, every line      *)
(* number and every mixture of whole and short packets the firmware is a   *)
(* display of half lines, and keeps every line of a host that sends whole  *)
(* ones only.                                                              *)
(***************************************************************************)
EXTENDS MemLcdFw, TLAPS

(* Along the pipeline, frame buffer - receive buffer - banks - host,       *)
(* versions never decrease.                                                *)
BanksOrdered ==
  /\ \A k \in 1 .. Len(ep.rx) : ep.rx[k].version <= version
  /\ \A j, k \in 1 .. Len(ep.rx) : j < k => ep.rx[j].version <= ep.rx[k].version

RecvOrdered ==
  \A h \in Halves : /\ recv.data[h] <= version
                    /\ \A k \in 1 .. Len(ep.rx) : recv.data[h] <= ep.rx[k].version

FbOrdered == \A l \in Shown, h \in Halves : fb[l][h] <= recv.data[h]

Blanking == pc \in {"blank1", "blank2"}

(* The halves of the line cline that the main program has copied.          *)
Copied == IF pc = "copy2" THEN {1} ELSE IF pc = "send" THEN Halves ELSE {}

PanelOrdered ==
  IF Blanking THEN \A l \in Shown, h \in Halves : panel[l][h] = 0
  ELSE /\ \A l \in Shown, h \in Halves : panel[l][h] <= fb[l][h]
       /\ \A h \in Copied : panel[cline][h] <= lcd[h] /\ lcd[h] <= fb[cline][h]

Ordered == BanksOrdered /\ RecvOrdered /\ FbOrdered /\ PanelOrdered

IInv == TypeOK /\ Ordered

-----------------------------------------------------------------------------
LEMMA LineFacts ==
  /\ Height \in Nat /\ Height > 0 /\ MaxVersion \in Nat
  /\ 0 \in Shown
  /\ \A l \in Shown : (l + 1) % Height \in Shown
  /\ \A l \in HostLines : l \in Nat
  BY HeightAssumption, VersionAssumption DEF Shown

LEMMA LineTypes ==
  /\ \A v \in Version : Even(v) \in Line
  /\ \A x \in Line, h \in Halves : x[h] \in Version /\ x[h] \in Nat
  /\ 0 \in Version
  BY LineFacts DEF Even, Line, Version

LEMMA InitTypes == Init => TypeOK
<1> SUFFICES ASSUME Init PROVE TypeOK
  OBVIOUS
<1>1. <<>> \in Seq(Packet) /\ Len(<<>>) = 0
  OBVIOUS
<1>2. ep \in Endpoint /\ Len(ep.rx) <= 2
  BY <1>1 DEF Init, Endpoint
<1>3. QED
  BY <1>2, LineFacts, LineTypes DEF Init, TypeOK

-----------------------------------------------------------------------------
(* The main program.                                                       *)

LEMMA MainTypes == TypeOK /\ Main => TypeOK'
<1> SUFFICES ASSUME TypeOK, Main PROVE TypeOK'
  OBVIOUS
<1>1. CASE BlankLine
  <2>1. PICK h \in Halves : fb' = [fb EXCEPT ![cline][h] = 0]
    BY <1>1 DEF BlankLine, Blank, Halves
  <2>2. cline \in Shown /\ fb[cline] \in Line
    BY LineFacts DEF TypeOK
  <2>3. [fb[cline] EXCEPT ![h] = 0] \in Line
    BY <2>2, LineTypes DEF Line
  <2>4. fb' \in [Shown -> Line]
    BY <2>1, <2>2, <2>3 DEF TypeOK
  <2>5. cline' \in Shown
    BY <1>1, LineFacts DEF BlankLine, TypeOK
  <2>6. QED
    BY <1>1, <2>4, <2>5 DEF BlankLine, Blank, TypeOK, hist
<1>2. CASE CopyLine
  <2>1. PICK h \in Halves : lcd' = [lcd EXCEPT ![h] = fb[cline][h]]
    BY <1>2 DEF CopyLine, Copy, Halves
  <2>2. cline \in Shown /\ fb[cline] \in Line
    BY LineFacts DEF TypeOK
  <2>3. lcd' \in Line
    BY <2>1, <2>2, LineTypes DEF Line, TypeOK
  <2>4. QED
    BY <1>2, <2>3 DEF CopyLine, Copy, TypeOK, hist
<1>3. CASE SendLine
  BY <1>3, LineFacts DEF SendLine, TypeOK, hist
<1>4. QED
  BY <1>1, <1>2, <1>3 DEF Main

LEMMA MainOrder == IInv /\ Main => Ordered'
<1> SUFFICES ASSUME IInv, Main PROVE Ordered'
  OBVIOUS
<1>1. /\ cline \in Shown
      /\ \A l \in Shown, h \in Halves : fb[l][h] \in Nat
      /\ \A h \in Halves : recv.data[h] \in Nat /\ lcd[h] \in Nat
      /\ \A l \in Shown, h \in Halves : panel[l][h] \in Nat
      /\ fb \in [Shown -> Line] /\ \A x \in Line : x \in [Halves -> Version]
      /\ lcd \in [Halves -> Version] /\ panel \in [Shown -> Line]
  BY LineFacts, LineTypes DEF IInv, TypeOK, Line
<1>2. (BanksOrdered /\ RecvOrdered)'
  BY DEF IInv, Ordered, BanksOrdered, RecvOrdered, Main, BlankLine, Blank, CopyLine, Copy,
         SendLine, hist
<1>3. CASE BlankLine
  <2>1. PICK g \in Halves : fb' = [fb EXCEPT ![cline][g] = 0]
    BY <1>3 DEF BlankLine, Blank, Halves
  <2>2. \A l \in Shown, h \in Halves :
          fb'[l][h] = IF l = cline /\ h = g THEN 0 ELSE fb[l][h]
    BY <1>1, <2>1
  <2>3. /\ Blanking /\ UNCHANGED <<panel, recv>>
        /\ pc' \in {"blank1", "blank2", "copy1"}
    BY <1>3 DEF BlankLine, Blank, Blanking
  <2>4. \A l \in Shown, h \in Halves : panel'[l][h] = 0
    BY <2>3 DEF IInv, Ordered, PanelOrdered
  <2>5. \A l \in Shown, h \in Halves : fb'[l][h] \in Nat /\ fb'[l][h] <= fb[l][h]
    BY <1>1, <2>2
  <2>6. FbOrdered'
    BY <1>1, <2>3, <2>5 DEF IInv, Ordered, FbOrdered
  <2>7. PanelOrdered'
    BY <1>1, <2>3, <2>4, <2>5 DEF PanelOrdered, Blanking, Copied
  <2>8. QED
    BY <1>2, <2>6, <2>7 DEF Ordered
<1>4. CASE CopyLine
  <2>1. PICK g \in Halves : /\ lcd' = [lcd EXCEPT ![g] = fb[cline][g]]
                            /\ Copied' = Copied \cup {g} /\ ~Blanking /\ ~Blanking'
    BY <1>4 DEF CopyLine, Copy, Halves, Copied, Blanking
  <2>2. \A h \in Halves : lcd'[h] = IF h = g THEN fb[cline][g] ELSE lcd[h]
    BY <1>1, <2>1
  <2>3. UNCHANGED <<fb, panel, cline, recv>>
    BY <1>4 DEF CopyLine, Copy
  <2>4. Copied \subseteq Halves
    BY DEF Copied, Halves
  <2>5. PanelOrdered'
    BY <1>1, <2>1, <2>2, <2>3, <2>4 DEF IInv, Ordered, PanelOrdered
  <2>6. QED
    BY <1>2, <2>3, <2>5 DEF IInv, Ordered, FbOrdered
<1>5. CASE SendLine
  <2>1. /\ panel' = [panel EXCEPT ![cline] = lcd] /\ UNCHANGED <<fb, recv>>
        /\ Copied = Halves /\ Copied' = {} /\ ~Blanking /\ ~Blanking'
    BY <1>5 DEF SendLine, Copied, Blanking
  <2>2. PanelOrdered'
    BY <1>1, <2>1 DEF IInv, Ordered, PanelOrdered
  <2>3. QED
    BY <1>2, <2>1, <2>2 DEF IInv, Ordered, FbOrdered
<1>6. QED
  BY <1>3, <1>4, <1>5 DEF Main

-----------------------------------------------------------------------------
(* The endpoint and the interrupt routine.                                 *)

LEMMA RunFacts ==
  ASSUME NEW q \in Endpoint
  PROVE  BulkOutRun(q) \in Endpoint /\ BulkOutRun(q).rx = q.rx
  BY DEF BulkOutRun, Endpoint

LEMMA EmptySeqFacts == <<>> \in Seq(Packet) /\ Len(<<>>) = 0
  OBVIOUS

LEMMA TwoFacts ==
  /\ \A n \in Nat : n > 0 /\ n <= 2 => n \in 1 .. 2
  /\ \A n \in 1 .. 2 : n - 1 <= 2
  OBVIOUS

LEMMA SeqFacts ==
  ASSUME NEW s \in Seq(Packet)
  PROVE  /\ Len(s) \in Nat
         /\ \A k \in 1 .. Len(s) : s[k] \in Packet
         /\ s # <<>> => /\ Len(s) > 0 /\ 1 \in 1 .. Len(s)
                       /\ Head(s) = s[1] /\ Head(s) \in Packet
                       /\ Tail(s) \in Seq(Packet) /\ Len(Tail(s)) = Len(s) - 1
                       /\ \A k \in 1 .. Len(Tail(s)) : /\ k + 1 \in 1 .. Len(s)
                                                      /\ Tail(s)[k] = s[k + 1]
  OBVIOUS

LEMMA PacketFacts ==
  ASSUME NEW p \in Packet
  PROVE  /\ p.line \in HostLines /\ p.version \in Version /\ p.version \in Nat
         /\ p.size \in 0 .. 3
  BY DEF Packet, Version

LEMMA EmptiedFacts ==
  ASSUME NEW rx \in Seq(Packet)
  PROVE  /\ Emptied(rx) \in Seq(Packet) /\ Len(Emptied(rx)) = Len(rx)
         /\ \A k \in 1 .. Len(rx) : Emptied(rx)[k].version = rx[k].version
<1>1. \A k \in 1 .. Len(rx) : /\ rx[k].line \in HostLines /\ rx[k].version \in Version
  BY SeqFacts, PacketFacts
<1>2. Emptied(rx) \in [1 .. Len(rx) -> Packet] /\ Len(rx) \in Nat
  BY <1>1, SeqFacts DEF Emptied, Packet
<1>3. Emptied(rx) \in Seq(Packet) /\ Len(Emptied(rx)) = Len(rx)
  BY <1>2
<1>4. QED
  BY <1>3 DEF Emptied

(* What HostSend, IsrReceive and Enable do to the packets in the banks;    *)
(* the other steps leave them there or drop them all.                      *)
LEMMA SimpleSteps ==
  ASSUME TypeOK, BusReset \/ Disable \/ Halt \/ ClearHalt
  PROVE  /\ UNCHANGED <<fb, beyond, mainVars, recv, setting, version, last>>
         /\ ext' \in BOOLEAN /\ calm' \in BOOLEAN
         /\ ep' \in Endpoint /\ (ep'.rx = ep.rx \/ ep'.rx = <<>>)
  BY EmptySeqFacts DEF BusReset, Disable, Halt, ClearHalt, TypeOK, Endpoint, hist

LEMMA ReceivedFacts ==
  ASSUME TypeOK, NEW p \in Packet
  PROVE  /\ Received(p) \in [line : HostLines \cup {0}, data : Line]
         /\ \A h \in Halves : Received(p).data[h] \in {recv.data[h], p.version}
<1>1. recv.line \in HostLines \cup {0} /\ recv.data \in Line
  BY DEF TypeOK
<1>2. [h \in Halves |-> IF p.size > h THEN p.version ELSE recv.data[h]] \in Line
  BY <1>1, LineTypes DEF Line, Packet
<1>3. CASE ~ep.room
  BY <1>3, <1>1 DEF Received, TypeOK
<1>4. CASE ep.room
  <2>1. Received(p) = [line |-> IF p.size >= 1 THEN p.line ELSE recv.line,
          data |-> [h \in Halves |-> IF p.size > h THEN p.version ELSE recv.data[h]]]
    BY <1>4 DEF Received
  <2>2. (IF p.size >= 1 THEN p.line ELSE recv.line) \in HostLines \cup {0}
    BY <1>1, PacketFacts
  <2>3. QED
    BY <1>2, <2>1, <2>2
<1>5. QED
  BY <1>3, <1>4

(* The packet that the interrupt routine takes, and what it leaves.        *)
LEMMA ReceiveFacts ==
  ASSUME TypeOK, IsrReceive
  PROVE  /\ ep.rx \in Seq(Packet) /\ ep.rx # <<>> /\ Len(ep.rx) \in 1 .. 2
         /\ Head(ep.rx) \in Packet /\ Head(ep.rx) = ep.rx[1]
         /\ recv' = Received(Head(ep.rx))
         /\ ep' \in Endpoint /\ ep'.rx = Tail(ep.rx)
         /\ \/ fb' = fb
            \/ recv'.line \in Shown /\ fb' = [fb EXCEPT ![recv'.line] = recv'.data]
         /\ beyond' \subseteq beyond \cup {Height}
         /\ UNCHANGED <<mainVars, setting, hist>>
<1> DEFINE q == [ep EXCEPT !.rx = Tail(@), !.irq = FALSE, !.busy = FALSE, !.room = FALSE]
<1>1. /\ ep \in Endpoint /\ ep.rx # <<>> /\ Len(ep.rx) <= 2
      /\ recv' = Received(Head(ep.rx))
      /\ IF ep.busy THEN OutCallback(recv', q) ELSE ep' = q /\ UNCHANGED <<fb, beyond>>
      /\ UNCHANGED <<mainVars, setting, hist>>
  BY DEF IsrReceive, TypeOK
<1>2. ep.rx \in Seq(Packet)
  BY <1>1 DEF Endpoint
<1>3. /\ Head(ep.rx) \in Packet /\ Head(ep.rx) = ep.rx[1] /\ Tail(ep.rx) \in Seq(Packet)
      /\ Len(ep.rx) \in 1 .. 2
  <2>1. ep.rx # <<>> /\ Len(ep.rx) <= 2
    BY <1>1
  <2>2. Len(ep.rx) \in Nat /\ Len(ep.rx) > 0
    BY <1>2, <2>1, SeqFacts
  <2>3. Len(ep.rx) \in 1 .. 2
    BY <2>1, <2>2, TwoFacts
  <2>4. QED
    BY <1>2, <2>1, <2>3, SeqFacts
<1>4. q \in Endpoint /\ q.rx = Tail(ep.rx)
  BY <1>1, <1>3 DEF Endpoint
<1>5. recv'.line \in Nat
  BY <1>1, <1>3, ReceivedFacts, LineFacts
<1>6. /\ ep' = q \/ ep' = BulkOutRun(q)
      /\ \/ fb' = fb
         \/ recv'.line \in Shown /\ fb' = [fb EXCEPT ![recv'.line] = recv'.data]
      /\ \/ beyond' = beyond
         \/ GoodLine(recv'.line) /\ recv'.line \notin Shown /\ beyond' = beyond \cup {recv'.line}
  BY <1>1 DEF OutCallback, StoreLine
<1>7. GoodLine(recv'.line) /\ recv'.line \notin Shown => recv'.line = Height
  BY <1>5, LineFacts DEF GoodLine, Shown
<1>8. ep' \in Endpoint /\ ep'.rx = Tail(ep.rx)
  BY <1>4, <1>6, RunFacts
<1>9. QED
  BY <1>1, <1>2, <1>3, <1>6, <1>7, <1>8

LEMMA HostSendFacts ==
  ASSUME TypeOK, HostSend
  PROVE  /\ version \in Nat /\ version' = version + 1 /\ version' \in Version
         /\ UNCHANGED <<fb, beyond, mainVars, recv, setting, ext>>
         /\ calm' \in BOOLEAN /\ last' \in [Shown -> Version]
         /\ ep' \in Endpoint /\ ep.rx \in Seq(Packet)
         /\ Len(ep'.rx) = Len(ep.rx) + 1 /\ Len(ep'.rx) <= 2
         /\ \A k \in 1 .. Len(ep.rx) : ep'.rx[k] = ep.rx[k]
         /\ ep'.rx[Len(ep.rx) + 1].version = version'
<1>1. PICK l \in HostLines, s \in Sizes :
        /\ ep' = [ep EXCEPT !.rx = Append(@, [line |-> l, size |-> s, version |-> version'])]
        /\ calm' = (calm /\ l \in Shown /\ s = 3)
        /\ last' = IF calm' THEN [last EXCEPT ![l] = version'] ELSE last
  BY DEF HostSend
<1> DEFINE p == [line |-> l, size |-> s, version |-> version']
<1>2. /\ version \in Nat /\ version' = version + 1 /\ version' \in Version
      /\ UNCHANGED <<fb, beyond, mainVars, recv, setting, ext>> /\ Len(ep.rx) < 2
  BY LineFacts DEF HostSend, TypeOK, Version
<1>3. p \in Packet /\ ep \in Endpoint /\ ep.rx \in Seq(Packet)
  BY <1>2, VersionAssumption DEF Packet, TypeOK, Endpoint
<1>4. /\ Append(ep.rx, p) \in Seq(Packet) /\ Len(Append(ep.rx, p)) = Len(ep.rx) + 1
      /\ Len(ep.rx) \in Nat
      /\ \A k \in 1 .. Len(ep.rx) : Append(ep.rx, p)[k] = ep.rx[k]
      /\ Append(ep.rx, p)[Len(ep.rx) + 1] = p
  BY <1>3
<1>5. ep' \in Endpoint /\ ep'.rx = Append(ep.rx, p)
  BY <1>1, <1>3, <1>4 DEF Endpoint
<1>6. calm' \in BOOLEAN /\ last' \in [Shown -> Version]
  BY <1>1, <1>2 DEF TypeOK
<1>7. QED
  BY <1>2, <1>3, <1>4, <1>5, <1>6

LEMMA EnableFacts ==
  ASSUME TypeOK, Enable
  PROVE  /\ UNCHANGED <<fb, beyond, mainVars, recv, version>>
         /\ setting' = 0 /\ ext' \in BOOLEAN /\ calm' \in BOOLEAN
         /\ last' \in [Shown -> Version]
         /\ ep' \in Endpoint /\ ep.rx \in Seq(Packet) /\ Len(ep'.rx) = Len(ep.rx)
         /\ \A k \in 1 .. Len(ep.rx) : ep'.rx[k].version = ep.rx[k].version
<1> DEFINE q == [ep EXCEPT !.on = TRUE, !.rx = Emptied(@)]
<1>1. ep \in Endpoint /\ ep.rx \in Seq(Packet) /\ ep' = BulkOutRun(q)
  BY DEF Enable, TypeOK, Endpoint
<1>2. q \in Endpoint /\ q.rx = Emptied(ep.rx)
  BY <1>1, EmptiedFacts DEF Endpoint
<1>3. ep' \in Endpoint /\ ep'.rx = Emptied(ep.rx)
  BY <1>1, <1>2, RunFacts
<1>4. QED
  BY <1>1, <1>3, EmptiedFacts, LineTypes DEF Enable, Quiet

LEMMA UsbTypes == TypeOK /\ Usb => TypeOK'
<1> SUFFICES ASSUME TypeOK, Usb PROVE TypeOK'
  OBVIOUS
<1>1. CASE BusReset \/ Disable \/ Halt \/ ClearHalt
  BY <1>1, SimpleSteps, EmptySeqFacts DEF TypeOK, mainVars
<1>2. CASE HostSend
  BY <1>2, HostSendFacts DEF TypeOK, mainVars
<1>3. CASE Enable
  BY <1>3, EnableFacts DEF TypeOK, mainVars
<1>4. CASE IsrReceive
  <2>1. recv' \in [line : HostLines \cup {0}, data : Line]
    BY <1>4, ReceiveFacts, ReceivedFacts
  <2>2. fb' \in [Shown -> Line]
    BY <1>4, <2>1, ReceiveFacts DEF TypeOK
  <2>3. Len(ep'.rx) <= 2
    <3>1. Len(ep.rx) \in 1 .. 2 /\ Len(ep'.rx) = Len(ep.rx) - 1
      BY <1>4, ReceiveFacts, SeqFacts
    <3>2. QED
      BY <3>1, TwoFacts
  <2>4. QED
    BY <1>4, <2>1, <2>2, <2>3, ReceiveFacts DEF TypeOK, mainVars, hist
<1>5. QED
  BY <1>1, <1>2, <1>3, <1>4 DEF Usb

(* The versions in the banks are numbers.                                  *)
LEMMA BankVersions ==
  ASSUME TypeOK
  PROVE  /\ ep.rx \in Seq(Packet) /\ Len(ep.rx) \in Nat /\ version \in Nat
         /\ \A k \in 1 .. Len(ep.rx) : ep.rx[k] \in Packet /\ ep.rx[k].version \in Nat
         /\ \A h \in Halves : recv.data[h] \in Nat
  BY LineTypes, SeqFacts, PacketFacts DEF TypeOK, Endpoint, Version

LEMMA UsbOrder == IInv /\ Usb => Ordered'
<1> SUFFICES ASSUME IInv, Usb PROVE Ordered'
  OBVIOUS
<1>1. TypeOK /\ BanksOrdered /\ RecvOrdered /\ FbOrdered /\ PanelOrdered
  BY DEF IInv, Ordered
<1>2. ASSUME UNCHANGED <<fb, beyond, mainVars, recv>> PROVE (FbOrdered /\ PanelOrdered)'
  BY <1>1, <1>2 DEF FbOrdered, PanelOrdered, Blanking, Copied, mainVars
<1>3. CASE BusReset \/ Disable \/ Halt \/ ClearHalt
  BY <1>1, <1>2, <1>3, SimpleSteps, EmptySeqFacts DEF Ordered, BanksOrdered, RecvOrdered
<1>4. CASE HostSend
  <2>1. \A k \in 1 .. Len(ep'.rx) : k \in 1 .. Len(ep.rx) \/ k = Len(ep.rx) + 1
    BY <1>1, <1>4, HostSendFacts, BankVersions
  <2>2. /\ version \in Nat /\ version' = version + 1 /\ UNCHANGED recv
        /\ Len(ep.rx) \in Nat /\ Len(ep'.rx) = Len(ep.rx) + 1
        /\ \A k \in 1 .. Len(ep'.rx) :
             \/ /\ k \in 1 .. Len(ep.rx) /\ ep'.rx[k].version = ep.rx[k].version
                /\ ep.rx[k].version \in Nat /\ ep.rx[k].version <= version
             \/ k = Len(ep.rx) + 1 /\ ep'.rx[k].version = version'
    BY <1>1, <1>4, <2>1, HostSendFacts, BankVersions DEF BanksOrdered
  <2>3. BanksOrdered'
    <3>1. \A k \in 1 .. Len(ep'.rx) : ep'.rx[k].version <= version'
      <4>1. TAKE k \in 1 .. Len(ep'.rx)
      <4>2. \/ ep'.rx[k].version = ep.rx[k].version /\ ep.rx[k].version \in Nat
               /\ ep.rx[k].version <= version
            \/ ep'.rx[k].version = version'
        BY <2>2
      <4>3. QED
        BY <2>2, <4>2
    <3>2. ASSUME NEW j \in 1 .. Len(ep'.rx), NEW k \in 1 .. Len(ep'.rx), j < k
          PROVE  ep'.rx[j].version <= ep'.rx[k].version
      <4>1. j \in 1 .. Len(ep.rx) /\ ep'.rx[j].version = ep.rx[j].version
        BY <2>2, <3>2
      <4>2. CASE k \in 1 .. Len(ep.rx)
        <5>1. ep'.rx[k].version = ep.rx[k].version
          BY <2>2, <4>2
        <5>2. ep.rx[j].version <= ep.rx[k].version
          BY <1>1, <3>2, <4>1, <4>2 DEF BanksOrdered
        <5>3. QED
          BY <4>1, <5>1, <5>2
      <4>3. CASE k = Len(ep.rx) + 1
        <5>1. ep'.rx[k].version = version' /\ ep.rx[j].version <= version
              /\ ep.rx[j].version \in Nat
          BY <2>2, <4>1, <4>3
        <5>2. QED
          BY <2>2, <4>1, <5>1
      <4>4. QED
        BY <2>1, <4>2, <4>3
    <3>3. QED
      BY <3>1, <3>2 DEF BanksOrdered
  <2>4. RecvOrdered'
    BY <1>1, <2>2, BankVersions DEF RecvOrdered
  <2>5. QED
    BY <1>1, <1>2, <1>4, <2>3, <2>4, HostSendFacts DEF Ordered
<1>5. CASE Enable
  BY <1>1, <1>2, <1>5, EnableFacts DEF Ordered, BanksOrdered, RecvOrdered
<1>6. CASE IsrReceive
  <2>1. /\ Len(ep'.rx) = Len(ep.rx) - 1 /\ 1 \in 1 .. Len(ep.rx)
        /\ \A k \in 1 .. Len(ep'.rx) : k + 1 \in 1 .. Len(ep.rx) /\ ep'.rx[k] = ep.rx[k + 1]
    BY <1>1, <1>6, ReceiveFacts, SeqFacts
  <2>2. \A h \in Halves : /\ recv'.data[h] \in {recv.data[h], ep.rx[1].version}
                          /\ recv.data[h] <= recv'.data[h] /\ recv'.data[h] \in Nat
    BY <1>1, <1>6, <2>1, ReceiveFacts, ReceivedFacts, BankVersions DEF RecvOrdered
  <2>3. UNCHANGED <<mainVars, hist>>
    BY <1>1, <1>6, ReceiveFacts
  <2>4. BanksOrdered'
    <3>1. version' = version
      BY <2>3 DEF hist
    <3>2. \A k \in 1 .. Len(ep'.rx) : ep'.rx[k].version <= version
      BY <1>1, <2>1 DEF BanksOrdered
    <3>3. \A j, k \in 1 .. Len(ep'.rx) : j < k => j + 1 < k + 1
      BY <1>1, <2>1, BankVersions
    <3>4. \A j, k \in 1 .. Len(ep'.rx) : j < k => ep'.rx[j].version <= ep'.rx[k].version
      BY <1>1, <2>1, <3>3 DEF BanksOrdered
    <3>5. QED
      BY <3>1, <3>2, <3>4 DEF BanksOrdered
  <2>5. RecvOrdered'
    <3>1. version' = version
      BY <2>3 DEF hist
    <3>2. \A h \in Halves : recv'.data[h] <= version
      BY <1>1, <2>1, <2>2 DEF BanksOrdered, RecvOrdered
    <3>3. \A k \in 1 .. Len(ep'.rx) : /\ 1 < k + 1 /\ k + 1 \in 1 .. Len(ep.rx)
                                      /\ ep.rx[1].version <= ep'.rx[k].version
      BY <1>1, <2>1, BankVersions DEF BanksOrdered
    <3>4. \A h \in Halves, k \in 1 .. Len(ep'.rx) : recv'.data[h] <= ep'.rx[k].version
      BY <1>1, <2>1, <2>2, <3>3 DEF RecvOrdered
    <3>5. QED
      BY <3>1, <3>2, <3>4 DEF RecvOrdered
  <2>6. \A l \in Shown, h \in Halves :
          /\ fb[l][h] \in Nat /\ fb'[l][h] \in Nat
          /\ fb[l][h] <= fb'[l][h] /\ fb'[l][h] <= recv'.data[h]
    <3>1. \A l \in Shown, h \in Halves : fb[l][h] \in Nat /\ fb[l][h] <= recv.data[h]
      BY <1>1, LineTypes DEF FbOrdered, TypeOK
    <3>2. \A h \in Halves : recv.data[h] \in Nat
      BY <1>1, BankVersions
    <3>3. fb \in [Shown -> Line]
      BY <1>1 DEF TypeOK
    <3>4. \A l \in Shown : fb'[l] = fb[l] \/ fb'[l] = recv'.data
      BY <1>1, <1>6, <3>3, ReceiveFacts
    <3>5. QED
      BY <2>2, <3>1, <3>2, <3>4
  <2>7. FbOrdered'
    BY <2>6 DEF FbOrdered
  <2>8. \A l \in Shown, h \in Halves : panel[l][h] \in Nat /\ lcd[h] \in Nat
    BY <1>1, LineTypes DEF TypeOK
  <2>9. cline \in Shown /\ Copied \subseteq Halves
    BY <1>1, LineFacts DEF TypeOK, Copied, Halves
  <2>10. UNCHANGED <<panel, lcd, cline, pc>> /\ Copied' = Copied /\ Blanking' = Blanking
    BY <2>3 DEF mainVars, Copied, Blanking
  <2>11. PanelOrdered'
    BY <1>1, <2>6, <2>8, <2>9, <2>10 DEF PanelOrdered
  <2>12. QED
    BY <2>4, <2>5, <2>7, <2>11 DEF Ordered
<1>7. QED
  BY <1>3, <1>4, <1>5, <1>6 DEF Usb

-----------------------------------------------------------------------------
LEMMA InitOrder == Init => Ordered
<1> SUFFICES ASSUME Init PROVE Ordered
  OBVIOUS
<1>1. ep.rx = <<>> /\ Len(ep.rx) = 0 /\ version = 0 /\ Blanking
  BY EmptySeqFacts DEF Init, Blanking
<1>2. /\ \A l \in Shown, h \in Halves : fb[l][h] = 0
      /\ \A l \in Shown, h \in Halves : panel[l][h] = 0
      /\ \A h \in Halves : recv.data[h] = 0
  BY DEF Init, Even
<1>3. QED
  BY <1>1, <1>2 DEF Ordered, BanksOrdered, RecvOrdered, FbOrdered, PanelOrdered

LEMMA Stutter == IInv /\ UNCHANGED vars => IInv'
  BY DEF IInv, TypeOK, Ordered, BanksOrdered, RecvOrdered, FbOrdered, PanelOrdered, Blanking,
         Copied, vars, mainVars, hist

LEMMA Inductive == Spec => []IInv
<1>1. Init => IInv
  BY InitTypes, InitOrder DEF IInv
<1>2. IInv /\ [Next]_vars => IInv'
  BY MainTypes, MainOrder, UsbTypes, UsbOrder, Stutter DEF IInv, Next
<1>3. QED
  BY <1>1, <1>2, PTL DEF Spec

(* All variables keep their types.  A packet, whatever line it names, is   *)
(* stored inside the frame buffer or, for number Height, over the line     *)
(* right behind it (README, known deviations), and nowhere further.        *)
THEOREM FwTypes == Spec => []TypeOK
<1>1. IInv => TypeOK
  BY DEF IInv
<1>2. QED
  BY <1>1, Inductive, PTL

(* One step of the firmware is a step of the display, or leaves it alone.  *)
LEMMA DisplayStep == IInv /\ IInv' /\ [Next]_vars => [D!Next]_(D!vars)
<1> SUFFICES ASSUME IInv, IInv', [Next]_vars PROVE [D!Next]_(D!vars)
  OBVIOUS
<1> DEFINE Cells == Shown \X Halves
<1>1. /\ version \in Nat /\ version' \in Nat
      /\ \A c \in Cells : c[1] \in Shown /\ c[2] \in Halves
      /\ \A c \in Cells : panel[c[1]][c[2]] \in Nat /\ panel'[c[1]][c[2]] \in Nat
  BY LineTypes DEF IInv, TypeOK, Version
<1>2. ASSUME UNCHANGED <<version, panel>> PROVE [D!Next]_(D!vars)
  BY <1>2 DEF D!vars
<1>3. \A l \in Shown, h \in Halves : panel[l][h] <= version
  <2> SUFFICES ASSUME NEW l \in Shown, NEW h \in Halves PROVE panel[l][h] <= version
    OBVIOUS
  <2>1. /\ l \in Shown /\ panel[l][h] \in Nat /\ fb[l][h] \in Nat
        /\ recv.data[h] \in Nat
    BY LineFacts, LineTypes DEF IInv, TypeOK
  <2>2. panel[l][h] <= fb[l][h] /\ fb[l][h] <= recv.data[h] /\ recv.data[h] <= version
    BY <2>1 DEF IInv, Ordered, PanelOrdered, FbOrdered, RecvOrdered
  <2>3. QED
    BY <1>1, <2>1, <2>2
<1>4. CASE HostSend
  <2>1. version' = version + 1 /\ panel' = panel
    BY <1>4, HostSendFacts DEF IInv, mainVars
  <2>2. \A c \in Cells : panel[c[1]][c[2]] <= version
    BY <1>1, <1>3
  <2>3. D!Next
    BY <1>1, <2>1, <2>2 DEF D!Next, D!Showable
  <2>4. QED
    BY <2>3
<1>5. CASE SendLine
  <2>1. /\ version' = version /\ panel' = [panel EXCEPT ![cline] = lcd] /\ pc = "send"
        /\ panel \in [Shown -> Line] /\ cline \in Shown
    BY <1>5, LineFacts DEF SendLine, hist, IInv, TypeOK
  <2>2. \A h \in Halves :
          /\ panel[cline][h] <= lcd[h] /\ lcd[h] <= fb[cline][h]
          /\ fb[cline][h] <= recv.data[h] /\ recv.data[h] <= version
          /\ lcd[h] \in Nat /\ fb[cline][h] \in Nat /\ recv.data[h] \in Nat
    BY <2>1, LineTypes
       DEF IInv, Ordered, PanelOrdered, FbOrdered, RecvOrdered, Blanking, Copied, TypeOK
  <2>3. \A c \in Cells : panel'[c[1]][c[2]] \in panel[c[1]][c[2]] .. version
    <3> SUFFICES ASSUME NEW c \in Cells
                 PROVE  panel'[c[1]][c[2]] \in panel[c[1]][c[2]] .. version
      OBVIOUS
    <3>1. c[1] \in Shown /\ c[2] \in Halves
      OBVIOUS
    <3>2. CASE c[1] = cline
      BY <1>1, <2>1, <2>2, <3>1, <3>2
    <3>3. CASE c[1] # cline
      <4>1. panel'[c[1]] = panel[c[1]]
        BY <2>1, <3>1, <3>3
      <4>2. panel[c[1]][c[2]] <= version /\ panel[c[1]][c[2]] \in Nat
        BY <1>1, <1>3, <3>1
      <4>3. QED
        BY <1>1, <4>1, <4>2
    <3>4. QED
      BY <3>2, <3>3
  <2>4. D!Next
    BY <1>1, <2>1, <2>3 DEF D!Next, D!Showable
  <2>5. QED
    BY <2>4
<1>6. CASE BlankLine \/ CopyLine
  BY <1>2, <1>6 DEF BlankLine, Blank, CopyLine, Copy, hist
<1>7. CASE BusReset \/ Disable \/ Halt \/ ClearHalt
  BY <1>2, <1>7, SimpleSteps DEF IInv, mainVars
<1>8. CASE Enable
  BY <1>2, <1>8, EnableFacts DEF IInv, mainVars
<1>9. CASE IsrReceive
  BY <1>2, <1>9, ReceiveFacts DEF IInv, mainVars, hist
<1>10. CASE UNCHANGED vars
  BY <1>2, <1>10 DEF vars, mainVars, hist
<1>11. QED
  BY <1>4, <1>5, <1>6, <1>7, <1>8, <1>9, <1>10 DEF Next, Main, Usb

(* The firmware is a display: half a line on the panel never shows a       *)
(* packet that was not sent yet, and never returns to an older one.        *)
THEOREM FwIsADisplay == Spec => ImplementsDisplay
<1>1. Init => D!Init
  <2> SUFFICES ASSUME Init PROVE D!Init
    OBVIOUS
  <2>1. version = 0 /\ \A c \in Shown \X Halves : panel[c[1]][c[2]] = 0
    BY DEF Init, Even
  <2>2. QED
    BY <2>1 DEF D!Init
<1>2. QED
  BY <1>1, DisplayStep, Inductive, PTL DEF Spec, ImplementsDisplay, D!Spec

-----------------------------------------------------------------------------
(* Why no line is lost.  While the host is calm a job is always on, with   *)
(* room for a packet; a packet left from before is empty and comes before  *)
(* the new ones; and a line that was sent is in the last packet for it, or *)
(* stored with no packet left that could change it.                        *)
Whole(p) == p.size = 3

Kept(l) ==
  \/ \E k \in 1 .. Len(ep.rx) :
       /\ Whole(ep.rx[k]) /\ ep.rx[k].line = l /\ ep.rx[k].version = last[l]
       /\ \A j \in 1 .. Len(ep.rx) : k < j => ep.rx[j].line # l
  \/ /\ fb[l] = Even(last[l])
     /\ \A k \in 1 .. Len(ep.rx) : Whole(ep.rx[k]) /\ ep.rx[k].line # l

Listens == ep.on /\ ~ep.halted /\ ep.busy /\ ep.room

BanksGood ==
  /\ \A k \in 1 .. Len(ep.rx) :
       \/ ep.rx[k].size = 0 /\ recv.line \in Shown
       \/ Whole(ep.rx[k]) /\ ep.rx[k].line \in Shown
  /\ \A j, k \in 1 .. Len(ep.rx) : j < k /\ Whole(ep.rx[j]) => Whole(ep.rx[k])

LinesKept == \A l \in Shown : last[l] # 0 => Kept(l)

CalmInv ==
  /\ ~ep.on => ~ep.busy
  /\ calm => ~Blanking /\ Listens /\ BanksGood /\ LinesKept

LEMMA SimpleCalm ==
  ASSUME TypeOK, CalmInv, BusReset \/ Disable \/ Halt \/ ClearHalt
  PROVE  CalmInv'
<1>1. CASE BusReset
  BY <1>1 DEF BusReset, CalmInv, TypeOK, Endpoint
<1>2. CASE Disable
  BY <1>2 DEF Disable, CalmInv, TypeOK, Endpoint
<1>3. CASE Halt
  BY <1>3 DEF Halt, CalmInv, TypeOK, Endpoint
<1>4. CASE ClearHalt
  <2>1. ~calm /\ ~calm' /\ ep'.on = ep.on /\ ep'.busy = ep.busy
    BY <1>4 DEF ClearHalt, CalmInv, Listens, TypeOK, Endpoint, hist
  <2>2. QED
    BY <2>1 DEF CalmInv
<1>5. QED
  BY <1>1, <1>2, <1>3, <1>4

LEMMA MainCalm == ASSUME CalmInv, Main PROVE CalmInv'
<1>1. /\ UNCHANGED <<ep, calm, last, recv>>
      /\ ~Blanking => UNCHANGED fb /\ ~Blanking'
  BY DEF Main, BlankLine, Blank, CopyLine, Copy, SendLine, Blanking, hist
<1>2. QED
  BY <1>1 DEF CalmInv, Listens, BanksGood, LinesKept, Kept

LEMMA EnableCalm == ASSUME TypeOK, CalmInv, Enable PROVE CalmInv'
<1> DEFINE q == [ep EXCEPT !.on = TRUE, !.rx = Emptied(@)]
<1>1. /\ ep \in Endpoint /\ ep.rx \in Seq(Packet) /\ ~ep.on /\ ep' = BulkOutRun(q)
      /\ calm' = Quiet /\ last' = [l \in Shown |-> 0]
      /\ UNCHANGED <<pc, recv>>
  BY DEF Enable, TypeOK, Endpoint, mainVars
<1>2. /\ q \in Endpoint /\ q.on /\ ~q.busy /\ q.halted = ep.halted
      /\ q.rx = Emptied(ep.rx)
  BY <1>1, EmptiedFacts DEF Endpoint, CalmInv
<1>3. /\ ep'.rx = Emptied(ep.rx) /\ ep'.on
      /\ ~ep.halted => ep'.busy /\ ep'.room /\ ~ep'.halted
  <2> HIDE DEF q
  <2>1. QED
    BY <1>1, <1>2 DEF BulkOutRun, Endpoint
<1>4. /\ Len(ep'.rx) = Len(ep.rx)
      /\ \A k \in 1 .. Len(ep.rx) : ep'.rx[k].size = 0
  <2>1. \A k \in 1 .. Len(ep.rx) : Emptied(ep.rx)[k].size = 0
    BY DEF Emptied
  <2>2. QED
    BY <1>1, <1>3, <2>1, EmptiedFacts
<1>5. ASSUME calm' PROVE (~Blanking /\ Listens /\ BanksGood /\ LinesKept)'
  <2>1. ~Blanking' /\ ~ep.halted /\ (ep.rx = <<>> \/ recv'.line \in Shown)
    BY <1>1, <1>5 DEF Quiet, Blanking
  <2>2. BanksGood'
    <3>1. \A k \in 1 .. Len(ep'.rx) : ep'.rx[k].size = 0 /\ recv'.line \in Shown
      BY <1>4, <2>1, EmptySeqFacts
    <3>2. QED
      BY <3>1 DEF BanksGood, Whole
  <2>3. LinesKept'
    BY <1>1 DEF LinesKept
  <2>4. QED
    BY <1>3, <2>1, <2>2, <2>3 DEF Listens
<1>6. QED
  BY <1>3, <1>5 DEF CalmInv

LEMMA HostSendCalm == ASSUME TypeOK, CalmInv, HostSend PROVE CalmInv'
<1> DEFINE n == Len(ep.rx)
<1>1. PICK m \in HostLines, s \in Sizes :
        /\ ep' = [ep EXCEPT !.rx = Append(@, [line |-> m, size |-> s, version |-> version'])]
        /\ calm' = (calm /\ m \in Shown /\ s = 3)
        /\ last' = IF calm' THEN [last EXCEPT ![m] = version'] ELSE last
  BY DEF HostSend
<1> DEFINE p == [line |-> m, size |-> s, version |-> version']
<1>2. /\ UNCHANGED <<fb, recv, mainVars>> /\ ep.rx \in Seq(Packet) /\ n \in Nat
      /\ Len(ep'.rx) = n + 1 /\ \A k \in 1 .. n : ep'.rx[k] = ep.rx[k]
  BY HostSendFacts, SeqFacts
<1>3. /\ ep'.rx[n + 1] = p /\ ep'.on = ep.on /\ ep'.halted = ep.halted
      /\ ep'.busy = ep.busy /\ ep'.room = ep.room
  <2>1. ep \in Endpoint /\ Append(ep.rx, p)[n + 1] = p
    BY <1>2 DEF TypeOK
  <2>2. QED
    BY <1>1, <2>1 DEF Endpoint
<1>4. \A k \in 1 .. n + 1 : k \in 1 .. n \/ k = n + 1
  BY <1>2
<1>5. ASSUME calm' PROVE (~Blanking /\ Listens /\ BanksGood /\ LinesKept)'
  <2>1. /\ calm /\ m \in Shown /\ s = 3 /\ last' = [last EXCEPT ![m] = version']
        /\ ~Blanking /\ Listens /\ BanksGood /\ LinesKept
    BY <1>1, <1>5 DEF CalmInv
  <2>2. (~Blanking /\ Listens)'
    BY <1>2, <1>3, <2>1 DEF Blanking, Listens, mainVars
  <2>3. Whole(ep'.rx[n + 1]) /\ ep'.rx[n + 1].line = m /\ ep'.rx[n + 1].version = version'
    BY <1>3, <2>1 DEF Whole
  <2>4. BanksGood'
    <3>1. \A j \in 1 .. n : ~(n + 1 < j)
      BY <1>2
    <3>2. QED
      BY <1>2, <1>4, <2>1, <2>3, <3>1 DEF BanksGood, Whole
  <2>5. ASSUME NEW l \in Shown, last'[l] # 0 PROVE Kept(l)'
    <3>1. CASE l = m
      <4>1. last'[l] = version'
        BY <2>1, <3>1 DEF TypeOK
      <4>2. n + 1 \in 1 .. n + 1 /\ \A j \in 1 .. n + 1 : ~(n + 1 < j)
        BY <1>2
      <4>3. QED
        BY <1>2, <2>3, <3>1, <4>1, <4>2 DEF Kept
    <3>2. CASE l # m
      <4>1. last'[l] = last[l] /\ Kept(l)
        BY <2>1, <2>5, <3>2 DEF TypeOK, LinesKept
      <4>2. \A k \in 1 .. n : k \in 1 .. n + 1
        BY <1>2
      <4>3. QED
        BY <1>2, <1>4, <2>3, <3>2, <4>1, <4>2 DEF Kept
    <3>3. QED
      BY <3>1, <3>2
  <2>6. QED
    BY <2>2, <2>4, <2>5 DEF LinesKept
<1>6. QED
  BY <1>3, <1>5 DEF CalmInv

(* What the interrupt routine leaves when a job is on.                     *)
LEMMA ServeFacts ==
  ASSUME TypeOK, IsrReceive, Listens, NEW p, p = ep.rx[1],
         \/ p.size = 0 /\ recv.line \in Shown
         \/ Whole(p) /\ p.line \in Shown
  PROVE  /\ Listens'
         /\ recv'.line \in Shown /\ fb' = [fb EXCEPT ![recv'.line] = recv'.data]
         /\ Whole(p) => recv'.line = p.line /\ recv'.data = Even(p.version)
         /\ p.size = 0 => recv'.line = recv.line
<1> DEFINE q == [ep EXCEPT !.rx = Tail(@), !.irq = FALSE, !.busy = FALSE, !.room = FALSE]
<1>1. /\ ep \in Endpoint /\ p \in Packet /\ recv' = Received(p)
      /\ OutCallback(recv', q)
  BY ReceiveFacts DEF IsrReceive, Listens, TypeOK
<1>2. /\ recv'.line = IF p.size >= 1 THEN p.line ELSE recv.line
      /\ recv'.data = [h \in Halves |-> IF p.size > h THEN p.version ELSE recv.data[h]]
  BY <1>1 DEF Received, Listens
<1>3. Whole(p) => recv'.line = p.line /\ recv'.data = Even(p.version)
  BY <1>2 DEF Whole, Even, Halves
<1>4. p.size = 0 => recv'.line = recv.line
  BY <1>2
<1>5. recv'.line \in Shown
  BY <1>3, <1>4
<1>6. GoodLine(recv'.line)
  BY <1>5, LineFacts DEF GoodLine, Shown
<1>7. ep' = BulkOutRun(q) /\ fb' = [fb EXCEPT ![recv'.line] = recv'.data]
  BY <1>1, <1>5, <1>6 DEF OutCallback, StoreLine
<1>8. q.on /\ ~q.halted /\ ~q.busy /\ q \in Endpoint
  <2>1. Tail(ep.rx) \in Seq(Packet)
    BY ReceiveFacts, SeqFacts
  <2>2. QED
    BY <1>1, <2>1 DEF Listens, Endpoint
<1>9. Listens'
  <2> HIDE DEF q
  <2>1. QED
    BY <1>7, <1>8 DEF BulkOutRun, Listens, Endpoint
<1>10. QED
  BY <1>3, <1>4, <1>5, <1>7, <1>9

LEMMA ReceiveCalm == ASSUME TypeOK, CalmInv, IsrReceive PROVE CalmInv'
<1> DEFINE n == Len(ep.rx)
           p == ep.rx[1]
<1>1. /\ UNCHANGED <<pc, calm, last>> /\ Len(ep'.rx) = n - 1 /\ n \in Nat
      /\ 1 \in 1 .. n
      /\ \A k \in 1 .. n - 1 : k + 1 \in 1 .. n /\ ep'.rx[k] = ep.rx[k + 1]
  BY ReceiveFacts, SeqFacts DEF mainVars, hist
<1>2. ~ep'.on => ~ep'.busy
  <2> DEFINE q == [ep EXCEPT !.rx = Tail(@), !.irq = FALSE, !.busy = FALSE, !.room = FALSE]
  <2>1. ep' = q \/ ep' = BulkOutRun(q)
    BY DEF IsrReceive, OutCallback
  <2>2. ~q.busy /\ q \in Endpoint
    BY ReceiveFacts, SeqFacts DEF TypeOK, Endpoint
  <2> HIDE DEF q
  <2>3. QED
    BY <2>1, <2>2 DEF BulkOutRun, Endpoint
<1>3. ASSUME calm PROVE (~Blanking /\ Listens /\ BanksGood /\ LinesKept)'
  <2>1. ~Blanking /\ Listens /\ BanksGood /\ LinesKept
    BY <1>3 DEF CalmInv
  <2>2. \/ p.size = 0 /\ recv.line \in Shown
        \/ Whole(p) /\ p.line \in Shown
    BY <1>1, <2>1 DEF BanksGood
  <2>3. /\ Listens'
        /\ recv'.line \in Shown /\ fb' = [fb EXCEPT ![recv'.line] = recv'.data]
        /\ Whole(p) => recv'.line = p.line /\ recv'.data = Even(p.version)
        /\ p.size = 0 => recv'.line = recv.line
    BY <2>1, <2>2, ServeFacts
  <2>4. \A k \in 1 .. n - 1 : 1 < k + 1 /\ (Whole(p) => Whole(ep'.rx[k]))
    BY <1>1, <2>1 DEF BanksGood
  <2>5. \A j, k \in 1 .. n - 1 : j < k => j + 1 < k + 1
    BY <1>1
  <2>6. BanksGood'
    <3>1. \A k \in 1 .. n - 1 : \/ ep'.rx[k].size = 0 /\ recv'.line \in Shown
                                \/ Whole(ep'.rx[k]) /\ ep'.rx[k].line \in Shown
      BY <1>1, <2>1, <2>3 DEF BanksGood
    <3>2. \A j, k \in 1 .. n - 1 : j < k /\ Whole(ep'.rx[j]) => Whole(ep'.rx[k])
      BY <1>1, <2>1, <2>5 DEF BanksGood
    <3>3. QED
      BY <1>1, <3>1, <3>2 DEF BanksGood, Whole
  <2>7. ASSUME NEW l \in Shown, last'[l] # 0 PROVE Kept(l)'
    <3>1. Kept(l) /\ last'[l] = last[l]
      BY <1>1, <2>1, <2>7 DEF LinesKept
    <3>2. CASE \E k \in 1 .. n :
                 /\ Whole(ep.rx[k]) /\ ep.rx[k].line = l /\ ep.rx[k].version = last[l]
                 /\ \A j \in 1 .. n : k < j => ep.rx[j].line # l
      <4>1. PICK k \in 1 .. n :
              /\ Whole(ep.rx[k]) /\ ep.rx[k].line = l /\ ep.rx[k].version = last[l]
              /\ \A j \in 1 .. n : k < j => ep.rx[j].line # l
        BY <3>2
      <4>2. CASE k = 1
        <5>1. fb'[l] = Even(last'[l])
          BY <2>3, <3>1, <4>1, <4>2 DEF TypeOK
        <5>2. \A i \in 1 .. n - 1 : Whole(ep'.rx[i]) /\ ep'.rx[i].line # l
          BY <1>1, <2>4, <4>1, <4>2
        <5>3. QED
          BY <1>1, <5>1, <5>2 DEF Kept
      <4>3. CASE k # 1
        <5>1. k - 1 \in 1 .. n - 1 /\ (k - 1) + 1 = k
          BY <1>1, <4>3
        <5>2. ep'.rx[k - 1] = ep.rx[k]
          BY <1>1, <5>1
        <5>3. \A j \in 1 .. n - 1 : k - 1 < j => k < j + 1
          BY <1>1
        <5>4. \A j \in 1 .. n - 1 : k - 1 < j => ep'.rx[j].line # l
          BY <1>1, <4>1, <5>3
        <5>5. QED
          BY <1>1, <3>1, <4>1, <5>1, <5>2, <5>4 DEF Kept
      <4>4. QED
        BY <4>2, <4>3
    <3>3. CASE /\ fb[l] = Even(last[l])
               /\ \A k \in 1 .. n : Whole(ep.rx[k]) /\ ep.rx[k].line # l
      <4>1. fb'[l] = Even(last'[l])
        BY <1>1, <2>3, <3>1, <3>3 DEF TypeOK
      <4>2. \A k \in 1 .. n - 1 : Whole(ep'.rx[k]) /\ ep'.rx[k].line # l
        BY <1>1, <3>3
      <4>3. QED
        BY <1>1, <4>1, <4>2 DEF Kept
    <3>4. QED
      BY <3>1, <3>2, <3>3 DEF Kept
  <2>8. QED
    BY <1>1, <2>1, <2>3, <2>6, <2>7 DEF Blanking, LinesKept
<1>4. QED
  BY <1>1, <1>2, <1>3 DEF CalmInv

(* Every line that a calm host sent last is stored whole, or waits in a    *)
(* bank to be stored, for every height and any packets before.             *)
THEOREM LinesAreKept == Spec => []NoLineLost
<1>1. Init => CalmInv
  BY DEF Init, CalmInv
<1>2. IInv /\ CalmInv /\ [Next]_vars => CalmInv'
  <2>1. UNCHANGED vars /\ CalmInv => CalmInv'
    BY DEF vars, mainVars, hist, CalmInv, Blanking, Listens, BanksGood, LinesKept, Kept
  <2>2. QED
    BY <2>1, MainCalm, SimpleCalm, EnableCalm, HostSendCalm, ReceiveCalm DEF IInv, Next, Usb
<1>3. IInv /\ CalmInv => NoLineLost
  <2>1. TypeOK => DOMAIN ep.rx = 1 .. Len(ep.rx)
    BY DEF TypeOK, Endpoint
  <2>2. QED
    BY <2>1 DEF IInv, CalmInv, LinesKept, Kept, NoLineLost
<1>4. QED
  BY <1>1, <1>2, <1>3, Inductive, PTL DEF Spec
=============================================================================
