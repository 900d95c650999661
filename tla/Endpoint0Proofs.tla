--------------------------- MODULE Endpoint0Proofs ---------------------------
(***************************************************************************)
(* Proofs about what endpoint 0 carries: first the requests of Udc, for    *)
(* counters of any width and any behaviour of the host (refused settings,  *)
(* halts and resets included), then the transfers of UdpControl, for       *)
(* packets and buffers of any size.                                        *)
(*                                                                         *)
(* The functions of UdpControl map a device to a device.  A lemma on each  *)
(* says what it leaves alone and what it sets; the invariant CtlInv says   *)
(* in which phase the driver and the host are together, and a lemma per    *)
(* handler that the next phase is reached.                                 *)
(***************************************************************************)
EXTENDS Udc, MCUdpControl, TLAPS

(* A device whose transfers and serial port are on enabled endpoints.      *)
Sound(x) ==
  /\ x \in Device
  /\ x.busy \subseteq x.on
  /\ x.running = TRUE => {1, 2} \subseteq x.on

(* A device with nothing on.                                               *)
Silent(x) == x.on = {} /\ x.busy = {} /\ x.running = FALSE

RestOK ==
  /\ newAddr \in {0, 1, NoAddress}
  /\ reply \in [req : {"none", "address", "configuration", "interface", "halt",
                       "resume", "reset"}, arg : 0 .. 5, ok : BOOLEAN]
  /\ good \in BOOLEAN

(* The inductive invariant: Silent is what makes it inductive, for a reset *)
(* takes down only what a configuration has set up.                        *)
Inv == Sound(d) /\ (d.conf = 0 => Silent(d)) /\ RestOK

-----------------------------------------------------------------------------
(* Stepping a byte down leaves it a byte.                                  *)
LEMMA ByteDown == ASSUME NEW n \in 0 .. Byte - 1
                  PROVE  (n + (Byte - 1)) % Byte \in 0 .. Byte - 1
  BY ByteAssumption, SMT

(* Changing one field of a device leaves it a device.                      *)
LEMMA CommField ==
  ASSUME NEW x \in Device, NEW v \in 0 .. Byte - 1
  PROVE  /\ [x EXCEPT !.comm = v] \in Device
         /\ [x EXCEPT !.comm = v].on = x.on /\ [x EXCEPT !.comm = v].busy = x.busy
         /\ [x EXCEPT !.comm = v].conf = x.conf /\ [x EXCEPT !.comm = v].addr = x.addr
         /\ [x EXCEPT !.comm = v].halted = x.halted
         /\ [x EXCEPT !.comm = v].running = x.running
  BY DEF Device

(* The device that an interface i leaves of x when it is disabled: its     *)
(* endpoints are freed, the serial port stops with its data interface.     *)
Left(x, i, z) ==
  /\ z.on = x.on \ EpsOf(i)
  /\ z.busy = x.busy \ EpsOf(i)
  /\ i = 1 \/ x.running = FALSE => z.running = FALSE

Same(x, z) == z.conf = x.conf /\ z.addr = x.addr /\ z.halted = x.halted

LEMMA OffEffect ==
  ASSUME NEW x \in Device, NEW i \in Ifaces
  PROVE  /\ Off(x, i) \in Device /\ Same(x, Off(x, i))
         /\ x.conf # 0 => Left(x, i, Off(x, i))
         /\ x.conf = 0 => Off(x, i) = x
<1> DEFINE y == [x EXCEPT !.on = @ \ EpsOf(i), !.busy = @ \ EpsOf(i)]
<1> DEFINE s == x.on \ EpsOf(i)
           t == x.busy \ EpsOf(i)
<1>0. y = [x EXCEPT !.on = s, !.busy = t] OBVIOUS
<1>1. s \in SUBSET Endpoints /\ t \in SUBSET Endpoints BY DEF Device
<1>2. y \in Device /\ Same(x, y) /\ y.on = x.on \ EpsOf(i)
      /\ y.busy = x.busy \ EpsOf(i) /\ y.running = x.running
  <2> HIDE DEF y, s, t
  <2>1. /\ y \in Device /\ y.on = s /\ y.busy = t /\ y.conf = x.conf
        /\ y.addr = x.addr /\ y.halted = x.halted /\ y.running = x.running
    BY <1>0, <1>1 DEF Device
  <2> QED BY <2>1 DEF s, t, Same
<1>3. CASE x.conf = 0
  BY <1>3 DEF Off, IfaceDisable, Found, Failed, Same
<1>4. CASE x.conf # 0
  <2>1. Off(x, i) = ClassDisable(y, i)
    BY <1>4 DEF Off, IfaceDisable, Found, Done, Ifaces
  <2>0. y.comm \in 0 .. Byte - 1 /\ y.data \in 0 .. Byte - 1 BY <1>2 DEF Device
  <2> HIDE DEF y
  <2>2. CASE i = 0
    <3> DEFINE v == (y.comm + (Byte - 1)) % Byte
    <3>1. Off(x, i) = [y EXCEPT !.comm = v]
      BY <2>1, <2>2 DEF ClassDisable, CommDisable
    <3>2. v \in 0 .. Byte - 1 BY <2>0, ByteDown
    <3> HIDE DEF v
    <3>3. Off(x, i) \in Device /\ Same(y, Off(x, i)) /\ Off(x, i).on = y.on
          /\ Off(x, i).busy = y.busy /\ Off(x, i).running = y.running
      BY <3>1, <3>2, <1>2, CommField DEF Same
    <3> QED BY <3>3, <1>2, <1>4, <2>2 DEF Same, Left
  <2>3. CASE i = 1
    <3> DEFINE v == (y.data + (Byte - 1)) % Byte
    <3>1. Off(x, i) = [y EXCEPT !.data = v, !.running = FALSE]
      BY <2>1, <2>3 DEF ClassDisable, DataDisable
    <3>2. v \in 0 .. Byte - 1 BY <2>0, ByteDown
    <3> HIDE DEF v
    <3>3. Off(x, i) \in Device /\ Same(y, Off(x, i)) /\ Off(x, i).on = y.on
          /\ Off(x, i).busy = y.busy /\ Off(x, i).running = FALSE
      <4> DEFINE z == Off(x, i)
      <4>1. y \in Device /\ z = [y EXCEPT !.data = v, !.running = FALSE]
        BY <1>2, <3>1
      <4> HIDE DEF z
      <4>2. /\ z \in Device /\ z.on = y.on /\ z.busy = y.busy /\ z.conf = y.conf
            /\ z.addr = y.addr /\ z.halted = y.halted /\ z.running = FALSE
        BY <4>1, <3>2 DEF Device
      <4> QED BY <4>2 DEF z, Same
    <3> QED BY <3>3, <1>2, <1>4, <2>3 DEF Same, Left
  <2>4. CASE i \in {2, 3}
    <3>1. Off(x, i) = y BY <2>1, <2>4 DEF ClassDisable
    <3> QED BY <3>1, <1>2, <1>4, <2>4 DEF Left
  <2> QED BY <2>2, <2>3, <2>4 DEF Ifaces
<1> QED BY <1>3, <1>4

(* Whatever was on, nothing is after udc_reset.                            *)
LEMMA ResetEffect ==
  ASSUME NEW x \in Device, x.conf = 0 => Silent(x)
  PROVE  /\ Reset(x) \in Device /\ Silent(Reset(x)) /\ Reset(x).conf = 0
         /\ Reset(x).halted = x.halted /\ Reset(x).addr = x.addr
<1>i. 0 \in Ifaces /\ 1 \in Ifaces /\ 2 \in Ifaces /\ 3 \in Ifaces BY DEF Ifaces
<1>1. PICK a : /\ a = Off(x, 0) /\ a \in Device /\ Same(x, a)
               /\ (x.conf # 0 => Left(x, 0, a)) /\ (x.conf = 0 => a = x)
  BY <1>i, OffEffect
<1>2. PICK b : /\ b = Off(a, 1) /\ b \in Device /\ Same(a, b)
               /\ (a.conf # 0 => Left(a, 1, b)) /\ (a.conf = 0 => b = a)
  BY <1>i, <1>1, OffEffect
<1>3. PICK w : /\ w = Off(b, 2) /\ w \in Device /\ Same(b, w)
               /\ (b.conf # 0 => Left(b, 2, w)) /\ (b.conf = 0 => w = b)
  BY <1>i, <1>2, OffEffect
<1>4. PICK e : /\ e = Off(w, 3) /\ e \in Device /\ Same(w, e)
               /\ (w.conf # 0 => Left(w, 3, e)) /\ (w.conf = 0 => e = w)
  BY <1>i, <1>3, OffEffect
<1>5. Same(x, e) /\ a.conf = x.conf /\ b.conf = x.conf /\ w.conf = x.conf
  BY <1>1, <1>2, <1>3, <1>4 DEF Same
<1>6. Silent(e)
  <2>1. CASE x.conf = 0 BY <2>1, <1>1, <1>2, <1>3, <1>4, <1>5
  <2>2. CASE x.conf # 0
    <3>1. EpsOf(0) = {3} /\ EpsOf(1) = {1, 2} /\ EpsOf(2) = {4} /\ EpsOf(3) = {5}
      BY DEF EpsOf
    <3>2. x.on \subseteq {1, 2, 3, 4, 5} /\ x.busy \subseteq {1, 2, 3, 4, 5}
      BY DEF Device, Endpoints
    <3>3. Left(x, 0, a) /\ Left(a, 1, b) /\ Left(b, 2, w) /\ Left(w, 3, e)
      BY <2>2, <1>1, <1>2, <1>3, <1>4, <1>5
    <3>4. e.on = {} /\ e.busy = {} BY <3>1, <3>2, <3>3 DEF Left
    <3>5. e.running = FALSE BY <3>3 DEF Left
    <3> QED BY <3>4, <3>5 DEF Silent
  <2> QED BY <2>1, <2>2
<1>7. Reset(x) = [e EXCEPT !.conf = 0] BY <1>1, <1>2, <1>3, <1>4 DEF Reset
<1> QED BY <1>4, <1>5, <1>6, <1>7 DEF Device, Silent, Same

(* Enabling one more interface of a configured device.                     *)
LEMMA EnableEffect ==
  ASSUME NEW x, Sound(x), NEW i \in Nat, NEW alt
  PROVE  Sound(IfaceEnable(x, i, alt).d) /\ IfaceEnable(x, i, alt).d.conf = x.conf
<1> DEFINE y == [x EXCEPT !.on = @ \union EpsOf(i)]
<1>1. CASE ~ Found(x, i, alt) \/ EpsOf(i) \intersect x.on # {}
  BY <1>1 DEF IfaceEnable, Allocated, Failed
<1>2. CASE Found(x, i, alt) /\ EpsOf(i) \intersect x.on = {}
  <2>1. i \in Ifaces BY <1>2 DEF Found
  <2>2. EpsOf(i) \subseteq Endpoints BY <2>1 DEF EpsOf, Ifaces, Endpoints
  <2>a. y.on = x.on \union EpsOf(i) BY DEF Sound, Device
  <2>3. Sound(y) /\ y \in Device /\ y.conf = x.conf
    BY <2>2 DEF Sound, Device
  <2>4. IfaceEnable(x, i, alt) = ClassEnable(y, i)
    BY <1>2 DEF IfaceEnable, Allocated, Done
  <2> HIDE DEF y
  <2>b. 0 \in 0 .. Byte - 1 /\ 1 \in 0 .. Byte - 1 BY ByteAssumption
  <2>5. CASE i = 0
    <3>1. IfaceEnable(x, i, alt).d = [y EXCEPT !.comm = 1]
      BY <2>4, <2>5 DEF ClassEnable, CommEnable, Done
    <3> QED BY <3>1, <2>3, <2>b, CommField DEF Sound
  <2>6. CASE i = 1
    <3>1. {1, 2} \subseteq y.on BY <2>6, <2>a DEF EpsOf
    <3>2. CASE CanRun(y, 2)
      <4> DEFINE z == [y EXCEPT !.data = 1, !.running = TRUE, !.busy = @ \union {2}]
      <4>1. IfaceEnable(x, i, alt).d = z
        BY <2>4, <2>6, <3>2 DEF ClassEnable, DataEnable, Done
      <4>0. y.busy \union {2} \in SUBSET Endpoints
        BY <2>3 DEF Device, Endpoints
      <4>2. z \in Device
        <5> DEFINE t == y.busy \union {2}
        <5>1. z = [y EXCEPT !.data = 1, !.running = TRUE, !.busy = t] OBVIOUS
        <5>2. t \in SUBSET Endpoints BY <4>0
        <5> HIDE DEF t, z
        <5> QED BY <5>1, <5>2, <2>3, <2>b DEF Device
      <4>3. z.on = y.on /\ z.busy = y.busy \union {2} /\ z.conf = y.conf
        BY <2>3 DEF Device
      <4> HIDE DEF z
      <4> QED BY <4>1, <4>2, <4>3, <3>1, <2>3 DEF Sound
    <3>3. CASE ~ CanRun(y, 2)
      <4> DEFINE z == [y EXCEPT !.data = 0]
      <4>1. IfaceEnable(x, i, alt).d = z
        BY <2>4, <2>6, <3>3 DEF ClassEnable, DataEnable, Failed
      <4>2. z \in Device BY <2>3, <2>b DEF Device
      <4>3. z.on = y.on /\ z.busy = y.busy /\ z.conf = y.conf
        BY <2>3 DEF Device
      <4> HIDE DEF z
      <4> QED BY <4>1, <4>2, <4>3, <3>1, <2>3 DEF Sound
    <3> QED BY <3>2, <3>3
  <2>7. CASE i = 2
    <3>1. IfaceEnable(x, i, alt).d = y BY <2>4, <2>7 DEF ClassEnable, Done
    <3> QED BY <3>1, <2>3
  <2>8. CASE i = 3
    <3>1. CASE CanRun(y, 5)
      <4> DEFINE z == [y EXCEPT !.busy = @ \union {5}]
      <4>1. IfaceEnable(x, i, alt).d = z
        BY <2>4, <2>8, <3>1 DEF ClassEnable, DisplayEnable, Done
      <4>2. z \in Device BY <2>3 DEF Device, Endpoints
      <4>3. z.on = y.on /\ z.busy = y.busy \union {5} /\ z.conf = y.conf
            /\ z.running = y.running
        BY <2>3 DEF Device
      <4>4. 5 \in y.on BY <3>1 DEF CanRun
      <4> HIDE DEF z
      <4> QED BY <4>1, <4>2, <4>3, <4>4, <2>3 DEF Sound
    <3>2. CASE ~ CanRun(y, 5)
      <4>1. IfaceEnable(x, i, alt).d = y
        BY <2>4, <2>8, <3>2 DEF ClassEnable, DisplayEnable, Done
      <4> QED BY <4>1, <2>3
    <3> QED BY <3>1, <3>2
  <2> QED BY <2>1, <2>5, <2>6, <2>7, <2>8 DEF Ifaces
<1> QED BY <1>1, <1>2

LEMMA EnableAllEffect ==
  ASSUME NEW x, Sound(x)
  PROVE  Sound(EnableAll(x).d) /\ EnableAll(x).d.conf = x.conf
<1> DEFINE P(r) == Sound(r.d) /\ r.d.conf = x.conf
<1>1. ASSUME NEW r, P(r), NEW i \in Nat
      PROVE  P(EnableNext(r, i))
  BY <1>1, EnableEffect DEF EnableNext
<1>2. P(Done(x)) BY DEF Done
<1> HIDE DEF P
<1>3. P(EnableNext(Done(x), 0)) BY <1>1, <1>2
<1>4. P(EnableNext(EnableNext(Done(x), 0), 1)) BY <1>1, <1>3
<1>5. P(EnableNext(EnableNext(EnableNext(Done(x), 0), 1), 2)) BY <1>1, <1>4
<1>6. P(EnableAll(x)) BY <1>1, <1>5 DEF EnableAll
<1> QED BY <1>6 DEF P

-----------------------------------------------------------------------------
LEMMA InitInv == Init => Inv
  BY ByteAssumption DEF Init, Inv, Sound, Silent, Device, RestOK

(* A step that answers a request with a sound device keeps the invariant.  *)
LEMMA AnswerInv ==
  ASSUME Inv, NEW r, Sound(r.d), r.d.conf = 0 => Silent(r.d), r.ok \in BOOLEAN,
         NEW req \in {"configuration", "interface", "halt", "resume"},
         NEW arg \in 0 .. 5, Answer(r, req, arg), good' \in BOOLEAN
  PROVE  Inv'
  BY DEF Inv, RestOK, Answer, Sound, Silent, Device

(* Whether a request is accepted is one or the other.                      *)
LEMMA DoneOrFailed ==
  ASSUME NEW r, NEW x, r = Done(x) \/ r = Failed(x)
  PROVE  r.d = x /\ r.ok \in BOOLEAN
<1>1. Done(x).ok \in BOOLEAN /\ Done(x).d = x BY DEF Done
<1>2. Failed(x).ok \in BOOLEAN /\ Failed(x).d = x BY DEF Failed
<1> QED BY <1>1, <1>2

LEMMA OkIsBoolean ==
  ASSUME NEW x, NEW i \in Ifaces, NEW alt
  PROVE  IfaceEnable(x, i, alt).ok \in BOOLEAN
<1>1. ASSUME NEW y PROVE ClassEnable(y, i).ok \in BOOLEAN
  <2>1. \E z : ClassEnable(y, i) = Done(z) \/ ClassEnable(y, i) = Failed(z)
    <3>1. CASE i = 0 BY <3>1 DEF ClassEnable, CommEnable
    <3>2. CASE i = 1 BY <3>2 DEF ClassEnable, DataEnable
    <3>3. CASE i = 2 BY <3>3 DEF ClassEnable
    <3>4. CASE i = 3 BY <3>4 DEF ClassEnable, DisplayEnable
    <3> QED BY <3>1, <3>2, <3>3, <3>4 DEF Ifaces
  <2> QED BY <2>1, DoneOrFailed
<1>2. CASE ~ Found(x, i, alt) \/ EpsOf(i) \intersect x.on # {}
  BY <1>2 DEF IfaceEnable, Allocated, Failed
<1>3. CASE Found(x, i, alt) /\ EpsOf(i) \intersect x.on = {}
  <2>1. \E y : IfaceEnable(x, i, alt) = ClassEnable(y, i)
    BY <1>3 DEF IfaceEnable, Allocated, Done
  <2> QED BY <2>1, <1>1
<1> QED BY <1>2, <1>3

LEMMA EnableAllOk == ASSUME NEW x PROVE EnableAll(x).ok \in BOOLEAN
<1>1. ASSUME NEW r, r.ok \in BOOLEAN, NEW i \in Ifaces
      PROVE  EnableNext(r, i).ok \in BOOLEAN
  BY <1>1, OkIsBoolean DEF EnableNext
<1>2. Done(x).ok \in BOOLEAN BY DEF Done
<1>i. 0 \in Ifaces /\ 1 \in Ifaces /\ 2 \in Ifaces /\ 3 \in Ifaces BY DEF Ifaces
<1>3. EnableNext(Done(x), 0).ok \in BOOLEAN BY <1>1, <1>2, <1>i
<1>4. EnableNext(EnableNext(Done(x), 0), 1).ok \in BOOLEAN BY <1>1, <1>3, <1>i
<1>5. EnableNext(EnableNext(EnableNext(Done(x), 0), 1), 2).ok \in BOOLEAN
  BY <1>1, <1>4, <1>i
<1> QED BY <1>1, <1>5, <1>i DEF EnableAll

LEMMA ConfigurationInv ==
  ASSUME Inv, NEW n \in 0 .. 2, SetConfiguration(n) PROVE Inv'
<1> DEFINE x == [Reset(d) EXCEPT !.conf = n]
           r == IF d.addr = 0 \/ n > 1 THEN Failed(d)
                ELSE IF n = 0 THEN Done(x) ELSE EnableAll(x)
<1>1. Answer(r, "configuration", n) BY DEF SetConfiguration
<1>g. good' \in BOOLEAN BY DEF SetConfiguration, Inv, RestOK
<1>2. Sound(d) /\ d \in Device /\ (d.conf = 0 => Silent(d)) BY DEF Inv, Sound
<1>3. Reset(d) \in Device /\ Silent(Reset(d)) BY <1>2, ResetEffect
<1>4. n <= 1 => Sound(x) /\ Silent(x) /\ x.conf = n
  BY <1>3 DEF Device, Sound, Silent
<1>5. Sound(r.d) /\ (r.d.conf = 0 => Silent(r.d)) /\ r.ok \in BOOLEAN
  <2>1. CASE d.addr = 0 \/ n > 1 BY <2>1, <1>2 DEF Failed
  <2>2. CASE ~ (d.addr = 0 \/ n > 1) /\ n = 0
    <3>1. r = Done(x) BY <2>2
    <3>2. Sound(x) /\ Silent(x) BY <2>2, <1>4
    <3> HIDE DEF x, r
    <3>3. r.d = x /\ r.ok \in BOOLEAN BY <3>1, DoneOrFailed
    <3> QED BY <3>2, <3>3
  <2>3. CASE ~ (d.addr = 0 \/ n > 1) /\ n # 0
    <3> HIDE DEF x
    <3>1. Sound(x) /\ x.conf = n BY <2>3, <1>4
    <3>2. Sound(EnableAll(x).d) /\ EnableAll(x).d.conf # 0
      BY <3>1, <2>3, EnableAllEffect
    <3> QED BY <2>3, <3>2, EnableAllOk
  <2> QED BY <2>1, <2>2, <2>3
<1> HIDE DEF r
<1> QED BY <1>1, <1>5, <1>g, AnswerInv

LEMMA InterfaceInv ==
  ASSUME Inv, NEW i \in 0 .. 4, NEW alt \in {0, 1}, SetInterface(i, alt) PROVE Inv'
<1> DEFINE o == IfaceDisable(d, i)
           r == IF o.ok THEN IfaceEnable(o.d, i, alt) ELSE o
<1>1. Answer(r, "interface", i) BY DEF SetInterface
<1>g. good' \in BOOLEAN BY DEF SetInterface, Inv, RestOK
<1>2. Sound(d) /\ d \in Device /\ (d.conf = 0 => Silent(d)) BY DEF Inv, Sound
<1>3. CASE d.conf = 0 \/ i \notin Ifaces
  <2>1. r = Failed(d) BY <1>3 DEF IfaceDisable, Found, Failed
  <2> HIDE DEF r
  <2>2. r.d = d /\ r.ok \in BOOLEAN BY <2>1, DoneOrFailed
  <2>3. Sound(r.d) /\ (r.d.conf = 0 => Silent(r.d)) BY <1>2, <2>2
  <2>4. i \in 0 .. 5 OBVIOUS
  <2> QED BY <1>1, <1>g, <2>2, <2>3, <2>4, AnswerInv
<1>4. CASE d.conf # 0 /\ i \in Ifaces
  <2>1. o.ok = TRUE /\ o.d = Off(d, i)
    BY <1>4 DEF IfaceDisable, Found, Done, Off
  <2>2. o.d \in Device /\ o.d.conf = d.conf /\ Left(d, i, o.d)
    BY <2>1, <1>2, <1>4, OffEffect DEF Same
  <2>3. i # 1 => EpsOf(i) \intersect {1, 2} = {} BY <1>4 DEF EpsOf, Ifaces
  <2> HIDE DEF o
  <2>4. Sound(o.d)
    <3>1. d.running \in BOOLEAN BY <1>2 DEF Device
    <3> QED BY <3>1, <1>2, <2>2, <2>3 DEF Sound, Left
  <2>5. r = IfaceEnable(o.d, i, alt) BY <2>1
  <2>6. Sound(r.d) /\ r.d.conf # 0 BY <1>4, <2>2, <2>4, <2>5, EnableEffect
  <2>7. r.ok \in BOOLEAN BY <1>4, <2>5, OkIsBoolean
  <2> HIDE DEF r
  <2> QED BY <1>1, <1>g, <2>6, <2>7, AnswerInv
<1> QED BY <1>3, <1>4

LEMMA BusResetInv == ASSUME Inv, BusReset PROVE Inv'
<1> DEFINE x == [d EXCEPT !.on = {}, !.halted = {}, !.busy = {}]
<1>1. x \in Device /\ (x.conf = 0 => Silent(x)) BY DEF Inv, Sound, Silent, Device
<1>2. Reset(x) \in Device /\ Silent(Reset(x)) /\ Reset(x).conf = 0
  <2> HIDE DEF x
  <2> QED BY <1>1, ResetEffect
<1>3. d' = [Reset(x) EXCEPT !.addr = 0] BY DEF BusReset
<1>4. Sound(d') /\ Silent(d') BY <1>2, <1>3 DEF Sound, Silent, Device
<1>5. RestOK' BY DEF BusReset, RestOK, Inv
<1> QED BY <1>4, <1>5 DEF Inv, Sound, Silent

LEMMA NextInv == ASSUME Inv, [Next]_vars PROVE Inv'
<1>0. Sound(d) /\ (d.conf = 0 => Silent(d)) /\ RestOK BY DEF Inv
<1>1. ASSUME NEW a \in {0, 1}, SetAddress(a) PROVE Inv'
  BY <1>0, <1>1 DEF SetAddress, Inv, Sound, Silent, RestOK
<1>2. CASE ValidAddress
  <2>1. newAddr \in {0, 1} BY <1>0, <1>2 DEF ValidAddress, RestOK
  <2> QED BY <1>0, <1>2, <2>1 DEF ValidAddress, Inv, Sound, Silent, RestOK, Device
<1>3. ASSUME NEW n \in 0 .. 2, SetConfiguration(n) PROVE Inv'
  BY <1>3, ConfigurationInv
<1>4. ASSUME NEW i \in 0 .. 4, NEW alt \in {0, 1}, SetInterface(i, alt) PROVE Inv'
  BY <1>4, InterfaceInv
<1>5. ASSUME NEW ep \in {2, 5}, SetHalt(ep) PROVE Inv'
  <2> DEFINE x == [d EXCEPT !.halted = @ \union {ep}, !.busy = @ \ {ep}]
  <2>e. ep \in Endpoints BY DEF Endpoints
  <2>0. x \in Device BY <1>0, <2>e DEF Sound, Device
  <2>1. Sound(x) /\ (x.conf = 0 => Silent(x))
    BY <1>0, <2>0 DEF Sound, Silent, Device
  <2>2. Answer(Done(x), "halt", ep) /\ good' \in BOOLEAN BY <1>5 DEF SetHalt
  <2>3. Done(x).d = x /\ Done(x).ok \in BOOLEAN BY DEF Done
  <2> HIDE DEF x
  <2> QED BY <2>1, <2>2, <2>3, AnswerInv
<1>6. ASSUME NEW ep \in {2, 5}, ClearHalt(ep) PROVE Inv'
  <2> DEFINE x == [d EXCEPT !.halted = @ \ {ep}]
  <2>e. ep \in Endpoints BY DEF Endpoints
  <2>0. x \in Device BY <1>0, <2>e DEF Sound, Device
  <2>1. Sound(x) /\ (x.conf = 0 => Silent(x))
    BY <1>0, <2>0 DEF Sound, Silent, Device
  <2>2. Answer(Done(x), "resume", ep) /\ good' \in BOOLEAN
    BY <1>0, <1>6 DEF ClearHalt, RestOK
  <2>3. Done(x).d = x /\ Done(x).ok \in BOOLEAN BY DEF Done
  <2> HIDE DEF x
  <2> QED BY <2>1, <2>2, <2>3, AnswerInv
<1>7. CASE BusReset BY <1>7, BusResetInv
<1>8. ASSUME NEW ep \in {2, 5}, TransferStops(ep) PROVE Inv'
  BY <1>0, <1>8 DEF TransferStops, Inv, Sound, Silent, RestOK, Device
<1>9. ASSUME NEW ep \in {1, 2, 3, 4}, TransferStarts(ep) PROVE Inv'
  BY <1>0, <1>9 DEF TransferStarts, CanRun, Inv, Sound, Silent, RestOK, Device, Endpoints
<1>10. CASE UNCHANGED vars
  BY <1>0, <1>10 DEF vars, Inv, Sound, Silent, RestOK
<1> QED BY <1>1, <1>2, <1>3, <1>4, <1>5, <1>6, <1>7, <1>8, <1>9, <1>10 DEF Next

LEMMA InvHolds == Spec => []Inv
  BY InitInv, NextInv, PTL DEF Spec

(* All variables keep their types; without a configuration nothing of the  *)
(* device is left on, and with one nothing where no endpoint is enabled.   *)
THEOREM NothingLeftOn == Spec => [](TypeOK /\ OffMeansOff)
<1>1. Inv => TypeOK /\ OffMeansOff
  BY DEF Inv, TypeOK, OffMeansOff, RunsOnEnabled, Sound, Silent, RestOK
<1> QED BY <1>1, InvHolds, PTL

(* The part of NothingLeftOn about endpoints: no transfer and no serial    *)
(* port is on where the endpoint is not enabled.                           *)
THEOREM TransfersOnEnabled == Spec => []RunsOnEnabled
<1>1. OffMeansOff => RunsOnEnabled BY DEF OffMeansOff
<1> QED BY <1>1, NothingLeftOn, PTL

(* The part of NothingLeftOn about types: the counters of interfaces stay  *)
(* within their width whatever the host asks for.                          *)
THEOREM UdcTypes == Spec => []TypeOK
  BY NothingLeftOn, PTL

-----------------------------------------------------------------------------
(* The counters.  A good host leaves every endpoint running; both          *)
(* interfaces of the serial port count one exactly when there is a         *)
(* configuration, and then every endpoint is enabled.                      *)
Paired(x) ==
  /\ x.halted = {}
  /\ x.conf = 0 => x.comm = 0 /\ x.data = 0
  /\ x.conf # 0 => x.on = Endpoints /\ x.comm = 1 /\ x.data = 1

PairInv == good => Paired(d)

LEMMA OneDown == (1 + (Byte - 1)) % Byte = 0
  BY ByteAssumption, SMT

(* What disabling one interface of a configured device does to them.       *)
LEMMA OffCounters ==
  ASSUME NEW x \in Device, NEW i \in Ifaces, x.conf # 0
  PROVE  /\ Off(x, i).comm = IF i = 0 THEN (x.comm + (Byte - 1)) % Byte ELSE x.comm
         /\ Off(x, i).data = IF i = 1 THEN (x.data + (Byte - 1)) % Byte ELSE x.data
<1> DEFINE s == x.on \ EpsOf(i)
           t == x.busy \ EpsOf(i)
           y == [x EXCEPT !.on = s, !.busy = t]
<1>1. Off(x, i) = ClassDisable(y, i)
  BY DEF Off, IfaceDisable, Found, Done, Ifaces
<1>2. s \in SUBSET Endpoints /\ t \in SUBSET Endpoints
  BY DEF Device
<1> HIDE DEF s, t
<1>3. y \in Device /\ y.comm = x.comm /\ y.data = x.data
  BY <1>2 DEF Device
<1> HIDE DEF y
<1>4. CASE i = 0
  <2>1. Off(x, i) = [y EXCEPT !.comm = (y.comm + (Byte - 1)) % Byte]
    BY <1>1, <1>4 DEF ClassDisable, CommDisable
  <2>2. QED BY <1>3, <1>4, <2>1 DEF Device
<1>5. CASE i = 1
  <2> DEFINE v == (y.data + (Byte - 1)) % Byte
             z == [y EXCEPT !.data = v, !.running = FALSE]
  <2>1. Off(x, i) = z
    BY <1>1, <1>5 DEF ClassDisable, DataDisable
  <2> HIDE DEF v
  <2>2. z.data = v /\ z.comm = y.comm
    BY <1>3 DEF Device
  <2> HIDE DEF z
  <2>3. QED BY <1>3, <1>5, <2>1, <2>2 DEF v
<1>6. CASE i \in {2, 3}
  BY <1>1, <1>3, <1>6 DEF ClassDisable
<1>7. QED
  BY <1>4, <1>5, <1>6 DEF Ifaces

LEMMA ResetCounters ==
  ASSUME NEW x \in Device,
         x.conf = 0 => x.comm = 0 /\ x.data = 0,
         x.conf # 0 => x.comm = 1 /\ x.data = 1
  PROVE  Reset(x).comm = 0 /\ Reset(x).data = 0
<1>i. 0 \in Ifaces /\ 1 \in Ifaces /\ 2 \in Ifaces /\ 3 \in Ifaces BY DEF Ifaces
<1> DEFINE a == Off(x, 0)
           b == Off(a, 1)
           w == Off(b, 2)
           e == Off(w, 3)
<1>1. Reset(x) = [e EXCEPT !.conf = 0]
  BY DEF Reset
<1>2. a \in Device /\ a.conf = x.conf
  BY <1>i, OffEffect DEF Same
<1> HIDE DEF a
<1>3. b \in Device /\ b.conf = x.conf
  BY <1>i, <1>2, OffEffect DEF Same
<1> HIDE DEF b
<1>4. w \in Device /\ w.conf = x.conf
  BY <1>i, <1>3, OffEffect DEF Same
<1> HIDE DEF w
<1>5. e \in Device
  BY <1>i, <1>4, OffEffect
<1>6. e.comm = 0 /\ e.data = 0
  <2>1. CASE x.conf = 0
    <3>1. a = x BY <1>i, <2>1, OffEffect DEF a
    <3>2. b = a BY <1>i, <1>2, <2>1, OffEffect DEF b
    <3>3. w = b BY <1>i, <1>3, <2>1, OffEffect DEF w
    <3>4. e = w BY <1>i, <1>4, <2>1, OffEffect
    <3>5. QED BY <2>1, <3>1, <3>2, <3>3, <3>4
  <2>2. CASE x.conf # 0
    <3>1. a.comm = 0 /\ a.data = 1 BY <1>i, <2>2, OffCounters, OneDown DEF a
    <3>2. b.comm = 0 /\ b.data = 0
      BY <1>i, <1>2, <2>2, <3>1, OffCounters, OneDown DEF b
    <3>3. w.comm = 0 /\ w.data = 0 BY <1>i, <1>3, <2>2, <3>2, OffCounters DEF w
    <3>4. QED BY <1>i, <1>4, <2>2, <3>3, OffCounters
  <2>3. QED BY <2>1, <2>2
<1> HIDE DEF e
<1>7. QED BY <1>1, <1>5, <1>6 DEF Device

(* What an interface adds to a device when it is enabled and accepted.     *)
Added(x, i, z) ==
  /\ z.on = x.on \union EpsOf(i) /\ z.halted = x.halted /\ x.busy \subseteq z.busy
  /\ z.comm = IF i = 0 THEN 1 ELSE x.comm
  /\ z.data = IF i = 1 THEN 1 ELSE x.data
  /\ i = 1 => z.running = TRUE /\ 2 \in z.busy
  /\ i # 1 => z.running = x.running
  /\ i = 3 /\ 5 \notin x.halted => 5 \in z.busy

LEMMA EnableAdds ==
  ASSUME NEW x, Sound(x), NEW i \in Ifaces
  PROVE  /\ IfaceEnable(x, i, 0).ok = TRUE => Added(x, i, IfaceEnable(x, i, 0).d)
         /\ x.conf # 0 /\ 2 \notin x.halted /\ EpsOf(i) \intersect x.on = {}
              => IfaceEnable(x, i, 0).ok = TRUE
<1> DEFINE r == IfaceEnable(x, i, 0)
           s == x.on \union EpsOf(i)
           y == [x EXCEPT !.on = s]
<1>1. CASE x.conf = 0 \/ EpsOf(i) \intersect x.on # {}
  <2>1. r = Failed(x)
    BY <1>1 DEF IfaceEnable, Allocated, Found, Failed
  <2> HIDE DEF r
  <2>2. r.ok = FALSE
    BY <2>1 DEF Failed
  <2>3. QED
    BY <1>1, <2>2 DEF r
<1>2. CASE x.conf # 0 /\ EpsOf(i) \intersect x.on = {}
  <2>1. r = ClassEnable(y, i)
    BY <1>2 DEF IfaceEnable, Allocated, Found, Done
  <2>2. x \in Device /\ x.busy \subseteq x.on
    BY DEF Sound
  <2>3. s \in SUBSET Endpoints
    BY <2>2 DEF Device, EpsOf, Ifaces, Endpoints
  <2>4. /\ y \in Device /\ y.on = s /\ y.halted = x.halted /\ y.busy = x.busy
        /\ y.comm = x.comm /\ y.data = x.data /\ y.running = x.running
    <3> HIDE DEF s
    <3>1. QED BY <2>2, <2>3 DEF Device
  <2> HIDE DEF y, r
  <2>5. CASE i = 0
    <3>1. r = Done([y EXCEPT !.comm = 1])
      BY <2>1, <2>5 DEF ClassEnable, CommEnable
    <3> DEFINE z == [y EXCEPT !.comm = 1]
    <3>2. /\ z.on = y.on /\ z.halted = y.halted /\ z.busy = y.busy /\ z.comm = 1
          /\ z.data = y.data /\ z.running = y.running
      BY <2>4 DEF Device
    <3> HIDE DEF z
    <3>3. r.d = z /\ r.ok = TRUE
      BY <3>1 DEF z, Done
    <3>4. QED BY <2>4, <2>5, <3>2, <3>3 DEF Added, r
  <2>6. CASE i = 1
    <3>0. 2 \in y.on /\ 2 \notin y.busy
      BY <1>2, <2>2, <2>4, <2>6 DEF EpsOf
    <3>1. CASE 2 \notin x.halted
      <4> DEFINE t == y.busy \union {2}
                 z == [y EXCEPT !.data = 1, !.running = TRUE, !.busy = t]
      <4>1. CanRun(y, 2)
        BY <2>4, <3>0, <3>1 DEF CanRun
      <4>2. r = Done(z)
        BY <2>1, <2>6, <4>1 DEF ClassEnable, DataEnable
      <4> HIDE DEF t
      <4>3. /\ z.on = y.on /\ z.halted = y.halted /\ z.busy = t /\ z.comm = y.comm
            /\ z.data = 1 /\ z.running = TRUE
        BY <2>4 DEF Device
      <4> HIDE DEF z
      <4>4. r.d = z /\ r.ok = TRUE
        BY <4>2 DEF Done
      <4>5. QED BY <2>4, <2>6, <4>3, <4>4 DEF Added, r, t
    <3>2. CASE 2 \in x.halted
      <4>1. r = Failed([y EXCEPT !.data = 0])
        BY <2>1, <2>4, <2>6, <3>2 DEF ClassEnable, DataEnable, CanRun
      <4>2. r.ok = FALSE
        BY <4>1 DEF Failed
      <4>3. QED BY <3>2, <4>2 DEF r
    <3>3. QED BY <3>1, <3>2
  <2>7. CASE i = 2
    <3>1. r.d = y /\ r.ok = TRUE
      BY <2>1, <2>7 DEF ClassEnable, Done
    <3>2. QED BY <2>4, <2>7, <3>1 DEF Added, r
  <2>8. CASE i = 3
    <3>0. 5 \in y.on
      BY <2>4, <2>8 DEF EpsOf
    <3>1. CASE CanRun(y, 5)
      <4> DEFINE t == y.busy \union {5}
                 z == [y EXCEPT !.busy = t]
      <4>1. r = Done(z)
        BY <2>1, <2>8, <3>1 DEF ClassEnable, DisplayEnable
      <4> HIDE DEF t
      <4>2. /\ z.on = y.on /\ z.halted = y.halted /\ z.busy = t /\ z.comm = y.comm
            /\ z.data = y.data /\ z.running = y.running
        BY <2>4 DEF Device
      <4> HIDE DEF z
      <4>3. r.d = z /\ r.ok = TRUE
        BY <4>1 DEF Done
      <4>4. QED BY <2>4, <2>8, <4>2, <4>3 DEF Added, r, t
    <3>2. CASE ~ CanRun(y, 5)
      <4>1. r = Done(y)
        BY <2>1, <2>8, <3>2 DEF ClassEnable, DisplayEnable
      <4>2. r.d = y /\ r.ok = TRUE
        BY <4>1 DEF Done
      <4>3. 5 \notin x.halted => 5 \in x.busy
        BY <2>4, <3>0, <3>2 DEF CanRun
      <4>4. QED BY <2>4, <2>8, <4>2, <4>3 DEF Added, r
    <3>3. QED BY <3>1, <3>2
  <2>9. i = 0 \/ i = 1 \/ i = 2 \/ i = 3
    BY DEF Ifaces
  <2>10. QED BY <2>5, <2>6, <2>7, <2>8, <2>9
<1>3. QED BY <1>1, <1>2

(* An interface is accepted only if those before it were.                  *)
Answered(r) == r.ok \in BOOLEAN
Accepted(r) == r.ok = TRUE

LEMMA NextFacts ==
  ASSUME NEW r, Answered(r), NEW i \in Ifaces
  PROVE  /\ Answered(EnableNext(r, i))
         /\ Accepted(EnableNext(r, i)) =>
              Accepted(r) /\ EnableNext(r, i) = IfaceEnable(r.d, i, 0)
<1>1. CASE r.ok = TRUE
  BY <1>1, OkIsBoolean DEF EnableNext, Answered, Accepted
<1>2. CASE r.ok = FALSE
  BY <1>2 DEF EnableNext, Answered, Accepted
<1>3. QED BY <1>1, <1>2 DEF Answered

(* When all interfaces of a silent device are enabled and accepted.        *)
LEMMA AllAdded ==
  ASSUME NEW x, Sound(x), Silent(x), EnableAll(x).ok = TRUE
  PROVE  LET z == EnableAll(x).d
         IN  /\ z.on = Endpoints /\ z.halted = x.halted /\ z.running = TRUE
             /\ z.comm = 1 /\ z.data = 1 /\ 2 \in z.busy
             /\ 5 \notin x.halted => 5 \in z.busy
<1>i. 0 \in Ifaces /\ 1 \in Ifaces /\ 2 \in Ifaces /\ 3 \in Ifaces BY DEF Ifaces
<1>n. Ifaces \subseteq Nat BY DEF Ifaces
<1>1. PICK a : a = EnableNext(Done(x), 0) OBVIOUS
<1>2. PICK b : b = EnableNext(a, 1) OBVIOUS
<1>3. PICK w : w = EnableNext(b, 2) OBVIOUS
<1>4. PICK e : e = EnableNext(w, 3) OBVIOUS
<1>5. e = EnableAll(x) BY <1>1, <1>2, <1>3, <1>4 DEF EnableAll
<1>6. Done(x).ok = TRUE /\ Done(x).d = x BY DEF Done
<1>7. Answered(a) /\ (Accepted(a) => a = IfaceEnable(x, 0, 0))
  <2>1. Answered(Done(x)) BY <1>6 DEF Answered
  <2>2. QED BY <1>1, <1>6, <1>i, <2>1, NextFacts
<1>8. Answered(b) /\ (Accepted(b) => Accepted(a) /\ b = IfaceEnable(a.d, 1, 0))
  BY <1>2, <1>7, <1>i, NextFacts
<1>b. Answered(w) /\ (Accepted(w) => Accepted(b) /\ w = IfaceEnable(b.d, 2, 0))
  BY <1>3, <1>8, <1>i, NextFacts
<1>c. Accepted(e) => Accepted(w) /\ e = IfaceEnable(w.d, 3, 0)
  BY <1>4, <1>b, <1>i, NextFacts
<1>9. /\ e.ok = TRUE /\ w.ok = TRUE /\ e = IfaceEnable(w.d, 3, 0)
      /\ b.ok = TRUE /\ w = IfaceEnable(b.d, 2, 0)
      /\ a.ok = TRUE /\ b = IfaceEnable(a.d, 1, 0)
      /\ a = IfaceEnable(x, 0, 0)
  BY <1>5, <1>7, <1>8, <1>b, <1>c DEF Accepted
<1>10. Added(x, 0, a.d) /\ Sound(a.d)
  BY <1>9, <1>i, <1>n, EnableAdds, EnableEffect
<1>11. Added(a.d, 1, b.d) /\ Sound(b.d)
  BY <1>9, <1>10, <1>i, <1>n, EnableAdds, EnableEffect
<1>12. Added(b.d, 2, w.d) /\ Sound(w.d)
  BY <1>9, <1>11, <1>i, <1>n, EnableAdds, EnableEffect
<1>13. Added(w.d, 3, e.d)
  BY <1>5, <1>9, <1>12, <1>i, EnableAdds
<1>14. e.d.on = Endpoints
  <2>1. EpsOf(0) = {3} /\ EpsOf(1) = {1, 2} /\ EpsOf(2) = {4} /\ EpsOf(3) = {5}
    BY DEF EpsOf
  <2>2. e.d.on = (({3} \union {1, 2}) \union {4}) \union {5}
    BY <1>10, <1>11, <1>12, <1>13, <2>1 DEF Added, Silent
  <2>3. QED BY <2>2 DEF Endpoints
<1>15. QED
  BY <1>5, <1>10, <1>11, <1>12, <1>13, <1>14 DEF Added

(* Without a halt, nothing is refused.                                     *)
LEMMA AllAccepted ==
  ASSUME NEW x, Sound(x), Silent(x), x.conf # 0, x.halted = {}
  PROVE  EnableAll(x).ok = TRUE
<1>i. /\ 0 \in Ifaces /\ 1 \in Ifaces /\ 2 \in Ifaces /\ 3 \in Ifaces
      /\ Ifaces \subseteq Nat
  BY DEF Ifaces
<1> DEFINE P(r, s) == /\ r.ok = TRUE /\ Sound(r.d) /\ r.d.conf # 0 /\ r.d.halted = {}
                      /\ r.d.on = s
<1>1. ASSUME NEW r, NEW s, P(r, s), NEW i \in Ifaces, EpsOf(i) \intersect s = {}
      PROVE  P(EnableNext(r, i), s \union EpsOf(i))
  <2>1. EnableNext(r, i) = IfaceEnable(r.d, i, 0)
    BY <1>1 DEF EnableNext
  <2>2. EnableNext(r, i).ok = TRUE /\ Added(r.d, i, EnableNext(r, i).d)
    BY <1>1, <2>1, EnableAdds
  <2>3. Sound(EnableNext(r, i).d) /\ EnableNext(r, i).d.conf # 0
    BY <1>1, <1>i, <2>1, EnableEffect
  <2>4. QED BY <1>1, <2>2, <2>3 DEF Added
<1>2. P(Done(x), {}) BY DEF Done, Silent
<1> HIDE DEF P
<1>3. EpsOf(0) = {3} /\ EpsOf(1) = {1, 2} /\ EpsOf(2) = {4} /\ EpsOf(3) = {5}
  BY DEF EpsOf
<1>4. P(EnableNext(Done(x), 0), {3})
  <2>1. {} \union EpsOf(0) = {3} /\ EpsOf(0) \intersect {} = {} BY <1>3
  <2>2. QED BY <1>1, <1>2, <1>i, <2>1
<1>5. P(EnableNext(EnableNext(Done(x), 0), 1), {1, 2, 3})
  <2>1. {3} \union EpsOf(1) = {1, 2, 3} /\ EpsOf(1) \intersect {3} = {} BY <1>3
  <2>2. QED BY <1>1, <1>4, <1>i, <2>1
<1>6. P(EnableNext(EnableNext(EnableNext(Done(x), 0), 1), 2), {1, 2, 3, 4})
  <2>1. {1, 2, 3} \union EpsOf(2) = {1, 2, 3, 4} /\ EpsOf(2) \intersect {1, 2, 3} = {}
    BY <1>3
  <2>2. QED BY <1>1, <1>5, <1>i, <2>1
<1>7. P(EnableAll(x), {1, 2, 3, 4} \union EpsOf(3))
  <2>1. EpsOf(3) \intersect {1, 2, 3, 4} = {} BY <1>3
  <2>2. QED BY <1>1, <1>6, <1>i, <2>1 DEF EnableAll
<1>8. QED BY <1>7 DEF P

-----------------------------------------------------------------------------
LEMMA ConfigurationPairs ==
  ASSUME Inv, PairInv, NEW n \in 0 .. 2, SetConfiguration(n)
  PROVE  /\ PairInv'
         /\ reply'.ok = TRUE /\ n = 1 =>
              /\ d'.on = Endpoints /\ d'.running = TRUE
              /\ d'.comm = 1 /\ d'.data = 1 /\ 2 \in d'.busy
              /\ good => 5 \in d'.busy
<1> DEFINE x == [Reset(d) EXCEPT !.conf = n]
           r == IF d.addr = 0 \/ n > 1 THEN Failed(d)
                ELSE IF n = 0 THEN Done(x) ELSE EnableAll(x)
<1>1. d' = r.d /\ reply'.ok = r.ok /\ good' = good
  BY DEF SetConfiguration, Answer
<1>2. Sound(d) /\ d \in Device /\ (d.conf = 0 => Silent(d)) BY DEF Inv, Sound
<1>3. Reset(d) \in Device /\ Silent(Reset(d)) /\ Reset(d).halted = d.halted
  BY <1>2, ResetEffect
<1>4. good => Reset(d).comm = 0 /\ Reset(d).data = 0
  BY <1>2, ResetCounters DEF PairInv, Paired
<1>5. n <= 1 => /\ Sound(x) /\ Silent(x) /\ x.conf = n /\ x.halted = d.halted
                /\ x.comm = Reset(d).comm /\ x.data = Reset(d).data
  BY <1>3 DEF Device, Sound, Silent
<1>6. CASE d.addr = 0 \/ n > 1
  <2>1. r = Failed(d) BY <1>6
  <2> HIDE DEF r
  <2>2. r.d = d /\ r.ok = FALSE BY <2>1 DEF Failed
  <2>3. QED BY <1>1, <2>2 DEF PairInv, Paired
<1>7. CASE ~ (d.addr = 0 \/ n > 1) /\ n = 0
  <2>1. r = Done(x) BY <1>7
  <2> HIDE DEF r, x
  <2>2. r.d = x BY <2>1 DEF Done
  <2>3. QED BY <1>1, <1>4, <1>5, <1>7, <2>2 DEF PairInv, Paired
<1>8. CASE ~ (d.addr = 0 \/ n > 1) /\ n # 0
  <2>1. r = EnableAll(x) /\ n = 1 BY <1>8
  <2> HIDE DEF r, x
  <2>2. Sound(x) /\ Silent(x) /\ x.conf = 1 /\ x.halted = d.halted
    BY <1>5, <2>1
  <2>3. r.d.conf = 1
    BY <2>1, <2>2, EnableAllEffect
  <2>4. r.ok = TRUE =>
          /\ r.d.on = Endpoints /\ r.d.running = TRUE /\ r.d.halted = d.halted
          /\ r.d.comm = 1 /\ r.d.data = 1 /\ 2 \in r.d.busy
          /\ 5 \notin d.halted => 5 \in r.d.busy
    BY <2>1, <2>2, AllAdded
  <2>5. good => d.halted = {}
    BY DEF PairInv, Paired
  <2>6. ASSUME good PROVE r.ok = TRUE
    <3>1. x.conf # 0 /\ x.halted = {}
      BY <2>2, <2>5, <2>6
    <3>2. EnableAll(x).ok = TRUE
      BY <2>2, <3>1, AllAccepted
    <3>3. QED
      BY <2>1, <3>2
  <2>7. QED BY <1>1, <2>3, <2>4, <2>5, <2>6 DEF PairInv, Paired
<1>9. QED BY <1>6, <1>7, <1>8

LEMMA InterfacePairs ==
  ASSUME Inv, PairInv, NEW i \in 0 .. 4, NEW alt \in {0, 1}, SetInterface(i, alt)
  PROVE  PairInv'
<1> DEFINE o == IfaceDisable(d, i)
           r == IF o.ok THEN IfaceEnable(o.d, i, alt) ELSE o
<1>1. d' = r.d /\ good' = (good /\ alt = 0) BY DEF SetInterface, Answer
<1>2. Sound(d) /\ d \in Device /\ (d.conf = 0 => Silent(d)) BY DEF Inv, Sound
<1>3. CASE d.conf = 0 \/ i \notin Ifaces
  <2>1. r = Failed(d) BY <1>3 DEF IfaceDisable, Found, Failed
  <2> HIDE DEF r
  <2>2. r.d = d BY <2>1 DEF Failed
  <2>3. QED BY <1>1, <2>2 DEF PairInv, Paired
<1>4. CASE d.conf # 0 /\ i \in Ifaces
  <2> SUFFICES ASSUME good, alt = 0 PROVE Paired(d')
    BY <1>1 DEF PairInv
  <2>1. o.ok = TRUE /\ o.d = Off(d, i)
    BY <1>4 DEF IfaceDisable, Found, Done, Off
  <2>2. o.d \in Device /\ Same(d, o.d) /\ Left(d, i, o.d)
    BY <2>1, <1>2, <1>4, OffEffect
  <2>3. i # 1 => EpsOf(i) \intersect {1, 2} = {} BY <1>4 DEF EpsOf, Ifaces
  <2>4. /\ o.d.comm = IF i = 0 THEN 0 ELSE 1
        /\ o.d.data = IF i = 1 THEN 0 ELSE 1
    BY <1>2, <1>4, <2>1, OffCounters, OneDown DEF PairInv, Paired
  <2>5. r = IfaceEnable(o.d, i, 0) BY <2>1
  <2> HIDE DEF o
  <2>6. Sound(o.d)
    <3>1. d.running \in BOOLEAN BY <1>2 DEF Device
    <3> QED BY <3>1, <1>2, <2>2, <2>3 DEF Sound, Left
  <2>7. /\ d.halted = {} /\ d.on = Endpoints /\ EpsOf(i) \subseteq Endpoints
        /\ o.d.on = Endpoints \ EpsOf(i) /\ o.d.halted = {} /\ o.d.conf # 0
    BY <1>4, <2>2 DEF PairInv, Paired, Left, Same, EpsOf, Ifaces, Endpoints
  <2> HIDE DEF r
  <2>8. Added(o.d, i, r.d)
    BY <1>4, <2>5, <2>6, <2>7, EnableAdds
  <2>9. r.d.conf # 0
    BY <1>4, <2>5, <2>6, <2>7, EnableEffect DEF Ifaces
  <2>10. r.d.on = Endpoints
    BY <2>7, <2>8 DEF Added
  <2>11. QED
    BY <1>1, <2>4, <2>7, <2>8, <2>9, <2>10 DEF Added, Paired
<1>5. QED BY <1>3, <1>4

LEMMA BusResetPairs == ASSUME Inv, PairInv, BusReset PROVE PairInv'
<1> DEFINE x == [d EXCEPT !.on = {}, !.halted = {}, !.busy = {}]
<1>0. d \in Device BY DEF Inv, Sound
<1>1. /\ x \in Device /\ x.conf = d.conf /\ x.comm = d.comm
      /\ x.conf = 0 => Silent(x)
      /\ x.data = d.data /\ x.halted = {}
  BY <1>0 DEF Inv, Sound, Silent, Device
<1>2. d' = [Reset(x) EXCEPT !.addr = 0] /\ good' = good BY DEF BusReset
<1> HIDE DEF x
<1>3. Reset(x) \in Device /\ Reset(x).conf = 0 /\ Reset(x).halted = {}
  BY <1>1, ResetEffect
<1>4. good => Reset(x).comm = 0 /\ Reset(x).data = 0
  BY <1>1, ResetCounters DEF PairInv, Paired
<1>5. QED BY <1>2, <1>3, <1>4 DEF Device, PairInv, Paired

LEMMA NextPairs == ASSUME Inv, PairInv, [Next]_vars PROVE PairInv'
<1>0. d \in Device BY DEF Inv, Sound
<1>1. ASSUME NEW a \in {0, 1}, SetAddress(a) PROVE PairInv'
  BY <1>1 DEF SetAddress, PairInv, Paired
<1>2. CASE ValidAddress
  BY <1>0, <1>2 DEF ValidAddress, PairInv, Paired, Device
<1>3. ASSUME NEW ep \in {2, 5}, SetHalt(ep) PROVE PairInv'
  BY <1>3 DEF SetHalt, PairInv
<1>4. ASSUME NEW ep \in {2, 5}, ClearHalt(ep) PROVE PairInv'
  <2> DEFINE x == [d EXCEPT !.halted = @ \ {ep}]
  <2>1. d' = Done(x).d /\ good' = good BY <1>4 DEF ClearHalt, Answer
  <2>2. Done(x).d = x BY DEF Done
  <2>3. /\ x.halted = d.halted \ {ep} /\ x.conf = d.conf /\ x.on = d.on
        /\ x.comm = d.comm /\ x.data = d.data
    BY <1>0 DEF Device
  <2> HIDE DEF x
  <2>4. QED BY <2>1, <2>2, <2>3 DEF PairInv, Paired
<1>5. ASSUME NEW ep \in {2, 5}, TransferStops(ep) PROVE PairInv'
  BY <1>0, <1>5 DEF TransferStops, PairInv, Paired, Device
<1>6. ASSUME NEW ep \in {1, 2, 3, 4}, TransferStarts(ep) PROVE PairInv'
  BY <1>0, <1>6 DEF TransferStarts, PairInv, Paired, Device
<1>7. CASE UNCHANGED vars
  BY <1>7 DEF vars, PairInv, Paired
<1>8. QED
  BY <1>1, <1>2, <1>3, <1>4, <1>5, <1>6, <1>7, ConfigurationPairs, InterfacePairs,
     BusResetPairs DEF Next

LEMMA PairInvHolds == Spec => []PairInv
<1>1. Init => PairInv
  BY DEF Init, PairInv, Paired
<1>2. QED
  BY <1>1, NextPairs, InvHolds, PTL DEF Spec

(* Enabling and disabling of the serial port's interfaces pair up under    *)
(* every good host, whatever the width of the counters.                    *)
THEOREM GoodHostPairs == Spec => []CountersPair
<1>1. PairInv /\ Inv /\ TypeOK => CountersPair
  BY ByteAssumption DEF PairInv, Paired, Inv, Sound, Device, CountersPair
<1>2. QED
  BY <1>1, PairInvHolds, InvHolds, UdcTypes, PTL

(* An accepted configuration has every interface at work, whatever was     *)
(* refused, halted or left over before.                                    *)
THEOREM AcceptedIsOn == Spec => AcceptedMeansAllOn
<1> DEFINE A == reply'.req = "configuration" /\ reply'.ok /\ reply'.arg = 1 /\ reply' # reply
                => /\ d'.on = Endpoints /\ d'.running
                   /\ d'.comm = 1 /\ d'.data = 1 /\ 2 \in d'.busy
                   /\ good => 5 \in d'.busy
<1>1. Inv /\ Inv' /\ PairInv /\ [Next]_vars => [A]_vars
  <2> SUFFICES ASSUME Inv, Inv', PairInv, Next,
                      reply'.req = "configuration", reply'.ok, reply'.arg = 1,
                      reply' # reply
               PROVE  /\ d'.on = Endpoints /\ d'.running
                      /\ d'.comm = 1 /\ d'.data = 1 /\ 2 \in d'.busy
                      /\ good => 5 \in d'.busy
    OBVIOUS
  <2>1. \E n \in 0 .. 2 : SetConfiguration(n)
    BY DEF Next, SetAddress, ValidAddress, SetInterface, SetHalt, ClearHalt, BusReset,
           TransferStops, TransferStarts, Answer
  <2>2. SetConfiguration(1)
    BY <2>1 DEF SetConfiguration, Answer
  <2>3. reply'.ok = TRUE
    BY DEF Inv, RestOK
  <2>4. /\ d'.on = Endpoints /\ d'.running = TRUE
        /\ d'.comm = 1 /\ d'.data = 1 /\ 2 \in d'.busy
        /\ good => 5 \in d'.busy
    <3>1. 1 \in 0 .. 2
      OBVIOUS
    <3>2. QED
      BY <2>2, <2>3, <3>1, ConfigurationPairs
  <2>5. QED
    BY <2>4
<1>2. QED
  BY <1>1, InvHolds, PairInvHolds, PTL DEF Spec, AcceptedMeansAllOn
-----------------------------------------------------------------------------
(***************************************************************************)
(* The control endpoint: the functions of the driver.                      *)
(***************************************************************************)
ReqType ==
  [dir : {"IN", "OUT"}, length : 0 .. MaxLength,
   payload : 0 .. MaxLength, ok : BOOLEAN, callback : BOOLEAN]

Fields ==
  [state : Ctl!States, req : ReqType, nb : Nat, prev : Nat, short : BOOLEAN,
   shaken : BOOLEAN, calls : Nat, early : BOOLEAN]

(* What the functions of the driver map to each other.                     *)
CtlDevice ==
  [c : Fields, csr : SUBSET Ctl!Flags, fifo : [rx : Nat, tx : Nat]]

(* The fields that most functions leave alone.                             *)
SameHistory(x, y) ==
  /\ y.c.shaken = x.c.shaken /\ y.c.calls = x.c.calls /\ y.c.early = x.c.early

SameReq(x, y) ==
  y.c.req.dir = x.c.req.dir /\ y.c.req.length = x.c.req.length /\ y.c.req.ok = x.c.req.ok

SameCount(x, y) ==
  y.c.nb = x.c.nb /\ y.c.prev = x.c.prev /\ y.c.short = x.c.short

LEMMA AckEffect ==
  ASSUME NEW x \in CtlDevice, NEW f \in Ctl!Flags
  PROVE  /\ Ctl!Ack(x, f) \in CtlDevice
         /\ Ctl!Ack(x, f).c = x.c /\ Ctl!Ack(x, f).fifo = x.fifo /\ Ctl!Ack(x, f).csr = x.csr \ {f}
BY DEF Ctl!Ack, CtlDevice

(* A device with other fields of the driver.                               *)
LEMMA WithFields ==
  ASSUME NEW x \in CtlDevice, NEW k \in Fields
  PROVE  LET y == [x EXCEPT !.c = k]
         IN y \in CtlDevice /\ y.c = k /\ y.csr = x.csr /\ y.fifo = x.fifo
BY DEF CtlDevice

LEMMA CtlDeviceTyped ==
  ASSUME NEW x \in CtlDevice
  PROVE  x.c \in Fields /\ x.csr \in SUBSET Ctl!Flags /\ x.fifo \in [rx : Nat, tx : Nat]
BY DEF CtlDevice

LEMMA CtrlInitEffect ==
  ASSUME NEW x \in CtlDevice
  PROVE  LET y == Ctl!CtrlInit(x)
         IN /\ y \in CtlDevice /\ SameHistory(x, y) /\ SameReq(x, y) /\ SameCount(x, y)
            /\ y.csr = x.csr /\ y.fifo = x.fifo
            /\ y.c.state = "SETUP" /\ ~y.c.req.callback /\ y.c.req.payload = 0
<1> DEFINE q == [x.c.req EXCEPT !.callback = FALSE, !.payload = 0]
           k == [x.c EXCEPT !.state = "SETUP", !.req = q]
           y == Ctl!CtrlInit(x)
<1>1. y = [x EXCEPT !.c = k] BY DEF Ctl!CtrlInit, CtlDevice
<1>2. x.c \in Fields BY CtlDeviceTyped
<1>3. /\ q \in ReqType /\ q.dir = x.c.req.dir /\ q.length = x.c.req.length
      /\ q.ok = x.c.req.ok /\ q.callback = FALSE /\ q.payload = 0
  <2>1. x.c.req \in ReqType /\ 0 \in 0 .. MaxLength BY <1>2, ControlAssumption DEF Fields
  <2> QED BY <2>1 DEF ReqType
<1> HIDE DEF q
<1>4. /\ k \in Fields /\ k.state = "SETUP" /\ k.req = q /\ k.nb = x.c.nb /\ k.prev = x.c.prev
      /\ k.short = x.c.short /\ k.shaken = x.c.shaken /\ k.calls = x.c.calls /\ k.early = x.c.early
  BY <1>2, <1>3 DEF Fields, Ctl!States
<1> HIDE DEF k
<1>5. y \in CtlDevice /\ y.c = k /\ y.csr = x.csr /\ y.fifo = x.fifo
  BY <1>1, <1>4, WithFields
<1> HIDE DEF y
<1>6. SameHistory(x, y) /\ SameReq(x, y) /\ SameCount(x, y)
  BY <1>3, <1>4, <1>5 DEF SameHistory, SameReq, SameCount
<1> QED BY <1>3, <1>4, <1>5, <1>6 DEF y

LEMMA EndOfRequestEffect ==
  ASSUME NEW x \in CtlDevice
  PROVE  LET y == Ctl!EndOfRequest(x)
         IN /\ y \in CtlDevice /\ SameCount(x, y)
            /\ y.csr = x.csr /\ y.fifo = x.fifo /\ y.c.state = x.c.state /\ y.c.req = x.c.req
            /\ y.c.shaken = x.c.shaken
            /\ y.c.calls = IF x.c.req.callback THEN x.c.calls + 1 ELSE x.c.calls
            /\ x.c.shaken \/ "RXSETUP" \in x.csr \/ ~x.c.req.callback => y.c.early = x.c.early
<1> DEFINE e == x.c.early \/ ~(x.c.shaken \/ "RXSETUP" \in x.csr)
           n == x.c.calls + 1
           k == [x.c EXCEPT !.calls = n, !.early = e]
           y == Ctl!EndOfRequest(x)
<1>1. x.c \in Fields BY CtlDeviceTyped
<1>2. CASE x.c.req.callback
  <2>1. y = [x EXCEPT !.c = k] BY <1>2 DEF Ctl!EndOfRequest, CtlDevice
  <2>2. e \in BOOLEAN /\ n \in Nat BY <1>1 DEF Fields
  <2>3. x.c.shaken \/ "RXSETUP" \in x.csr => e = x.c.early BY <1>1 DEF Fields
  <2> HIDE DEF e, n
  <2>4. /\ k \in Fields /\ k.state = x.c.state /\ k.req = x.c.req /\ k.nb = x.c.nb
        /\ k.prev = x.c.prev /\ k.short = x.c.short /\ k.shaken = x.c.shaken
        /\ k.calls = n /\ k.early = e
    BY <1>1, <2>2 DEF Fields
  <2> HIDE DEF k
  <2>5. y \in CtlDevice /\ y.c = k /\ y.csr = x.csr /\ y.fifo = x.fifo
    BY <2>1, <2>4, WithFields
  <2> HIDE DEF y
  <2> QED BY <1>2, <2>3, <2>4, <2>5 DEF SameCount, y, n
<1>3. CASE ~x.c.req.callback
  BY <1>3 DEF Ctl!EndOfRequest, SameCount
<1> QED BY <1>2, <1>3

(* The three ways to go on to a handshake or a stall.                      *)
LEMMA GoOnEffect ==
  ASSUME NEW x \in CtlDevice
  PROVE  /\ LET y == Ctl!StallData(x)
            IN /\ y \in CtlDevice /\ SameHistory(x, y) /\ SameCount(x, y) /\ y.c.req = x.c.req
               /\ y.c.state = "STALL_REQ" /\ y.csr = x.csr \union {"FORCESTALL"}
               /\ y.fifo = x.fifo
         /\ LET y == Ctl!SendZlpIn(x)
            IN /\ y \in CtlDevice /\ SameHistory(x, y) /\ SameCount(x, y) /\ y.c.req = x.c.req
               /\ y.c.state = "WAIT_IN_ZLP" /\ y.csr = x.csr \union {"TXPKTRDY"}
               /\ y.fifo.rx = x.fifo.rx /\ y.fifo.tx = 0
         /\ LET y == Ctl!SendZlpOut(x)
            IN /\ y \in CtlDevice /\ SameHistory(x, y) /\ SameCount(x, y) /\ y.c.req = x.c.req
               /\ y.c.state = "WAIT_OUT_ZLP" /\ y.csr = x.csr /\ y.fifo = x.fifo
<1> DEFINE K(s) == [x.c EXCEPT !.state = s]
<1>1. x.c \in Fields /\ x.csr \in SUBSET Ctl!Flags /\ x.fifo \in [rx : Nat, tx : Nat]
  BY CtlDeviceTyped
<1>2. ASSUME NEW s \in Ctl!States
      PROVE  /\ K(s) \in Fields /\ K(s).state = s /\ K(s).req = x.c.req /\ K(s).nb = x.c.nb
             /\ K(s).prev = x.c.prev /\ K(s).short = x.c.short /\ K(s).shaken = x.c.shaken
             /\ K(s).calls = x.c.calls /\ K(s).early = x.c.early
  BY <1>1 DEF Fields
<1>3. {"STALL_REQ", "WAIT_IN_ZLP", "WAIT_OUT_ZLP"} \subseteq Ctl!States BY DEF Ctl!States
<1> DEFINE Y(s, t, g) == [x EXCEPT !.c = K(s), !.csr = t, !.fifo = g]
           Good(s, t, g, y) ==
             /\ y \in CtlDevice /\ SameHistory(x, y) /\ SameCount(x, y) /\ y.c.req = x.c.req
             /\ y.c.state = s /\ y.csr = t /\ y.fifo = g
<1>4. ASSUME NEW s \in Ctl!States, NEW t \in SUBSET Ctl!Flags, NEW g \in [rx : Nat, tx : Nat]
      PROVE  Good(s, t, g, Y(s, t, g))
  <2> DEFINE y == Y(s, t, g)
  <2> HIDE DEF K
  <2>1. y \in CtlDevice /\ y.c = K(s) /\ y.csr = t /\ y.fifo = g
    BY <1>2 DEF CtlDevice
  <2> QED BY <1>2, <2>1 DEF SameHistory, SameCount
<1> DEFINE st == x.csr \union {"FORCESTALL"}
           zt == x.csr \union {"TXPKTRDY"}
           g == [x.fifo EXCEPT !.tx = 0]
<1>5. st \in SUBSET Ctl!Flags /\ zt \in SUBSET Ctl!Flags BY <1>1 DEF Ctl!Flags
<1>6. g \in [rx : Nat, tx : Nat] /\ g.rx = x.fifo.rx /\ g.tx = 0 BY <1>1
<1>7. Ctl!StallData(x) = Y("STALL_REQ", st, x.fifo)
  BY DEF Ctl!StallData, CtlDevice
<1>8. Ctl!SendZlpIn(x) = Y("WAIT_IN_ZLP", zt, g)
  BY DEF Ctl!SendZlpIn, CtlDevice
<1>9. Ctl!SendZlpOut(x) = Y("WAIT_OUT_ZLP", x.csr, x.fifo)
  BY DEF Ctl!SendZlpOut, CtlDevice
<1> HIDE DEF K, st, zt, g, Y, Good
<1>10. Good("STALL_REQ", st, x.fifo, Ctl!StallData(x)) BY <1>1, <1>3, <1>4, <1>5, <1>7
<1>11. Good("WAIT_IN_ZLP", zt, g, Ctl!SendZlpIn(x)) BY <1>3, <1>4, <1>5, <1>6, <1>8
<1>12. Good("WAIT_OUT_ZLP", x.csr, x.fifo, Ctl!SendZlpOut(x)) BY <1>1, <1>3, <1>4, <1>9
<1> QED BY <1>6, <1>10, <1>11, <1>12 DEF st, zt, Good

(* A difference of two lengths, the larger first, is kept in 16 bits.      *)
LEMMA FitsWidth ==
  ASSUME NEW i \in Nat, i < 65536
  PROVE  i % 65536 = i
OBVIOUS

LEMMA BelowWidth ==
  ASSUME NEW m \in Nat, m < 65536, NEW p \in 0 .. m, NEW n \in Nat, n <= p
  PROVE  p - n \in Nat /\ p - n < 65536
OBVIOUS

(* The next packet: of PktSize units, or short and the last one.           *)
LEMMA FillEffect ==
  ASSUME NEW x \in CtlDevice, x.c.nb <= x.c.req.payload
  PROVE  LET y == Ctl!Fill(x)
         IN /\ y \in CtlDevice /\ SameHistory(x, y)
            /\ y.c.req = x.c.req /\ y.c.prev = x.c.prev /\ y.fifo.rx = x.fifo.rx
            /\ "RX_BK0" \in x.csr =>
                 /\ y.c.state = "WAIT_OUT_ZLP" /\ y.csr = x.csr \ {"TXCOMP"} /\ y.c.nb = x.c.nb
                 /\ y.fifo.tx = x.fifo.tx
            /\ "RX_BK0" \notin x.csr =>
                 /\ y.c.state = x.c.state /\ y.csr = (x.csr \union {"TXPKTRDY"}) \ {"TXCOMP"}
                 /\ y.c.short <=> y.fifo.tx < PktSize
                 /\ y.c.nb = x.c.nb + y.fifo.tx /\ y.c.nb <= x.c.req.payload
                 /\ y.fifo.tx <= PktSize
                 /\ y.c.short => y.c.nb = x.c.req.payload
<1> DEFINE remain == (x.c.req.payload - x.c.nb) % 65536
           n == IF remain >= PktSize THEN PktSize ELSE remain
           b == remain < PktSize
           k == [x.c EXCEPT !.short = b]
           w == [x EXCEPT !.c = k]
           m == x.c.nb + n
           l == [k EXCEPT !.nb = m]
           g == [x.fifo EXCEPT !.tx = n]
           t == x.csr \union {"TXPKTRDY"}
           z == [x EXCEPT !.c = l, !.csr = t, !.fifo = g]
           y == Ctl!Fill(x)
<1>1. x.c \in Fields /\ x.csr \in SUBSET Ctl!Flags /\ x.fifo \in [rx : Nat, tx : Nat]
  BY CtlDeviceTyped
<1>2. x.c.nb \in Nat /\ x.c.req.payload \in 0 .. MaxLength /\ MaxLength \in Nat /\ MaxLength < 65536
      /\ PktSize \in Nat
  <2>1. x.c.nb \in Nat /\ x.c.req \in ReqType BY <1>1 DEF Fields
  <2> QED BY <2>1, ControlAssumption DEF ReqType
<1>3. remain = x.c.req.payload - x.c.nb /\ remain \in Nat
  <2>1. x.c.req.payload - x.c.nb \in Nat /\ x.c.req.payload - x.c.nb < 65536
    BY <1>2, BelowWidth
  <2> QED BY <2>1, FitsWidth DEF remain
<1> HIDE DEF remain
<1>4. /\ n \in Nat /\ n <= PktSize /\ b \in BOOLEAN /\ (b <=> n < PktSize)
      /\ m \in Nat /\ m <= x.c.req.payload
      /\ b => m = x.c.req.payload
  BY <1>2, <1>3
<1>5. y = IF "RX_BK0" \in x.csr THEN Ctl!Ack(Ctl!SendZlpOut(w), "TXCOMP") ELSE Ctl!Ack(z, "TXCOMP")
  <2>1. w = [x EXCEPT !.c.short = b] BY DEF CtlDevice
  <2>2. z = [w EXCEPT !.c.nb = @ + n, !.fifo.tx = n, !.csr = @ \union {"TXPKTRDY"}]
    <3>1. w.c = k /\ w.fifo = x.fifo /\ w.csr = x.csr /\ k.nb = x.c.nb
      BY <1>1 DEF CtlDevice, Fields
    <3>2. z = [w EXCEPT !.c = l, !.fifo = g, !.csr = t] BY DEF CtlDevice
    <3> QED BY <3>1, <3>2
  <2>3. w.csr = x.csr BY DEF CtlDevice
  <2> QED BY <2>1, <2>2, <2>3 DEF Ctl!Fill, b, n, remain
<1> HIDE DEF b
<1>6. /\ k \in Fields /\ k.state = x.c.state /\ k.req = x.c.req /\ k.nb = x.c.nb
      /\ k.prev = x.c.prev /\ k.short = b /\ k.shaken = x.c.shaken
      /\ k.calls = x.c.calls /\ k.early = x.c.early
  BY <1>1, <1>4 DEF Fields
<1> HIDE DEF n, m, k
<1>7. /\ l \in Fields /\ l.state = k.state /\ l.req = k.req /\ l.nb = m
      /\ l.prev = k.prev /\ l.short = b /\ l.shaken = k.shaken
      /\ l.calls = k.calls /\ l.early = k.early
  BY <1>4, <1>6 DEF Fields
<1> HIDE DEF l
<1>8. g \in [rx : Nat, tx : Nat] /\ g.rx = x.fifo.rx /\ g.tx = n BY <1>1, <1>4
<1>9. t \in SUBSET Ctl!Flags BY <1>1 DEF Ctl!Flags
<1> HIDE DEF g, t
<1>10. z \in CtlDevice /\ z.c = l /\ z.csr = t /\ z.fifo = g
  BY <1>7, <1>8, <1>9 DEF CtlDevice
<1>11. w \in CtlDevice /\ w.c = k /\ w.csr = x.csr /\ w.fifo = x.fifo
  BY <1>6, WithFields
<1> HIDE DEF w, z, y
<1>12. "TXCOMP" \in Ctl!Flags BY DEF Ctl!Flags
<1>13. CASE "RX_BK0" \in x.csr
  <2> DEFINE v == Ctl!SendZlpOut(w)
  <2>1. /\ v \in CtlDevice /\ SameHistory(w, v) /\ SameCount(w, v) /\ v.c.req = w.c.req
        /\ v.c.state = "WAIT_OUT_ZLP" /\ v.csr = w.csr /\ v.fifo = w.fifo
    BY <1>11, GoOnEffect
  <2> HIDE DEF v
  <2>2. y \in CtlDevice /\ y.c = v.c /\ y.fifo = v.fifo /\ y.csr = v.csr \ {"TXCOMP"}
    BY <1>5, <1>12, <1>13, <2>1, AckEffect DEF v
  <2> QED BY <1>6, <1>11, <1>13, <2>1, <2>2 DEF SameHistory, SameCount, y
<1>14. CASE "RX_BK0" \notin x.csr
  <2>1. y \in CtlDevice /\ y.c = z.c /\ y.fifo = z.fifo /\ y.csr = z.csr \ {"TXCOMP"}
    BY <1>5, <1>10, <1>12, <1>14, AckEffect
  <2>2. /\ y.fifo.tx = n /\ y.fifo.rx = x.fifo.rx /\ y.c.nb = m /\ (y.c.short <=> b)
        /\ y.csr = t \ {"TXCOMP"} /\ SameHistory(x, y) /\ y.c.req = x.c.req
        /\ y.c.prev = x.c.prev /\ y.c.state = x.c.state
    BY <1>6, <1>7, <1>8, <1>10, <2>1 DEF SameHistory
  <2> QED BY <1>4, <1>14, <2>1, <2>2 DEF y, t, m
<1> QED BY <1>13, <1>14

(* The end of the buffer: the phase is over, or an empty packet follows.   *)
LEMMA DataSentEffect ==
  ASSUME NEW x \in CtlDevice, x.c.nb <= x.c.req.payload
  PROVE  LET y == Ctl!DataSent(x)
         IN /\ y \in CtlDevice /\ SameHistory(x, y)
            /\ y.c.req = x.c.req /\ y.c.prev = x.c.prev + x.c.nb /\ y.fifo.rx = x.fifo.rx
            /\ \/ /\ y.c.state = "WAIT_OUT_ZLP" /\ y.csr = x.csr \ {"TXCOMP"}
                  /\ y.c.nb = x.c.nb /\ y.fifo.tx = x.fifo.tx
                  /\ \/ "RX_BK0" \in x.csr \/ x.c.short
                     \/ x.c.req.length = x.c.prev + x.c.nb
               \/ /\ "RX_BK0" \notin x.csr
                  /\ y.c.state = x.c.state /\ y.csr = (x.csr \union {"TXPKTRDY"}) \ {"TXCOMP"}
                  /\ y.c.short <=> y.fifo.tx < PktSize
                  /\ y.c.nb = x.c.nb + y.fifo.tx /\ y.c.nb <= x.c.req.payload
                  /\ y.fifo.tx <= PktSize
                  /\ y.c.short => y.c.nb = x.c.req.payload
                  /\ ~x.c.short /\ x.c.req.length # x.c.prev + x.c.nb
<1> DEFINE p == x.c.prev + x.c.nb
           k == [x.c EXCEPT !.prev = p]
           w == [x EXCEPT !.c = k]
           y == Ctl!DataSent(x)
<1>1. x.c \in Fields BY CtlDeviceTyped
<1>2. p \in Nat BY <1>1 DEF Fields
<1>3. y = IF w.c.req.length = w.c.prev \/ w.c.short
           THEN Ctl!Ack(Ctl!SendZlpOut(w), "TXCOMP") ELSE Ctl!Fill(w)
  BY DEF Ctl!DataSent, CtlDevice
<1> HIDE DEF p
<1>4. /\ k \in Fields /\ k.state = x.c.state /\ k.req = x.c.req /\ k.nb = x.c.nb
      /\ k.prev = p /\ k.short = x.c.short /\ k.shaken = x.c.shaken
      /\ k.calls = x.c.calls /\ k.early = x.c.early
  BY <1>1, <1>2 DEF Fields
<1> HIDE DEF k
<1>5. w \in CtlDevice /\ w.c = k /\ w.csr = x.csr /\ w.fifo = x.fifo
  BY <1>4, WithFields
<1> HIDE DEF w, y
<1>6. "TXCOMP" \in Ctl!Flags BY DEF Ctl!Flags
<1>7. CASE w.c.req.length = w.c.prev \/ w.c.short
  <2> DEFINE v == Ctl!SendZlpOut(w)
  <2>1. /\ v \in CtlDevice /\ SameHistory(w, v) /\ SameCount(w, v) /\ v.c.req = w.c.req
        /\ v.c.state = "WAIT_OUT_ZLP" /\ v.csr = w.csr /\ v.fifo = w.fifo
    BY <1>5, GoOnEffect
  <2> HIDE DEF v
  <2>2. y \in CtlDevice /\ y.c = v.c /\ y.fifo = v.fifo /\ y.csr = v.csr \ {"TXCOMP"}
    BY <1>3, <1>6, <1>7, <2>1, AckEffect DEF v
  <2> QED BY <1>4, <1>5, <1>7, <2>1, <2>2 DEF SameHistory, SameCount, y, p
<1>8. CASE ~(w.c.req.length = w.c.prev \/ w.c.short)
  <2>1. y = Ctl!Fill(w) /\ w.c.nb <= w.c.req.payload BY <1>3, <1>4, <1>5, <1>8
  <2>2. /\ y \in CtlDevice /\ SameHistory(w, y)
        /\ y.c.req = w.c.req /\ y.c.prev = w.c.prev /\ y.fifo.rx = w.fifo.rx
        /\ "RX_BK0" \in w.csr =>
             /\ y.c.state = "WAIT_OUT_ZLP" /\ y.csr = w.csr \ {"TXCOMP"} /\ y.c.nb = w.c.nb
             /\ y.fifo.tx = w.fifo.tx
        /\ "RX_BK0" \notin w.csr =>
             /\ y.c.state = w.c.state /\ y.csr = (w.csr \union {"TXPKTRDY"}) \ {"TXCOMP"}
             /\ y.c.short <=> y.fifo.tx < PktSize
             /\ y.c.nb = w.c.nb + y.fifo.tx /\ y.c.nb <= w.c.req.payload
             /\ y.fifo.tx <= PktSize
             /\ y.c.short => y.c.nb = w.c.req.payload
    BY <1>5, <2>1, FillEffect
  <2> QED BY <1>4, <1>5, <1>8, <2>2 DEF SameHistory, y, p
<1> QED BY <1>7, <1>8

(* An OUT packet outside of the data phase.                                *)
LEMMA OutOfPhaseEffect ==
  ASSUME NEW x \in CtlDevice
  PROVE  LET y == Ctl!OutOfPhase(x)
             ends == x.c.state \in {"DATA_IN", "WAIT_OUT_ZLP"}
         IN /\ y \in CtlDevice /\ SameReq(x, y) /\ SameCount(x, y) /\ y.fifo = x.fifo
            /\ y.c.state = "SETUP" /\ ~y.c.req.callback
            /\ y.c.shaken = x.c.shaken
            /\ ~ends \/ ~x.c.req.callback => SameHistory(x, y)
            /\ y.csr = (IF ends THEN x.csr ELSE x.csr \union {"FORCESTALL"}) \ {"RX_BK0"}
<1> DEFINE ends == x.c.state \in {"DATA_IN", "WAIT_OUT_ZLP"}
           w == IF ends THEN Ctl!EndOfRequest(x) ELSE Ctl!StallData(x)
           a == Ctl!Ack(w, "RX_BK0")
           y == Ctl!OutOfPhase(x)
<1>1. /\ w \in CtlDevice /\ SameCount(x, w) /\ w.fifo = x.fifo /\ w.c.req = x.c.req
      /\ w.c.shaken = x.c.shaken
      /\ ~ends \/ ~x.c.req.callback => SameHistory(x, w)
      /\ w.csr = IF ends THEN x.csr ELSE x.csr \union {"FORCESTALL"}
  <2>1. CASE ends BY <2>1, EndOfRequestEffect DEF SameHistory
  <2>2. CASE ~ends BY <2>2, GoOnEffect DEF SameHistory
  <2> QED BY <2>1, <2>2
<1> HIDE DEF w
<1>2. "RX_BK0" \in Ctl!Flags BY DEF Ctl!Flags
<1>3. a \in CtlDevice /\ a.c = w.c /\ a.fifo = w.fifo /\ a.csr = w.csr \ {"RX_BK0"}
  BY <1>1, <1>2, AckEffect
<1> HIDE DEF a
<1>4. y = Ctl!CtrlInit(a) BY DEF Ctl!OutOfPhase, a, w
<1>5. /\ y \in CtlDevice /\ SameHistory(a, y) /\ SameReq(a, y) /\ SameCount(a, y)
      /\ y.csr = a.csr /\ y.fifo = a.fifo /\ y.c.state = "SETUP" /\ ~y.c.req.callback
  BY <1>3, <1>4, CtrlInitEffect
<1> HIDE DEF y
<1> QED BY <1>1, <1>3, <1>5 DEF SameHistory, SameReq, SameCount, y

(***************************************************************************)
(* The inductive invariant of UdpControl.  A request that the driver has   *)
(* taken over is in one of seven phases; each says how far the host and    *)
(* the driver are, and which flags stand between them.                     *)
(***************************************************************************)
Has(f) == f \in csr

(* A request that the driver has not taken over yet: nothing else is on.   *)
AwaitsService == Has("RXSETUP") =>
  /\ csr \subseteq {"RXSETUP", "STALLSENT"}
  /\ host.moved = 0 /\ ~host.cut
  /\ host.stage = IF host.req.length = 0 THEN "status" ELSE "data"

Rested ==
  /\ host.stage \in {"idle", "reset"} => csr = {}
  /\ host.stage = "idle" => c.state = "SETUP"

Refused ==
  /\ host.req.ok = FALSE /\ c.state = "STALL_REQ"
  /\ host.stage \in {"data", "status", "stalled"}
  /\ csr \subseteq {"FORCESTALL", "STALLSENT"} /\ Has("FORCESTALL")

(* The packet in the FIFO is one that the host has not taken (TXPKTRDY) or *)
(* has (TXCOMP).                                                           *)
SendsData ==
  /\ host.req.ok = TRUE /\ host.req.dir = "IN" /\ c.state = "DATA_IN" /\ c.req = host.req
  /\ host.stage \in {"data", "status", "done"}
  /\ ~Has("FORCESTALL") /\ (Has("TXPKTRDY") <=> ~Has("TXCOMP"))
  /\ Has("RX_BK0") <=> host.stage = "done"
  /\ fifo.tx <= c.nb /\ c.nb <= c.req.payload
  /\ c.short = TRUE <=> fifo.tx < PktSize
  /\ c.short = TRUE => c.nb = c.req.payload
  /\ c.prev # 0 => c.prev = c.req.payload /\ c.short = TRUE
  /\ host.moved = IF Has("TXPKTRDY") THEN c.nb - fifo.tx ELSE c.nb
  /\ host.stage = "data" => host.cut = FALSE
  /\ host.stage = "data" /\ Has("TXCOMP") => c.short = FALSE /\ c.nb < c.req.length
  /\ host.stage = "status" =>
       host.cut = FALSE /\ (c.short = TRUE \/ c.nb = c.req.length)
  /\ host.stage # "data" /\ host.cut = FALSE => Has("TXCOMP") /\ c.nb = c.req.payload

AwaitsOut ==
  /\ host.req.ok = TRUE /\ host.req.dir = "IN" /\ c.state = "WAIT_OUT_ZLP"
  /\ c.req.callback = FALSE
  /\ host.stage \in {"status", "done"} \/ (host.stage = "data" /\ host.req.payload = 0)
  /\ csr \intersect {"TXPKTRDY", "TXCOMP", "FORCESTALL"} = {}
  /\ Has("RX_BK0") <=> host.stage = "done"
  /\ host.cut = FALSE => host.moved = host.req.payload

(* Does the class take all that the host sends, or nothing?                *)
Whole == host.req.payload = host.req.length

TakesData ==
  /\ host.req.ok = TRUE /\ host.req.dir = "OUT" /\ c.state = "DATA_OUT" /\ c.req = host.req
  /\ c.prev = 0 /\ host.req.length > 0 /\ host.moved <= host.req.length
  /\ csr \intersect {"TXPKTRDY", "TXCOMP", "FORCESTALL"} = {}
  /\ host.stage = IF host.moved = host.req.length THEN "status" ELSE "data"
  /\ Has("RX_BK0") /\ host.moved # host.req.length => fifo.rx = PktSize
  /\ IF Whole THEN host.moved = IF Has("RX_BK0") THEN c.nb + fifo.rx ELSE c.nb
     ELSE c.nb = 0

HandsShake ==
  /\ host.req.ok = TRUE /\ host.req.dir = "OUT" /\ c.state = "WAIT_IN_ZLP"
  /\ c.req.callback = host.req.callback /\ host.moved <= host.req.length
  /\ ~Has("FORCESTALL") /\ (Has("TXPKTRDY") <=> ~Has("TXCOMP"))
  /\ IF Has("TXCOMP") THEN host.stage = "done" /\ c.shaken = TRUE
     ELSE host.stage \in {"data", "status"}
  /\ host.req.length > 0 => c.nb = host.req.payload
  /\ Whole => host.stage # "data" /\ ~Has("RX_BK0")

IsOverIn ==
  /\ host.req.ok = TRUE /\ host.req.dir = "IN" /\ c.state = "SETUP"
  /\ host.stage = "done" /\ csr \intersect {"TXCOMP", "RX_BK0", "FORCESTALL"} = {}
  /\ host.cut = FALSE => host.moved = host.req.payload

(* Where the class took nothing, the driver is done with the request       *)
(* before the host is, and stalls it.                                      *)
IsOverOut ==
  /\ host.req.ok = TRUE /\ host.req.dir = "OUT" /\ c.state = "SETUP"
  /\ ~Has("TXCOMP")
  /\ host.req.length > 0 => c.nb = host.req.payload
  /\ IF Whole THEN host.stage = "done" /\ csr \intersect {"RX_BK0", "FORCESTALL"} = {}
     ELSE host.stage \in {"done", "stalled"} \/ Has("FORCESTALL")

Phase ==
  \/ Refused \/ SendsData \/ AwaitsOut \/ TakesData \/ HandsShake \/ IsOverIn \/ IsOverOut

(* A callback is called when the driver is done with its request.          *)
CallsCounted ==
  c.calls = IF host.req.callback /\ c.state = "SETUP" THEN 1 ELSE 0

InPhase == ~Has("RXSETUP") /\ host.stage \notin {"idle", "reset"} =>
  /\ Phase /\ CallsCounted
  /\ c.req.dir = host.req.dir /\ c.req.length = host.req.length

CtlInv ==
  /\ Ctl!TypeOK /\ host.req \in Ctl!Requests /\ c.early = FALSE
  /\ AwaitsService /\ Rested /\ InPhase

-----------------------------------------------------------------------------
LEMMA RequestFacts ==
  ASSUME NEW r \in Ctl!Requests
  PROVE  /\ r \in ReqType
         /\ r.ok = FALSE => r.payload = 0 /\ r.callback = FALSE
         /\ r.ok = TRUE /\ r.dir = "IN" =>
              r.length > 0 /\ r.callback = FALSE /\ r.payload <= r.length
         /\ r.ok = TRUE /\ r.dir = "OUT" =>
              r.payload \in {0, r.length} /\ (r.callback = TRUE => r.payload = r.length)
<1>1. r \in ReqType /\ Ctl!Answered(r) BY DEF Ctl!Requests, ReqType
<1>2. r.ok \in BOOLEAN /\ r.callback \in BOOLEAN /\ r.dir \in {"IN", "OUT"}
  BY <1>1 DEF ReqType
<1>3. CASE r.ok = FALSE BY <1>1, <1>2, <1>3 DEF Ctl!Answered
<1>4. CASE r.ok = TRUE BY <1>1, <1>2, <1>4 DEF Ctl!Answered
<1> QED BY <1>2, <1>3, <1>4

HostType ==
  [req : ReqType, stage : {"idle", "data", "status", "done", "stalled", "reset"},
   moved : 0 .. MaxLength, cut : BOOLEAN]

LEMMA NowTyped ==
  ASSUME Ctl!TypeOK
  PROVE  /\ Ctl!Now \in CtlDevice /\ Ctl!Now.c = c /\ Ctl!Now.csr = csr /\ Ctl!Now.fifo = fifo
         /\ c \in Fields /\ host \in HostType
         /\ c.nb \in 0 .. MaxLength /\ c.prev \in 0 .. 2 * MaxLength /\ c.calls \in 0 .. 1
         /\ fifo.rx \in 0 .. PktSize /\ fifo.tx \in 0 .. PktSize
<1>1. c \in Fields /\ csr \in SUBSET Ctl!Flags /\ fifo \in [rx : Nat, tx : Nat]
  BY ControlAssumption DEF Ctl!TypeOK, Fields, ReqType
<1>2. Ctl!Now \in CtlDevice /\ Ctl!Now.c = c /\ Ctl!Now.csr = csr /\ Ctl!Now.fifo = fifo
  BY <1>1 DEF Ctl!Now, CtlDevice
<1>3. host \in HostType BY DEF Ctl!TypeOK, HostType, ReqType
<1> QED BY <1>1, <1>2, <1>3 DEF Ctl!TypeOK

(* The bounds of what the driver counts make it a state of the model.      *)
LEMMA BecomesTyped ==
  ASSUME Ctl!TypeOK, NEW y \in CtlDevice, Ctl!Becomes(y),
         y.c.nb <= MaxLength, y.c.prev <= 2 * MaxLength, y.c.calls <= 1,
         y.fifo.rx <= PktSize, y.fifo.tx <= PktSize
  PROVE  Ctl!TypeOK'
<1>1. y.c \in Fields /\ y.csr \in SUBSET Ctl!Flags /\ y.fifo \in [rx : Nat, tx : Nat]
  BY CtlDeviceTyped
<1>2. y.c.nb \in 0 .. MaxLength /\ y.c.prev \in 0 .. 2 * MaxLength /\ y.c.calls \in 0 .. 1
      /\ y.fifo.rx \in 0 .. PktSize /\ y.fifo.tx \in 0 .. PktSize
  BY <1>1, ControlAssumption DEF Fields
<1>3. y.fifo \in [rx : 0 .. PktSize, tx : 0 .. PktSize] BY <1>1, <1>2
<1>4. y.c \in [state : Ctl!States, req : ReqType, nb : 0 .. MaxLength,
               prev : 0 .. 2 * MaxLength, short : BOOLEAN,
               shaken : BOOLEAN, calls : 0 .. 1, early : BOOLEAN]
  BY <1>1, <1>2 DEF Fields
<1> QED BY <1>1, <1>3, <1>4 DEF Ctl!TypeOK, Ctl!Becomes, ReqType

(* What the invariant says of the properties that the run checks.          *)
LEMMA CtlInvSuffices ==
  ASSUME CtlInv
  PROVE  /\ Ctl!DataComplete /\ Ctl!PhaseEndsTogether /\ Ctl!StallsOnlyItsRequest
         /\ Ctl!CallbackOnceAfterHandshake /\ Ctl!SentInDataPhase
<1>1. /\ host \in HostType /\ c \in Fields BY NowTyped DEF CtlInv
<1>2. /\ host.req \in ReqType
      /\ host.req.ok = FALSE => host.req.payload = 0 /\ host.req.callback = FALSE
      /\ host.req.ok = TRUE /\ host.req.dir = "IN" =>
           /\ host.req.length > 0 /\ host.req.callback = FALSE
           /\ host.req.payload <= host.req.length
      /\ host.req.ok = TRUE /\ host.req.dir = "OUT" =>
           /\ host.req.payload \in {0, host.req.length}
           /\ host.req.callback = TRUE => host.req.payload = host.req.length
  BY RequestFacts DEF CtlInv
<1>3. /\ host.req.ok \in BOOLEAN /\ host.req.callback \in BOOLEAN /\ host.cut \in BOOLEAN
      /\ host.req.length \in Nat /\ host.req.payload \in Nat /\ host.moved \in Nat
      /\ host.req.dir \in {"IN", "OUT"} /\ host.req.payload \in 0 .. MaxLength
      /\ host.stage \in {"idle", "data", "status", "done", "stalled", "reset"}
      /\ c.nb \in Nat /\ fifo.tx \in Nat /\ c.short \in BOOLEAN /\ c.early = FALSE
  <2>1. fifo.tx \in 0 .. PktSize BY NowTyped DEF CtlInv
  <2> QED BY <1>1, <1>2, <2>1, ControlAssumption DEF HostType, ReqType, Fields, CtlInv
<1>4. CASE Has("RXSETUP")
  <2>1. /\ csr \subseteq {"RXSETUP", "STALLSENT"} /\ host.moved = 0 /\ host.cut = FALSE
        /\ host.stage = IF host.req.length = 0 THEN "status" ELSE "data"
    BY <1>3, <1>4 DEF CtlInv, AwaitsService
  <2>2. Ctl!HostGetsAll BY <2>1 DEF Ctl!HostGetsAll
  <2> QED BY <1>3, <1>4, <2>1, <2>2
        DEF Has, Ctl!DataComplete, Ctl!HandshakeMeansStored, Ctl!PhaseEndsTogether,
            Ctl!StallsOnlyItsRequest,
            Ctl!CallbackOnceAfterHandshake, Ctl!HandshakeIsAnswered, Ctl!SentInDataPhase
<1>5. CASE host.stage \in {"idle", "reset"}
  <2>1. csr = {} BY <1>5 DEF CtlInv, Rested
  <2>2. /\ Ctl!HostGetsAll /\ Ctl!HandshakeMeansStored /\ Ctl!HandshakeIsAnswered
        /\ Ctl!SentInDataPhase
        /\ Ctl!StallsOnlyItsRequest
    BY <1>5, <2>1
       DEF Ctl!HostGetsAll, Ctl!HandshakeMeansStored, Ctl!HandshakeIsAnswered, Ctl!SentInDataPhase,
           Ctl!StallsOnlyItsRequest
  <2>3. Ctl!PhaseEndsTogether BY <1>5, <1>3 DEF Ctl!PhaseEndsTogether, CtlInv, Rested
  <2> QED BY <1>3, <2>2, <2>3 DEF Ctl!DataComplete, Ctl!CallbackOnceAfterHandshake
<1>6. CASE ~Has("RXSETUP") /\ host.stage \notin {"idle", "reset"}
  <2>1. Phase /\ CallsCounted BY <1>6 DEF CtlInv, InPhase
  <2> USE DEF Has
  <2>2. Ctl!HostGetsAll
    BY <1>2, <1>3, <2>1
       DEF Ctl!HostGetsAll, Phase, Refused, SendsData, AwaitsOut, TakesData, HandsShake,
           IsOverIn, IsOverOut
  <2>3. Ctl!HandshakeMeansStored
    BY <1>2, <1>3, <2>1
       DEF Ctl!HandshakeMeansStored, Phase, Refused, SendsData, AwaitsOut, TakesData, HandsShake,
           IsOverIn, IsOverOut, Whole
  <2>4. Ctl!PhaseEndsTogether
    BY <1>2, <1>3, <2>1
       DEF Ctl!PhaseEndsTogether, Ctl!Unanswered, Phase, Refused, SendsData, AwaitsOut, TakesData, HandsShake,
           IsOverIn, IsOverOut
  <2>5. Ctl!StallsOnlyItsRequest
    BY <1>2, <1>3, <2>1
       DEF Ctl!StallsOnlyItsRequest, Phase, Refused, SendsData, AwaitsOut, TakesData, HandsShake,
           IsOverIn, IsOverOut, Whole
  <2>6. Ctl!SentInDataPhase
    BY <1>2, <1>3, <2>1
       DEF Ctl!SentInDataPhase, Phase, Refused, SendsData, AwaitsOut, TakesData, HandsShake,
           IsOverIn, IsOverOut
  <2>7. Ctl!HandshakeIsAnswered
    BY <1>2, <1>3, <2>1
       DEF Ctl!HandshakeIsAnswered, CallsCounted, Phase, Refused, SendsData, AwaitsOut, TakesData,
           HandsShake, IsOverIn, IsOverOut
  <2> QED BY <1>3, <2>2, <2>3, <2>4, <2>5, <2>6, <2>7
     DEF Ctl!DataComplete, Ctl!CallbackOnceAfterHandshake
<1> QED BY <1>4, <1>5, <1>6

LEMMA CtlInitInv == Ctl!Init => CtlInv
<1> SUFFICES ASSUME Ctl!Init PROVE CtlInv
  OBVIOUS
<1>1. Ctl!NoRequest \in ReqType /\ Ctl!NoRequest \in Ctl!Requests
  BY ControlAssumption DEF Ctl!NoRequest, Ctl!Requests, Ctl!Answered, ReqType
<1>2. Ctl!TypeOK
  <2>1. host \in HostType BY <1>1, ControlAssumption DEF Ctl!Init, HostType
  <2> HIDE DEF Ctl!NoRequest
  <2>2. c \in [state : Ctl!States, req : ReqType, nb : 0 .. MaxLength,
               prev : 0 .. 2 * MaxLength, short : BOOLEAN,
               shaken : BOOLEAN, calls : 0 .. 1, early : BOOLEAN]
    BY <1>1, ControlAssumption DEF Ctl!Init, Ctl!States
  <2>3. csr \subseteq Ctl!Flags /\ fifo \in [rx : 0 .. PktSize, tx : 0 .. PktSize]
    BY ControlAssumption DEF Ctl!Init
  <2> QED BY <2>1, <2>2, <2>3 DEF Ctl!TypeOK, HostType, ReqType
<1>3. /\ host.req \in Ctl!Requests /\ c.early = FALSE /\ csr = {} /\ host.stage = "idle"
      /\ c.state = "SETUP"
  BY <1>1 DEF Ctl!Init
<1> QED BY <1>2, <1>3 DEF CtlInv, AwaitsService, Rested, InPhase, Has

-----------------------------------------------------------------------------
(* What a step may use of the state before it.                             *)
LEMMA StateFacts ==
  ASSUME CtlInv
  PROVE  /\ host \in HostType /\ c \in Fields /\ host.req \in ReqType /\ c.req \in ReqType
         /\ host.req.ok \in BOOLEAN /\ host.req.callback \in BOOLEAN /\ host.cut \in BOOLEAN
         /\ host.req.dir \in {"IN", "OUT"}
         /\ host.req.length \in 0 .. MaxLength /\ host.req.payload \in 0 .. MaxLength
         /\ host.moved \in 0 .. MaxLength
         /\ host.stage \in {"idle", "data", "status", "done", "stalled", "reset"}
         /\ c.state \in Ctl!States /\ c.short \in BOOLEAN /\ c.shaken \in BOOLEAN
         /\ c.nb \in 0 .. MaxLength /\ c.prev \in 0 .. 2 * MaxLength /\ c.calls \in 0 .. 1
         /\ fifo.rx \in 0 .. PktSize /\ fifo.tx \in 0 .. PktSize
         /\ host.req.ok = FALSE => host.req.payload = 0 /\ host.req.callback = FALSE
         /\ host.req.ok = TRUE /\ host.req.dir = "IN" =>
              /\ host.req.length > 0 /\ host.req.callback = FALSE
              /\ host.req.payload <= host.req.length
         /\ host.req.ok = TRUE /\ host.req.dir = "OUT" =>
              /\ host.req.payload \in {0, host.req.length}
              /\ host.req.callback = TRUE => host.req.payload = host.req.length
<1>1. /\ host \in HostType /\ c \in Fields /\ c.nb \in 0 .. MaxLength
      /\ c.prev \in 0 .. 2 * MaxLength /\ c.calls \in 0 .. 1
      /\ fifo.rx \in 0 .. PktSize /\ fifo.tx \in 0 .. PktSize
  BY NowTyped DEF CtlInv
<1>2. /\ host.req \in ReqType /\ host.cut \in BOOLEAN /\ host.moved \in 0 .. MaxLength
      /\ host.stage \in {"idle", "data", "status", "done", "stalled", "reset"}
  BY <1>1 DEF HostType
<1>3. /\ c.req \in ReqType /\ c.state \in Ctl!States /\ c.short \in BOOLEAN /\ c.shaken \in BOOLEAN
  BY <1>1 DEF Fields
<1>4. /\ host.req.ok \in BOOLEAN /\ host.req.callback \in BOOLEAN
      /\ host.req.dir \in {"IN", "OUT"}
      /\ host.req.length \in 0 .. MaxLength /\ host.req.payload \in 0 .. MaxLength
  BY <1>2 DEF ReqType
<1>5. /\ host.req.ok = FALSE => host.req.payload = 0 /\ host.req.callback = FALSE
      /\ host.req.ok = TRUE /\ host.req.dir = "IN" =>
           /\ host.req.length > 0 /\ host.req.callback = FALSE
           /\ host.req.payload <= host.req.length
      /\ host.req.ok = TRUE /\ host.req.dir = "OUT" =>
           /\ host.req.payload \in {0, host.req.length}
           /\ host.req.callback = TRUE => host.req.payload = host.req.length
  BY RequestFacts DEF CtlInv
<1> QED BY <1>1, <1>2, <1>3, <1>4, <1>5

(* A step of the driver that serves an event of a request it has taken     *)
(* over.                                                                   *)
LEMMA ServedInv ==
  ASSUME CtlInv, NEW y \in CtlDevice, Ctl!Becomes(y), ~Has("RXSETUP"), "RXSETUP" \notin y.csr,
         y.c.early = FALSE, SameReq(Ctl!Now, y),
         host.stage \notin {"idle", "reset"}, Phase', CallsCounted',
         y.c.nb <= MaxLength, y.c.prev <= 2 * MaxLength, y.c.calls <= 1,
         y.fifo.rx <= PktSize, y.fifo.tx <= PktSize
  PROVE  CtlInv'
<1>1. Ctl!TypeOK' BY BecomesTyped DEF CtlInv
<1>2. host' = host /\ c' = y.c /\ csr' = y.csr BY DEF Ctl!Becomes
<1>3. /\ host'.req \in Ctl!Requests /\ c'.early = FALSE /\ host'.stage \notin {"idle", "reset"}
  BY <1>2 DEF CtlInv
<1>4. c'.req.dir = host'.req.dir /\ c'.req.length = host'.req.length
  BY <1>2, NowTyped DEF CtlInv, InPhase, SameReq
<1> QED BY <1>1, <1>2, <1>3, <1>4 DEF CtlInv, AwaitsService, Rested, InPhase, Has

LEMMA IsrInSentInv ==
  ASSUME CtlInv, Ctl!IsrInSent
  PROVE  CtlInv'
<1> DEFINE x == Ctl!Now
           y == Ctl!InSent(x)
<1>1. /\ x \in CtlDevice /\ x.c = c /\ x.csr = csr /\ x.fifo = fifo
  BY NowTyped DEF CtlInv
<1>2. /\ "RXSETUP" \notin csr /\ "TXCOMP" \in csr /\ Ctl!Becomes(y)
      /\ c' = y.c /\ csr' = y.csr /\ fifo' = y.fifo /\ host' = host
  BY DEF Ctl!IsrInSent, Ctl!Becomes
<1>3. Phase /\ CallsCounted /\ host.stage \notin {"idle", "reset"}
  BY <1>2 DEF CtlInv, Rested, InPhase, Has
<1>4. SendsData \/ HandsShake
  BY <1>2, <1>3
     DEF Phase, Refused, AwaitsOut, TakesData, IsOverIn, IsOverOut, Has
<1> HIDE DEF x
<1>5. CASE HandsShake
  <2> DEFINE a == Ctl!Ack(x, "TXCOMP")
             e == Ctl!EndOfRequest(a)
  <2>0. "TXCOMP" \in Ctl!Flags BY DEF Ctl!Flags
  <2>1. a \in CtlDevice /\ a.c = c /\ a.fifo = fifo /\ a.csr = csr \ {"TXCOMP"}
    BY <1>1, <2>0, AckEffect
  <2>2. y = Ctl!CtrlInit(e)
    BY <1>1, <1>5 DEF Ctl!InSent, HandsShake
  <2> HIDE DEF a
  <2>3. /\ e \in CtlDevice /\ SameCount(a, e)
        /\ e.csr = a.csr /\ e.fifo = a.fifo /\ e.c.state = a.c.state /\ e.c.req = a.c.req
        /\ e.c.calls = IF a.c.req.callback THEN a.c.calls + 1 ELSE a.c.calls
        /\ a.c.shaken => e.c.early = a.c.early
    BY <2>1, EndOfRequestEffect
  <2> HIDE DEF e
  <2>4. /\ y \in CtlDevice /\ SameHistory(e, y) /\ SameReq(e, y) /\ SameCount(e, y)
        /\ y.csr = e.csr /\ y.fifo = e.fifo /\ y.c.state = "SETUP"
    BY <2>2, <2>3, CtrlInitEffect
  <2> HIDE DEF y
  <2>5. /\ c.shaken = TRUE /\ host.stage = "done" /\ c.req.callback = host.req.callback
        /\ host.req.ok = TRUE /\ host.req.dir = "OUT" /\ c.calls = 0
        /\ host.req.length > 0 => c.nb = host.req.payload
        /\ "FORCESTALL" \notin csr
        /\ Whole => "RX_BK0" \notin csr
    BY <1>2, <1>3, <1>5 DEF HandsShake, Has, CallsCounted
  <2>6. /\ y.c.early = FALSE /\ y.c.calls = IF host.req.callback THEN 1 ELSE 0
        /\ y.c.nb = c.nb /\ y.c.prev = c.prev /\ SameReq(x, y)
        /\ y.csr = csr \ {"TXCOMP"} /\ y.fifo = fifo
    BY <1>1, <2>1, <2>3, <2>4, <2>5 DEF SameHistory, SameCount, SameReq, CtlInv
  <2>7. IsOverOut' /\ CallsCounted'
    BY <1>2, <2>4, <2>5, <2>6 DEF IsOverOut, CallsCounted, Has, Whole
  <2>8. y.c.nb <= MaxLength /\ y.c.prev <= 2 * MaxLength /\ y.c.calls <= 1
        /\ y.fifo.rx <= PktSize /\ y.fifo.tx <= PktSize
    BY <2>6, StateFacts, ControlAssumption
  <2>9. Phase' BY <2>7 DEF Phase
  <2> QED BY <1>2, <1>3, <2>4, <2>6, <2>7, <2>8, <2>9, ServedInv DEF x, Has
<1>6. CASE SendsData
  <2>1. /\ c.state = "DATA_IN" /\ c.req = host.req /\ host.req.ok = TRUE /\ host.req.dir = "IN"
        /\ host.stage \in {"data", "status", "done"}
        /\ "FORCESTALL" \notin csr /\ "TXPKTRDY" \notin csr
        /\ "RX_BK0" \in csr <=> host.stage = "done"
        /\ c.nb <= c.req.payload
        /\ c.short = TRUE => c.nb = c.req.payload
        /\ c.prev # 0 => c.prev = c.req.payload /\ c.short = TRUE
        /\ host.moved = c.nb
        /\ host.stage = "data" => host.cut = FALSE
        /\ host.stage = "data" => c.short = FALSE /\ c.nb < c.req.length
        /\ host.stage = "status" =>
             host.cut = FALSE /\ (c.short = TRUE \/ c.nb = c.req.length)
        /\ host.stage # "data" /\ host.cut = FALSE => c.nb = c.req.payload
    BY <1>2, <1>6 DEF SendsData, Has
  <2>2. /\ host.req.length > 0 /\ host.req.callback = FALSE
        /\ host.req.payload <= host.req.length
        /\ host.req.length \in Nat /\ host.req.payload \in Nat /\ c.nb \in Nat /\ c.prev \in Nat
        /\ c.short \in BOOLEAN /\ MaxLength \in Nat /\ PktSize \in Nat /\ PktSize > 0
        /\ host.req.payload <= MaxLength /\ fifo.rx \in Nat /\ fifo.rx <= PktSize
        /\ fifo.tx <= PktSize /\ c.calls = 0 /\ host.cut \in BOOLEAN /\ c.early = FALSE
    <3>1. /\ host.req.length \in 0 .. MaxLength /\ host.req.payload \in 0 .. MaxLength
          /\ c.nb \in 0 .. MaxLength /\ c.prev \in 0 .. 2 * MaxLength
          /\ fifo.rx \in 0 .. PktSize /\ fifo.tx \in 0 .. PktSize
          /\ host.req.ok = TRUE /\ host.req.dir = "IN" =>
               /\ host.req.length > 0 /\ host.req.callback = FALSE
               /\ host.req.payload <= host.req.length
          /\ c.short \in BOOLEAN /\ host.cut \in BOOLEAN
      BY StateFacts
    <3>2. c.calls = 0 BY <1>3, <2>1, <3>1 DEF CallsCounted
    <3>3. c.early = FALSE BY DEF CtlInv
    <3> QED BY <2>1, <3>1, <3>2, <3>3, ControlAssumption
  (* The phase is over, for the host too. *)
  <2> DEFINE Ends ==
        /\ y.c.state = "WAIT_OUT_ZLP" /\ y.csr = csr \ {"TXCOMP"} /\ y.c.nb = c.nb
        /\ host.stage \in {"status", "done"} /\ y.fifo.tx = fifo.tx
        /\ host.cut = FALSE => c.nb = c.req.payload
      GoesOn ==
        /\ y.c.state = "DATA_IN" /\ y.csr = (csr \union {"TXPKTRDY"}) \ {"TXCOMP"}
        /\ y.c.nb = c.nb + y.fifo.tx /\ y.c.nb <= c.req.payload
        /\ (y.c.short <=> y.fifo.tx < PktSize) /\ y.fifo.tx <= PktSize
        /\ y.c.short => y.c.nb = c.req.payload
        /\ y.c.prev # 0 => y.c.prev = c.req.payload /\ y.c.short
        /\ host.stage = "data" /\ "RX_BK0" \notin csr
      Kept ==
        /\ y \in CtlDevice /\ SameHistory(x, y) /\ y.c.req = c.req /\ y.fifo.rx = fifo.rx
        /\ y.c.prev <= 2 * MaxLength
  <2>3. Kept /\ (Ends \/ GoesOn)
    <3>1. CASE c.req.payload = c.nb
      <4>1. y = Ctl!DataSent(x) BY <1>1, <2>1, <3>1 DEF Ctl!InSent
      <4> HIDE DEF y
      <4>2. /\ y \in CtlDevice /\ SameHistory(x, y)
            /\ y.c.req = c.req /\ y.c.prev = c.prev + c.nb /\ y.fifo.rx = fifo.rx
            /\ \/ /\ y.c.state = "WAIT_OUT_ZLP" /\ y.csr = csr \ {"TXCOMP"}
                  /\ y.c.nb = c.nb /\ y.fifo.tx = fifo.tx
                  /\ "RX_BK0" \in csr \/ c.short \/ c.req.length = c.prev + c.nb
               \/ /\ "RX_BK0" \notin csr
                  /\ y.c.state = c.state /\ y.csr = (csr \union {"TXPKTRDY"}) \ {"TXCOMP"}
                  /\ y.c.short <=> y.fifo.tx < PktSize
                  /\ y.c.nb = c.nb + y.fifo.tx /\ y.c.nb <= c.req.payload
                  /\ y.fifo.tx <= PktSize
                  /\ y.c.short => y.c.nb = c.req.payload
                  /\ ~c.short /\ c.req.length # c.prev + c.nb
        BY <1>1, <2>1, <4>1, DataSentEffect
      <4>3. y.fifo.tx \in Nat BY <4>2 DEF CtlDevice
      <4>4. Kept BY <2>1, <2>2, <3>1, <4>2
      <4>5. CASE /\ y.c.state = "WAIT_OUT_ZLP" /\ y.csr = csr \ {"TXCOMP"} /\ y.c.nb = c.nb
                 /\ y.fifo.tx = fifo.tx
                 /\ "RX_BK0" \in csr \/ c.short \/ c.req.length = c.prev + c.nb
        BY <2>1, <2>2, <3>1, <4>4, <4>5
      <4>6. CASE /\ "RX_BK0" \notin csr
                 /\ y.c.state = c.state /\ y.csr = (csr \union {"TXPKTRDY"}) \ {"TXCOMP"}
                 /\ y.c.short <=> y.fifo.tx < PktSize
                 /\ y.c.nb = c.nb + y.fifo.tx /\ y.c.nb <= c.req.payload
                 /\ y.fifo.tx <= PktSize
                 /\ y.c.short => y.c.nb = c.req.payload
                 /\ ~c.short /\ c.req.length # c.prev + c.nb
        <5>1. c.prev = 0 /\ c.short = FALSE BY <2>1, <2>2, <4>6
        <5>2. y.fifo.tx = 0 BY <2>1, <2>2, <3>1, <4>3, <4>6
        <5>3. y.c.short BY <2>2, <4>6, <5>2
        <5>4. y.c.prev = c.req.payload BY <2>1, <2>2, <3>1, <4>2, <5>1
        <5>5. host.stage = "data" BY <2>1, <2>2, <4>6, <5>1
        <5> QED BY <2>1, <4>4, <4>6, <5>3, <5>4, <5>5
      <4> QED BY <4>2, <4>5, <4>6
    <3>2. CASE c.req.payload # c.nb
      <4>1. y = Ctl!Fill(x) BY <1>1, <2>1, <3>2 DEF Ctl!InSent
      <4> HIDE DEF y
      <4>2. /\ y \in CtlDevice /\ SameHistory(x, y)
            /\ y.c.req = c.req /\ y.c.prev = c.prev /\ y.fifo.rx = fifo.rx
            /\ "RX_BK0" \in csr =>
                 /\ y.c.state = "WAIT_OUT_ZLP" /\ y.csr = csr \ {"TXCOMP"} /\ y.c.nb = c.nb
                 /\ y.fifo.tx = fifo.tx
            /\ "RX_BK0" \notin csr =>
                 /\ y.c.state = c.state /\ y.csr = (csr \union {"TXPKTRDY"}) \ {"TXCOMP"}
                 /\ y.c.short <=> y.fifo.tx < PktSize
                 /\ y.c.nb = c.nb + y.fifo.tx /\ y.c.nb <= c.req.payload
                 /\ y.fifo.tx <= PktSize
                 /\ y.c.short => y.c.nb = c.req.payload
        BY <1>1, <2>1, <4>1, FillEffect
      <4>3. c.prev = 0 /\ c.short = FALSE BY <2>1, <2>2, <3>2
      <4>4. Kept BY <2>2, <4>2, <4>3
      <4>5. CASE "RX_BK0" \in csr BY <2>1, <2>2, <3>2, <4>2, <4>4, <4>5
      <4>6. CASE "RX_BK0" \notin csr
        <5>1. host.stage = "data" BY <2>1, <2>2, <3>2, <4>3, <4>6
        <5> QED BY <2>1, <4>2, <4>3, <4>4, <4>6, <5>1
      <4> QED BY <4>5, <4>6
    <3> QED BY <3>1, <3>2
  <2> HIDE DEF y
  <2>4. y.fifo.tx \in Nat /\ y.c.short \in BOOLEAN BY <2>3 DEF CtlDevice, Fields
  <2>5. Phase'
    <3>1. CASE Ends
      <4>1. AwaitsOut' BY <1>2, <2>1, <2>2, <2>3, <3>1 DEF AwaitsOut, Has
      <4> QED BY <4>1 DEF Phase
    <3>2. CASE GoesOn
      <4>1. SendsData' BY <1>2, <2>1, <2>2, <2>3, <2>4, <3>2 DEF SendsData, Has
      <4> QED BY <4>1 DEF Phase
    <3> QED BY <2>3, <3>1, <3>2
  <2>6. y.c.calls = 0 /\ y.c.early = FALSE /\ SameReq(x, y)
    BY <1>1, <2>2, <2>3 DEF SameHistory, SameReq
  <2>7. CallsCounted' BY <1>2, <2>2, <2>6 DEF CallsCounted
  <2>8. y.c.nb <= MaxLength /\ y.fifo.tx <= PktSize /\ "RXSETUP" \notin y.csr
        /\ y.c.prev <= 2 * MaxLength /\ y.fifo.rx <= PktSize /\ y.c.calls <= 1
    <3>1. y.c.prev <= 2 * MaxLength /\ y.fifo.rx <= PktSize /\ y.c.calls <= 1
      BY <2>2, <2>3, <2>6
    <3>2. CASE Ends BY <1>2, <2>1, <2>2, <3>1, <3>2
    <3>3. CASE GoesOn
      <4>1. y.c.nb \in Nat BY <2>3 DEF CtlDevice, Fields
      <4>2. y.c.nb <= c.req.payload /\ c.req.payload <= MaxLength BY <2>1, <2>2, <3>3
      <4>3. y.c.nb <= MaxLength BY <2>1, <2>2, <4>1, <4>2
      <4> QED BY <1>2, <3>1, <3>3, <4>3
    <3> QED BY <2>3, <3>2, <3>3
  <2> QED BY <1>2, <1>3, <2>3, <2>5, <2>6, <2>7, <2>8, ServedInv DEF x, Has
<1> QED BY <1>4, <1>5, <1>6

(* A packet of OUT data: into the room that is left.                       *)
LEMMA OutReceivedEffect ==
  ASSUME NEW x \in CtlDevice, x.c.state = "DATA_OUT", x.c.nb <= x.c.req.payload,
         NEW n \in Nat, n = IF x.fifo.rx > x.c.req.payload - x.c.nb
                            THEN x.c.req.payload - x.c.nb ELSE x.fifo.rx
  PROVE  LET y == Ctl!OutReceived(x)
         IN /\ y \in CtlDevice /\ SameHistory(x, y) /\ SameReq(x, y)
            /\ y.c.req.callback = x.c.req.callback
            /\ y.c.nb = x.c.nb + n /\ y.c.prev = x.c.prev
            /\ y.fifo.rx = x.fifo.rx
            /\ n # PktSize \/ x.c.req.length <= x.c.prev + y.c.nb =>
                 /\ y.c.state = "WAIT_IN_ZLP" /\ y.fifo.tx = 0
                 /\ y.csr = (x.csr \ {"RX_BK0"}) \union {"TXPKTRDY"}
            /\ ~(n # PktSize \/ x.c.req.length <= x.c.prev + y.c.nb)
                 /\ x.c.req.payload # y.c.nb =>
                 /\ y.c.state = "DATA_OUT" /\ y.fifo.tx = x.fifo.tx /\ y.c.req = x.c.req
                 /\ y.csr = x.csr \ {"RX_BK0"}
            /\ ~(n # PktSize \/ x.c.req.length <= x.c.prev + y.c.nb)
                 /\ x.c.req.payload = y.c.nb =>
                 /\ y.c.state = "STALL_REQ" /\ y.fifo.tx = x.fifo.tx /\ y.c.req = x.c.req
                 /\ y.csr = (x.csr \ {"RX_BK0"}) \union {"FORCESTALL"}
<1> DEFINE m == x.c.nb + n
           k == [x.c EXCEPT !.nb = m]
           w == [x EXCEPT !.c = k]
           a == Ctl!Ack(w, "RX_BK0")
           q == [k.req EXCEPT !.payload = m]
           l == [k EXCEPT !.req = q]
           v == [w EXCEPT !.c = l]
           b == Ctl!Ack(v, "RX_BK0")
           y == Ctl!OutReceived(x)
<1>1. x.c \in Fields BY CtlDeviceTyped
<1>2. /\ x.c.nb \in Nat /\ x.c.req \in ReqType /\ x.c.req.payload \in 0 .. MaxLength
      /\ x.fifo.rx \in Nat
  <2>1. x.c.nb \in Nat /\ x.c.req \in ReqType BY <1>1 DEF Fields
  <2>2. x.fifo.rx \in Nat BY DEF CtlDevice
  <2> QED BY <2>1, <2>2 DEF ReqType
<1>3. m \in 0 .. MaxLength /\ m \in Nat BY <1>2, ControlAssumption
<1>4. w = [x EXCEPT !.c.nb = @ + n] BY DEF CtlDevice
<1>5. v = [w EXCEPT !.c.req.payload = w.c.nb]
  <2>1. w.c = k /\ k.nb = m BY <1>1 DEF CtlDevice, Fields
  <2> QED BY <2>1
<1>6. y = IF n # PktSize \/ w.c.req.length <= w.c.prev + w.c.nb THEN Ctl!SendZlpIn(b)
          ELSE IF w.c.req.payload = w.c.nb THEN Ctl!Ack(Ctl!StallData(w), "RX_BK0") ELSE a
  <2>1. w.c.prev = x.c.prev /\ w.c.req = x.c.req
    BY <1>1 DEF CtlDevice, Fields
  <2> HIDE DEF w, v, k, q, l, m
  <2>2. (IF x.fifo.rx > x.c.req.payload - x.c.nb THEN x.c.req.payload - x.c.nb ELSE x.fifo.rx) = n
    OBVIOUS
  <2> QED BY <1>4, <1>5, <2>1, <2>2 DEF Ctl!OutReceived
<1> HIDE DEF m
<1>7. /\ k \in Fields /\ k.state = x.c.state /\ k.req = x.c.req /\ k.nb = m
      /\ k.prev = x.c.prev /\ k.short = x.c.short /\ k.shaken = x.c.shaken
      /\ k.calls = x.c.calls /\ k.early = x.c.early
  BY <1>1, <1>3 DEF Fields
<1> HIDE DEF k
<1>8. w \in CtlDevice /\ w.c = k /\ w.csr = x.csr /\ w.fifo = x.fifo
  BY <1>7, WithFields
<1>9. /\ q \in ReqType /\ q.dir = k.req.dir /\ q.length = k.req.length /\ q.ok = k.req.ok
      /\ q.callback = k.req.callback
  BY <1>2, <1>3, <1>7 DEF ReqType
<1> HIDE DEF q, w
<1>10. /\ l \in Fields /\ l.state = k.state /\ l.req = q /\ l.nb = k.nb
       /\ l.prev = k.prev /\ l.short = k.short /\ l.shaken = k.shaken
       /\ l.calls = k.calls /\ l.early = k.early
  BY <1>7, <1>9 DEF Fields
<1> HIDE DEF l
<1>11. v \in CtlDevice /\ v.c = l /\ v.csr = w.csr /\ v.fifo = w.fifo
  BY <1>8, <1>10, WithFields
<1> HIDE DEF v
<1>12. "RX_BK0" \in Ctl!Flags BY DEF Ctl!Flags
<1>13. a \in CtlDevice /\ a.c = w.c /\ a.fifo = w.fifo /\ a.csr = w.csr \ {"RX_BK0"}
  BY <1>8, <1>12, AckEffect
<1>14. b \in CtlDevice /\ b.c = v.c /\ b.fifo = v.fifo /\ b.csr = v.csr \ {"RX_BK0"}
  BY <1>11, <1>12, AckEffect
<1> HIDE DEF a, b, y
<1>15. CASE n # PktSize \/ w.c.req.length <= w.c.prev + w.c.nb
  <2>1. /\ y \in CtlDevice /\ SameHistory(b, y) /\ SameCount(b, y) /\ y.c.req = b.c.req
        /\ y.c.state = "WAIT_IN_ZLP" /\ y.csr = b.csr \union {"TXPKTRDY"}
        /\ y.fifo.rx = b.fifo.rx /\ y.fifo.tx = 0
    BY <1>6, <1>14, <1>15, GoOnEffect
  <2> QED BY <1>7, <1>8, <1>9, <1>10, <1>11, <1>14, <1>15, <2>1
          DEF SameHistory, SameCount, SameReq, y, m
<1>16. CASE ~(n # PktSize \/ w.c.req.length <= w.c.prev + w.c.nb) /\ w.c.req.payload # w.c.nb
  <2>1. y = a BY <1>6, <1>16
  <2> QED BY <1>7, <1>8, <1>13, <1>16, <2>1 DEF SameHistory, SameReq, y, m
<1>17. CASE ~(n # PktSize \/ w.c.req.length <= w.c.prev + w.c.nb) /\ w.c.req.payload = w.c.nb
  <2> DEFINE u == Ctl!StallData(w)
  <2>1. /\ u \in CtlDevice /\ SameHistory(w, u) /\ SameCount(w, u) /\ u.c.req = w.c.req
        /\ u.c.state = "STALL_REQ" /\ u.csr = w.csr \union {"FORCESTALL"} /\ u.fifo = w.fifo
    BY <1>8, GoOnEffect
  <2>2. y = Ctl!Ack(u, "RX_BK0") BY <1>6, <1>17
  <2> HIDE DEF u
  <2>3. y \in CtlDevice /\ y.c = u.c /\ y.fifo = u.fifo /\ y.csr = u.csr \ {"RX_BK0"}
    BY <1>12, <2>1, <2>2, AckEffect
  <2> QED BY <1>7, <1>8, <1>17, <2>1, <2>3 DEF SameHistory, SameReq, SameCount, y, m
<1> QED BY <1>15, <1>16, <1>17

LEMMA IsrOutReceivedInv ==
  ASSUME CtlInv, Ctl!IsrOutReceived
  PROVE  CtlInv'
<1> DEFINE x == Ctl!Now
           y == Ctl!OutReceived(x)
<1>1. /\ x \in CtlDevice /\ x.c = c /\ x.csr = csr /\ x.fifo = fifo
  BY NowTyped DEF CtlInv
<1>2. /\ "RXSETUP" \notin csr /\ "TXCOMP" \notin csr /\ "RX_BK0" \in csr /\ Ctl!Becomes(y)
      /\ c' = y.c /\ csr' = y.csr /\ fifo' = y.fifo /\ host' = host
  BY DEF Ctl!IsrOutReceived, Ctl!Becomes
<1>3. Phase /\ CallsCounted /\ host.stage \notin {"idle", "reset"}
  BY <1>2 DEF CtlInv, Rested, InPhase, Has
<1>4. TakesData \/ (c.state # "DATA_OUT" /\ (SendsData \/ AwaitsOut \/ HandsShake \/ IsOverOut))
  BY <1>2, <1>3
     DEF Phase, Refused, SendsData, AwaitsOut, HandsShake, IsOverIn, IsOverOut, Has
<1>5. /\ host.req.length \in 0 .. MaxLength /\ host.req.payload \in 0 .. MaxLength
      /\ host.moved \in 0 .. MaxLength
      /\ c.nb \in 0 .. MaxLength /\ c.prev \in 0 .. 2 * MaxLength /\ c.calls \in 0 .. 1
      /\ fifo.rx \in 0 .. PktSize /\ fifo.tx \in 0 .. PktSize
      /\ host.req.callback \in BOOLEAN /\ host.cut \in BOOLEAN
  BY StateFacts
<1>6. /\ host.req.ok = TRUE /\ host.req.dir = "IN" => host.req.callback = FALSE
      /\ host.req.ok = TRUE /\ host.req.dir = "OUT" =>
           /\ host.req.payload \in {0, host.req.length}
           /\ host.req.callback = TRUE => host.req.payload = host.req.length
  BY StateFacts
<1> HIDE DEF x
<1>7. CASE TakesData
  <2> DEFINE room == c.req.payload - c.nb
             n == IF fifo.rx > room THEN room ELSE fifo.rx
  <2>1. /\ c.req = host.req /\ c.state = "DATA_OUT" /\ c.prev = 0
        /\ host.req.ok = TRUE /\ host.req.dir = "OUT"
        /\ host.req.length > 0 /\ host.moved <= host.req.length
        /\ "FORCESTALL" \notin csr /\ "TXPKTRDY" \notin csr
        /\ host.stage = IF host.moved = host.req.length THEN "status" ELSE "data"
        /\ host.moved # host.req.length => fifo.rx = PktSize
        /\ Whole => host.moved = c.nb + fifo.rx
        /\ ~Whole => c.nb = 0
    BY <1>2, <1>7 DEF TakesData, Has
  <2>2. /\ n \in Nat /\ c.nb <= c.req.payload /\ c.nb + n <= MaxLength
        /\ Whole => n = fifo.rx
        /\ ~Whole => n = 0 /\ host.req.payload = 0
    <3>1. CASE Whole
      <4>1. c.req.payload = host.req.length /\ host.moved = c.nb + fifo.rx
        BY <2>1, <3>1 DEF Whole
      <4> QED BY <1>5, <2>1, <3>1, <4>1, ControlAssumption
    <3>2. CASE ~Whole
      <4>1. c.req.payload = 0 /\ c.nb = 0 /\ host.req.payload = 0
        BY <1>6, <2>1, <3>2 DEF Whole
      <4> QED BY <1>5, <3>2, <4>1, ControlAssumption
    <3> QED BY <3>1, <3>2
  <2> HIDE DEF n
  <2>3. /\ y \in CtlDevice /\ SameHistory(x, y) /\ SameReq(x, y)
        /\ y.c.req.callback = c.req.callback
        /\ y.c.nb = c.nb + n /\ y.c.prev = c.prev
        /\ y.fifo.rx = fifo.rx
        /\ n # PktSize \/ c.req.length <= c.prev + y.c.nb =>
             /\ y.c.state = "WAIT_IN_ZLP" /\ y.fifo.tx = 0
             /\ y.csr = (csr \ {"RX_BK0"}) \union {"TXPKTRDY"}
        /\ ~(n # PktSize \/ c.req.length <= c.prev + y.c.nb) /\ c.req.payload # y.c.nb =>
             /\ y.c.state = "DATA_OUT" /\ y.fifo.tx = fifo.tx /\ y.c.req = c.req
             /\ y.csr = csr \ {"RX_BK0"}
    BY <1>1, <2>1, <2>2, OutReceivedEffect DEF n
  <2> HIDE DEF y
  <2>4. y.c.calls = 0 /\ y.c.early = FALSE
    BY <1>1, <1>3, <2>1, <2>3 DEF SameHistory, CallsCounted, CtlInv
  <2>5. /\ CallsCounted' /\ Phase' /\ "RXSETUP" \notin y.csr /\ y.fifo.tx <= PktSize
    <3>1. CASE n # PktSize \/ c.req.length <= c.prev + y.c.nb
      <4>1. y.c.nb = host.req.payload /\ (Whole => host.stage = "status")
        <5>1. CASE Whole
          <6>1. host.req.payload = host.req.length /\ host.moved = y.c.nb
            BY <2>1, <2>2, <2>3, <5>1 DEF Whole
          <6>2. host.moved = host.req.length
            BY <1>5, <2>1, <2>2, <2>3, <3>1, <5>1, <6>1
          <6> QED BY <2>1, <6>1, <6>2
        <5>2. CASE ~Whole BY <2>1, <2>2, <2>3, <5>2
        <5> QED BY <5>1, <5>2
      <4>2. host.stage \in {"data", "status"} BY <2>1
      <4>3. HandsShake'
        BY <1>2, <2>1, <2>3, <3>1, <4>1, <4>2 DEF HandsShake, Has, Whole
      <4>4. CallsCounted' BY <1>2, <2>3, <2>4, <3>1 DEF CallsCounted
      <4> QED BY <1>2, <2>3, <3>1, <4>3, <4>4, ControlAssumption DEF Phase
    <3>2. CASE ~(n # PktSize \/ c.req.length <= c.prev + y.c.nb)
      <4>1. Whole BY <2>2, <3>2, ControlAssumption
      <4>2. c.req.payload = c.req.length /\ y.c.nb = host.moved /\ c.req = host.req
        BY <2>1, <2>2, <2>3, <4>1 DEF Whole
      <4>3. c.req.payload # y.c.nb
        BY <1>5, <2>1, <2>3, <3>2, <4>2
      <4>4. /\ y.c.state = "DATA_OUT" /\ y.fifo.tx = fifo.tx /\ y.c.req = c.req
            /\ y.csr = csr \ {"RX_BK0"}
        BY <2>3, <3>2, <4>3
      <4>5. TakesData'
        BY <1>2, <2>1, <2>3, <4>1, <4>2, <4>4 DEF TakesData, Has, Whole
      <4>6. CallsCounted' BY <1>2, <2>4, <4>4 DEF CallsCounted
      <4> QED BY <1>2, <1>5, <4>4, <4>5, <4>6 DEF Phase
    <3> QED BY <3>1, <3>2
  <2>6. y.c.nb <= MaxLength /\ y.c.prev <= 2 * MaxLength /\ y.c.calls <= 1 /\ y.fifo.rx <= PktSize
    BY <1>5, <2>1, <2>2, <2>3, <2>4, ControlAssumption
  <2> QED BY <1>2, <1>3, <2>3, <2>4, <2>5, <2>6, ServedInv DEF x, Has
<1>8. CASE c.state # "DATA_OUT" /\ (SendsData \/ AwaitsOut \/ HandsShake \/ IsOverOut)
  <2>1. y = Ctl!OutOfPhase(x) BY <1>1, <1>8 DEF Ctl!OutReceived
  <2> HIDE DEF y
  <2> DEFINE ends == c.state \in {"DATA_IN", "WAIT_OUT_ZLP"}
  <2>2. /\ y \in CtlDevice /\ SameReq(x, y) /\ SameCount(x, y) /\ y.fifo = fifo
        /\ y.c.state = "SETUP" /\ ~y.c.req.callback
        /\ y.c.shaken = c.shaken
        /\ ~ends \/ ~c.req.callback => SameHistory(x, y)
        /\ y.csr = (IF ends THEN csr ELSE csr \union {"FORCESTALL"}) \ {"RX_BK0"}
    BY <1>1, <2>1, OutOfPhaseEffect
  <2>3. host.req.ok = TRUE /\ (ends => host.req.dir = "IN") /\ (~ends => host.req.dir = "OUT")
    BY <1>8 DEF SendsData, AwaitsOut, HandsShake, IsOverOut
  <2>4. ends => c.req.callback = FALSE
    BY <1>6, <1>8, <2>3 DEF SendsData, AwaitsOut, HandsShake, IsOverOut
  <2>5. SameHistory(x, y) BY <2>2, <2>4
  <2>6. /\ y.c.calls = c.calls /\ y.c.early = FALSE /\ y.c.nb = c.nb /\ y.c.prev = c.prev
    BY <1>1, <2>2, <2>5 DEF SameHistory, SameCount, CtlInv
  <2>9. y.c.nb <= MaxLength /\ y.c.prev <= 2 * MaxLength /\ y.c.calls <= 1
        /\ y.fifo.rx <= PktSize /\ y.fifo.tx <= PktSize
    BY <1>5, <2>2, <2>6, ControlAssumption
  <2>7. CASE ends
    <3>1. IsOverIn'
      BY <1>2, <1>8, <2>2, <2>3, <2>7 DEF SendsData, AwaitsOut, HandsShake, IsOverOut, IsOverIn, Has
    <3>2. CallsCounted'
      BY <1>2, <1>3, <1>6, <2>2, <2>3, <2>6, <2>7 DEF CallsCounted
    <3>3. "RXSETUP" \notin y.csr BY <1>2, <2>2, <2>7
    <3>4. Phase' BY <3>1 DEF Phase
    <3> QED BY <1>2, <1>3, <2>2, <2>6, <2>9, <3>2, <3>3, <3>4, ServedInv DEF x, Has
  <2>8. CASE ~ends
    <3>1. ~Whole
      BY <1>2, <1>8, <2>8 DEF SendsData, AwaitsOut, HandsShake, IsOverOut, Has
    <3>2. host.req.callback = FALSE BY <1>5, <1>6, <2>3, <2>8, <3>1 DEF Whole
    <3>3. host.req.length > 0 => c.nb = host.req.payload
      BY <1>8, <2>8 DEF SendsData, AwaitsOut, HandsShake, IsOverOut
    <3>4. IsOverOut'
      BY <1>2, <2>2, <2>3, <2>6, <2>8, <3>1, <3>3 DEF IsOverOut, Has, Whole
    <3>5. CallsCounted'
      BY <1>2, <1>3, <2>2, <2>6, <3>2 DEF CallsCounted
    <3>6. "RXSETUP" \notin y.csr BY <1>2, <2>2, <2>8
    <3>7. Phase' BY <3>4 DEF Phase
    <3> QED BY <1>2, <1>3, <2>2, <2>6, <2>9, <3>5, <3>6, <3>7, ServedInv DEF x, Has
  <2> QED BY <2>7, <2>8
<1> QED BY <1>4, <1>7, <1>8

(* Taking over a request, whatever the driver did before.                  *)
LEMMA LoadEffect ==
  ASSUME NEW x \in CtlDevice, host.req \in ReqType
  PROVE  LET y == Ctl!Load(x)
         IN /\ y \in CtlDevice /\ SameCount(x, y) /\ y.csr = x.csr /\ y.fifo = x.fifo
            /\ y.c.req = host.req /\ y.c.calls = 0 /\ y.c.early = x.c.early
<1> DEFINE k == [x.c EXCEPT !.req = host.req, !.shaken = FALSE, !.calls = 0]
           y == Ctl!Load(x)
<1>1. y = [x EXCEPT !.c = k] BY DEF Ctl!Load, CtlDevice
<1>2. x.c \in Fields BY CtlDeviceTyped
<1>3. /\ k \in Fields /\ k.req = host.req /\ k.nb = x.c.nb /\ k.prev = x.c.prev
      /\ k.short = x.c.short /\ k.calls = 0 /\ k.early = x.c.early
  BY <1>2 DEF Fields
<1> HIDE DEF k
<1>4. y \in CtlDevice /\ y.c = k /\ y.csr = x.csr /\ y.fifo = x.fifo
  BY <1>1, <1>3, WithFields
<1> QED BY <1>3, <1>4 DEF SameCount

LEMMA DataPhaseEffect ==
  ASSUME NEW x \in CtlDevice, NEW s \in Ctl!States
  PROVE  LET y == Ctl!DataPhase(x, s)
         IN /\ y \in CtlDevice /\ SameHistory(x, y) /\ y.c.req = x.c.req
            /\ y.csr = x.csr /\ y.fifo = x.fifo
            /\ y.c.nb = 0 /\ y.c.prev = 0 /\ y.c.state = s
<1> DEFINE k == [x.c EXCEPT !.nb = 0, !.prev = 0, !.state = s]
           y == Ctl!DataPhase(x, s)
<1>1. y = [x EXCEPT !.c = k] BY DEF Ctl!DataPhase, CtlDevice
<1>2. x.c \in Fields BY CtlDeviceTyped
<1>3. /\ k \in Fields /\ k.req = x.c.req /\ k.nb = 0 /\ k.prev = 0 /\ k.state = s
      /\ k.shaken = x.c.shaken /\ k.calls = x.c.calls /\ k.early = x.c.early
  BY <1>2 DEF Fields
<1> HIDE DEF k
<1>4. y \in CtlDevice /\ y.c = k /\ y.csr = x.csr /\ y.fifo = x.fifo
  BY <1>1, <1>3, WithFields
<1> QED BY <1>3, <1>4 DEF SameHistory

LEMMA IsrSetupInv ==
  ASSUME CtlInv, Ctl!IsrSetup
  PROVE  CtlInv'
<1> DEFINE x == Ctl!Now
           e == Ctl!EndOfRequest(x)
           b == IF x.c.state = "SETUP" THEN x ELSE Ctl!CtrlInit(e)
           l == Ctl!Load(b)
           z == Ctl!Ack(l, "RXSETUP")
           y == Ctl!SetupReceived(x)
<1>1. /\ x \in CtlDevice /\ x.c = c /\ x.csr = csr /\ x.fifo = fifo
  BY NowTyped DEF CtlInv
<1>2. /\ Ctl!Becomes(y) /\ c' = y.c /\ csr' = y.csr /\ fifo' = y.fifo /\ host' = host
  BY DEF Ctl!IsrSetup, Ctl!Becomes
<1>3. /\ "RXSETUP" \in csr /\ csr \subseteq {"RXSETUP", "STALLSENT"}
      /\ host.moved = 0 /\ host.cut = FALSE
      /\ host.stage = IF host.req.length = 0 THEN "status" ELSE "data"
  BY StateFacts DEF Ctl!IsrSetup, CtlInv, AwaitsService, Has
<1>4. /\ host.req \in ReqType /\ host.req.ok \in BOOLEAN /\ host.req.dir \in {"IN", "OUT"}
      /\ host.req.length \in 0 .. MaxLength /\ host.req.payload \in 0 .. MaxLength
      /\ c.nb \in 0 .. MaxLength /\ c.prev \in 0 .. 2 * MaxLength
      /\ fifo.rx \in 0 .. PktSize /\ fifo.tx \in 0 .. PktSize
      /\ host.req.callback \in BOOLEAN /\ c.early = FALSE
  BY StateFacts DEF CtlInv
<1>5. /\ host.req.ok = TRUE /\ host.req.dir = "IN" =>
           /\ host.req.length > 0 /\ host.req.callback = FALSE
           /\ host.req.payload <= host.req.length
      /\ host.req.ok = TRUE /\ host.req.dir = "OUT" =>
           /\ host.req.payload \in {0, host.req.length}
           /\ host.req.callback = TRUE => host.req.payload = host.req.length
      /\ host.req.ok = FALSE => host.req.callback = FALSE
  BY StateFacts
<1>6. y = IF ~ l.c.req.ok THEN Ctl!StallData(z)
          ELSE IF l.c.req.dir = "IN" THEN Ctl!InSent(Ctl!DataPhase(z, "DATA_IN"))
          ELSE IF l.c.req.length = 0 THEN Ctl!SendZlpIn(z)
          ELSE Ctl!DataPhase(z, "DATA_OUT")
  <2>1. l.c.req = host.req
    <3>1. b \in CtlDevice
      BY <1>1, EndOfRequestEffect, CtrlInitEffect
    <3> HIDE DEF b
    <3> QED BY <1>4, <3>1, LoadEffect
  <2>2. l.c.req.ok \in BOOLEAN /\ l.c.req.dir \in {"IN", "OUT"} BY <1>4, <2>1
  <2> HIDE DEF l, z
  <2>3. y = CASE ~ l.c.req.ok -> Ctl!StallData(z)
            [] l.c.req.ok /\ l.c.req.dir = "IN" -> Ctl!InSent(Ctl!DataPhase(z, "DATA_IN"))
            [] l.c.req.ok /\ l.c.req.dir = "OUT" /\ l.c.req.length = 0 -> Ctl!SendZlpIn(z)
            [] OTHER -> Ctl!DataPhase(z, "DATA_OUT")
    BY DEF Ctl!SetupReceived, l, z, b, e
  <2> HIDE DEF y
  <2>4. CASE l.c.req.ok = FALSE BY <2>2, <2>3, <2>4
  <2>5. CASE l.c.req.ok = TRUE
    <3>1. CASE l.c.req.dir = "IN" BY <2>2, <2>3, <2>5, <3>1
    <3>2. CASE l.c.req.dir = "OUT" BY <2>2, <2>3, <2>5, <3>2
    <3> QED BY <2>2, <3>1, <3>2
  <2> QED BY <2>2, <2>4, <2>5
<1>7. /\ b \in CtlDevice /\ SameCount(x, b) /\ b.csr = csr /\ b.fifo = fifo /\ b.c.early = FALSE
  <2>1. /\ e \in CtlDevice /\ SameCount(x, e) /\ e.csr = x.csr /\ e.fifo = x.fifo
        /\ e.c.early = x.c.early
    BY <1>1, <1>3, EndOfRequestEffect
  <2> HIDE DEF e
  <2>2. LET r == Ctl!CtrlInit(e)
        IN /\ r \in CtlDevice /\ SameHistory(e, r) /\ SameCount(e, r)
           /\ r.csr = e.csr /\ r.fifo = e.fifo
    BY <2>1, CtrlInitEffect
  <2>3. CASE x.c.state = "SETUP" BY <1>1, <1>4, <2>3 DEF SameCount
  <2>4. CASE x.c.state # "SETUP"
    <3>1. b = Ctl!CtrlInit(e) BY <2>4
    <3> HIDE DEF b
    <3> QED BY <1>1, <1>4, <2>1, <2>2, <3>1 DEF SameCount, SameHistory
  <2> QED BY <2>3, <2>4
<1> HIDE DEF b, x
<1>8. /\ l \in CtlDevice /\ SameCount(b, l) /\ l.csr = b.csr /\ l.fifo = b.fifo
      /\ l.c.req = host.req /\ l.c.calls = 0 /\ l.c.early = b.c.early
  BY <1>4, <1>7, LoadEffect
<1> HIDE DEF l
<1>9. "RXSETUP" \in Ctl!Flags BY DEF Ctl!Flags
<1>10. z \in CtlDevice /\ z.c = l.c /\ z.fifo = l.fifo /\ z.csr = l.csr \ {"RXSETUP"}
  BY <1>8, <1>9, AckEffect
<1> HIDE DEF z
<1>11. /\ z.csr \subseteq {"STALLSENT"} /\ z.fifo = fifo /\ z.c.req = host.req
       /\ z.c.calls = 0 /\ z.c.early = FALSE /\ z.c.nb = c.nb /\ z.c.prev = c.prev
  BY <1>1, <1>3, <1>7, <1>8, <1>10 DEF SameCount
<1> HIDE DEF y
<1>12. /\ y \in CtlDevice /\ y.c.req = host.req /\ y.c.calls = 0 /\ y.c.early = FALSE
       /\ "RXSETUP" \notin y.csr /\ y.c.nb <= MaxLength /\ y.c.prev <= 2 * MaxLength
       /\ y.fifo.rx <= PktSize /\ y.fifo.tx <= PktSize
       /\ y.c.state # "SETUP" /\ Phase'
  <2>1. CASE host.req.ok = FALSE
    <3>1. y = Ctl!StallData(z) BY <1>6, <1>8, <2>1
    <3>2. /\ y \in CtlDevice /\ SameHistory(z, y) /\ SameCount(z, y) /\ y.c.req = z.c.req
          /\ y.c.state = "STALL_REQ" /\ y.csr = z.csr \union {"FORCESTALL"}
          /\ y.fifo = z.fifo
      BY <1>10, <3>1, GoOnEffect
    <3>3. Refused' BY <1>2, <1>3, <1>11, <2>1, <3>2 DEF Refused, Has
    <3>4. /\ y.c.calls = 0 /\ y.c.early = FALSE /\ y.c.nb = c.nb /\ y.c.prev = c.prev
          /\ y.fifo = fifo
      BY <1>11, <3>2 DEF SameHistory, SameCount
    <3>5. "RXSETUP" \notin y.csr BY <1>11, <3>2
    <3> QED BY <1>4, <1>11, <3>2, <3>3, <3>4, <3>5, ControlAssumption DEF Phase
  <2>2. CASE host.req.ok = TRUE /\ host.req.dir = "IN"
    <3> DEFINE w == Ctl!DataPhase(z, "DATA_IN")
    <3>1. y = Ctl!InSent(w) BY <1>6, <1>8, <2>2
    <3>2. /\ w \in CtlDevice /\ SameHistory(z, w) /\ w.c.req = z.c.req
          /\ w.csr = z.csr /\ w.fifo = z.fifo
          /\ w.c.nb = 0 /\ w.c.prev = 0 /\ w.c.state = "DATA_IN"
      BY <1>10, DataPhaseEffect DEF Ctl!States
    <3> HIDE DEF w
    <3>3. host.req.length > 0 /\ host.req.callback = FALSE
          /\ host.req.payload <= host.req.length /\ host.stage = "data"
      BY <1>3, <1>4, <1>5, <2>2
    <3>4. /\ w.c.nb = 0 /\ w.c.prev = 0 /\ w.c.req = host.req /\ w.fifo = fifo
          /\ w.csr \subseteq {"STALLSENT"} /\ w.c.calls = 0 /\ w.c.early = FALSE
          /\ 0 <= w.c.req.payload
      BY <1>4, <1>11, <3>2 DEF SameHistory
    (* Either a packet is on its way, which is empty when there is nothing to
       answer with, or that answer is taken to be over at once. *)
    <3> DEFINE Kept == /\ y \in CtlDevice /\ SameHistory(w, y) /\ y.c.req = host.req
                       /\ y.c.prev = 0 /\ y.fifo.rx = fifo.rx
               Over == /\ y.c.state = "WAIT_OUT_ZLP" /\ y.csr \subseteq {"STALLSENT"}
                       /\ y.c.nb = 0 /\ y.fifo.tx = fifo.tx /\ host.req.payload = 0
               Goes == /\ y.c.state = "DATA_IN" /\ y.csr = (w.csr \union {"TXPKTRDY"}) \ {"TXCOMP"}
                       /\ (y.c.short <=> y.fifo.tx < PktSize)
                       /\ y.c.nb = y.fifo.tx /\ y.c.nb <= host.req.payload
                       /\ y.fifo.tx <= PktSize
                       /\ y.c.short => y.c.nb = host.req.payload
    <3>5. Kept /\ (Over \/ Goes)
      <4>1. CASE host.req.payload = 0
        <5>1. y = Ctl!DataSent(w) BY <3>1, <3>2, <3>4, <4>1 DEF Ctl!InSent
        <5>2. /\ y \in CtlDevice /\ SameHistory(w, y)
              /\ y.c.req = w.c.req /\ y.c.prev = w.c.prev + w.c.nb /\ y.fifo.rx = w.fifo.rx
              /\ \/ /\ y.c.state = "WAIT_OUT_ZLP" /\ y.csr = w.csr \ {"TXCOMP"}
                    /\ y.c.nb = w.c.nb /\ y.fifo.tx = w.fifo.tx
                 \/ /\ y.c.state = w.c.state /\ y.csr = (w.csr \union {"TXPKTRDY"}) \ {"TXCOMP"}
                    /\ y.c.short <=> y.fifo.tx < PktSize
                    /\ y.c.nb = w.c.nb + y.fifo.tx /\ y.c.nb <= w.c.req.payload
                    /\ y.fifo.tx <= PktSize
                    /\ y.c.short => y.c.nb = w.c.req.payload
          BY <3>2, <3>4, <5>1, DataSentEffect
        <5>3. Kept BY <3>4, <5>2
        <5>4. y.fifo.tx \in Nat BY <5>2 DEF CtlDevice
        <5>5. CASE /\ y.c.state = "WAIT_OUT_ZLP" /\ y.csr = w.csr \ {"TXCOMP"}
                   /\ y.c.nb = w.c.nb /\ y.fifo.tx = w.fifo.tx
          <6>1. Over BY <3>4, <4>1, <5>5
          <6> QED BY <5>3, <6>1
        <5>6. CASE /\ y.c.state = w.c.state /\ y.csr = (w.csr \union {"TXPKTRDY"}) \ {"TXCOMP"}
                   /\ y.c.short <=> y.fifo.tx < PktSize
                   /\ y.c.nb = w.c.nb + y.fifo.tx /\ y.c.nb <= w.c.req.payload
                   /\ y.fifo.tx <= PktSize
                   /\ y.c.short => y.c.nb = w.c.req.payload
          <6>1. Goes BY <3>2, <3>4, <5>4, <5>6
          <6> QED BY <5>3, <6>1
        <5> QED BY <5>2, <5>5, <5>6
      <4>2. CASE host.req.payload # 0
        <5>1. y = Ctl!Fill(w) BY <3>1, <3>2, <3>4, <4>2 DEF Ctl!InSent
        <5>2. w.c.nb <= w.c.req.payload /\ "RX_BK0" \notin w.csr BY <3>4
        <5>3. /\ y \in CtlDevice /\ SameHistory(w, y)
              /\ y.c.req = w.c.req /\ y.c.prev = w.c.prev /\ y.fifo.rx = w.fifo.rx
              /\ y.c.state = w.c.state /\ y.csr = (w.csr \union {"TXPKTRDY"}) \ {"TXCOMP"}
              /\ (y.c.short <=> y.fifo.tx < PktSize)
              /\ y.c.nb = w.c.nb + y.fifo.tx /\ y.c.nb <= w.c.req.payload
              /\ y.fifo.tx <= PktSize
              /\ y.c.short => y.c.nb = w.c.req.payload
          BY <3>2, <5>1, <5>2, FillEffect
        <5>4. y.fifo.tx \in Nat BY <5>3 DEF CtlDevice
        <5>5. Kept BY <3>4, <5>3
        <5>6. Goes BY <3>2, <3>4, <5>3, <5>4
        <5> QED BY <5>5, <5>6
      <4> QED BY <4>1, <4>2
    <3>6. y.fifo.tx \in Nat /\ y.c.nb \in Nat /\ y.c.short \in BOOLEAN
      BY <3>5 DEF CtlDevice, Fields
    <3>7. y.c.calls = 0 /\ y.c.early = FALSE BY <3>4, <3>5 DEF SameHistory
    <3>8. CASE Over
      <4>1. AwaitsOut' BY <1>2, <1>3, <2>2, <3>3, <3>5, <3>8 DEF AwaitsOut, Has
      <4> QED BY <1>4, <3>5, <3>7, <3>8, <4>1, ControlAssumption DEF Phase
    <3>9. CASE Goes
      <4>1. /\ y.csr \subseteq {"TXPKTRDY", "STALLSENT"} /\ "TXPKTRDY" \in y.csr
            /\ y.c.nb <= MaxLength
        BY <1>4, <3>4, <3>6, <3>9, ControlAssumption
      <4>2. SendsData'
        BY <1>2, <1>3, <1>4, <2>2, <3>3, <3>5, <3>6, <3>9, <4>1 DEF SendsData, Has
      <4> QED BY <1>4, <3>5, <3>7, <3>9, <4>1, <4>2, ControlAssumption DEF Phase
    <3> QED BY <3>5, <3>8, <3>9
  <2>3. CASE host.req.ok = TRUE /\ host.req.dir = "OUT" /\ host.req.length = 0
    <3>1. y = Ctl!SendZlpIn(z) BY <1>6, <1>8, <2>3
    <3>2. /\ y \in CtlDevice /\ SameHistory(z, y) /\ SameCount(z, y) /\ y.c.req = z.c.req
          /\ y.c.state = "WAIT_IN_ZLP" /\ y.csr = z.csr \union {"TXPKTRDY"}
          /\ y.fifo.rx = z.fifo.rx /\ y.fifo.tx = 0
      BY <1>10, <3>1, GoOnEffect
    <3>3. host.stage = "status" BY <1>3, <2>3
    <3>4. y.csr \subseteq {"TXPKTRDY", "STALLSENT"} /\ "TXPKTRDY" \in y.csr BY <1>11, <3>2
    <3>5. HandsShake' BY <1>2, <1>3, <1>4, <1>11, <2>3, <3>2, <3>3, <3>4 DEF HandsShake, Has
    <3>6. /\ y.c.calls = 0 /\ y.c.early = FALSE /\ y.c.nb = c.nb /\ y.c.prev = c.prev
          /\ y.fifo.rx = fifo.rx
      BY <1>11, <3>2 DEF SameHistory, SameCount
    <3> QED BY <1>4, <1>11, <3>2, <3>4, <3>5, <3>6, ControlAssumption DEF Phase
  <2>4. CASE host.req.ok = TRUE /\ host.req.dir = "OUT" /\ host.req.length # 0
    <3>1. y = Ctl!DataPhase(z, "DATA_OUT") BY <1>6, <1>8, <2>4
    <3>2. /\ y \in CtlDevice /\ SameHistory(z, y) /\ y.c.req = z.c.req
          /\ y.csr = z.csr /\ y.fifo = z.fifo
          /\ y.c.nb = 0 /\ y.c.prev = 0 /\ y.c.state = "DATA_OUT"
      BY <1>10, <3>1, DataPhaseEffect DEF Ctl!States
    <3>3. host.stage = "data" /\ host.req.length > 0 BY <1>3, <1>4, <2>4, ControlAssumption
    <3>4. y.csr \subseteq {"STALLSENT"} /\ y.fifo = fifo /\ y.c.req = host.req
      BY <1>11, <3>2
    <3>5. TakesData' BY <1>2, <1>3, <1>4, <2>4, <3>2, <3>3, <3>4 DEF TakesData, Has, Whole
    <3>6. y.c.calls = 0 /\ y.c.early = FALSE BY <1>11, <3>2 DEF SameHistory
    <3> QED BY <1>4, <3>2, <3>4, <3>5, <3>6, ControlAssumption DEF Phase
  <2> QED BY <1>4, <2>1, <2>2, <2>3, <2>4
<1>13. CallsCounted' BY <1>2, <1>12 DEF CallsCounted
<1>14. Ctl!TypeOK' BY <1>2, <1>12, BecomesTyped DEF CtlInv
<1> QED BY <1>2, <1>12, <1>13, <1>14, <1>3
        DEF CtlInv, AwaitsService, Rested, InPhase, Has

(* The other events, and what ends a phase of the driver by force.         *)
LEMMA IsrRestInv ==
  ASSUME CtlInv, Ctl!IsrStall \/ Ctl!IsrReset \/ Ctl!BusReset
  PROVE  CtlInv'
<1>1. CASE Ctl!IsrStall
  <2> DEFINE y == Ctl!Ack(Ctl!Now, "STALLSENT")
  <2>1. /\ Ctl!Becomes(y) /\ "RXSETUP" \notin csr /\ "STALLSENT" \in csr BY <1>1 DEF Ctl!IsrStall
  <2>2. /\ Ctl!Now \in CtlDevice /\ Ctl!Now.c = c /\ Ctl!Now.csr = csr /\ Ctl!Now.fifo = fifo
    BY NowTyped DEF CtlInv
  <2>3. "STALLSENT" \in Ctl!Flags BY DEF Ctl!Flags
  <2>4. /\ y \in CtlDevice /\ y.c = c /\ y.fifo = fifo /\ y.csr = csr \ {"STALLSENT"}
    BY <2>2, <2>3, AckEffect
  <2> HIDE DEF y
  <2>5. c' = c /\ host' = host /\ csr' = csr \ {"STALLSENT"} /\ fifo' = fifo
    BY <2>1, <2>4 DEF Ctl!Becomes
  <2>6. /\ c.nb \in 0 .. MaxLength /\ c.prev \in 0 .. 2 * MaxLength /\ c.calls \in 0 .. 1
        /\ fifo.rx \in 0 .. PktSize /\ fifo.tx \in 0 .. PktSize
    BY StateFacts
  <2>7. Phase /\ CallsCounted /\ host.stage \notin {"idle", "reset"} /\ c.early = FALSE
    BY <2>1 DEF CtlInv, Rested, InPhase, Has
  <2>8. Phase'
    BY <2>5, <2>7
       DEF Phase, Refused, SendsData, AwaitsOut, TakesData, HandsShake, IsOverIn, IsOverOut,
           Has, Whole
  <2>9. CallsCounted' BY <2>5, <2>7 DEF CallsCounted
  <2>10. /\ y.c.nb <= MaxLength /\ y.c.prev <= 2 * MaxLength /\ y.c.calls <= 1
         /\ y.fifo.rx <= PktSize /\ y.fifo.tx <= PktSize
    BY <2>4, <2>6, ControlAssumption
  <2>11. /\ ~Has("RXSETUP") /\ "RXSETUP" \notin y.csr /\ y.c.early = FALSE
         /\ SameReq(Ctl!Now, y)
    BY <2>1, <2>2, <2>4, <2>7 DEF Has, SameReq
  <2> QED BY <2>1, <2>4, <2>7, <2>8, <2>9, <2>10, <2>11, ServedInv
<1>2. CASE Ctl!IsrReset
  <2> DEFINE y == Ctl!CtrlInit(Ctl!Now)
  <2>1. /\ c' = y.c /\ csr' = csr /\ fifo' = fifo /\ host' = [host EXCEPT !.stage = "idle"]
        /\ host.stage = "reset"
    BY <1>2 DEF Ctl!IsrReset
  <2>2. csr = {} BY <2>1 DEF CtlInv, Rested
  <2>3. /\ Ctl!Now \in CtlDevice /\ Ctl!Now.c = c
    BY NowTyped DEF CtlInv
  <2>4. /\ y \in CtlDevice /\ SameHistory(Ctl!Now, y) /\ SameReq(Ctl!Now, y)
        /\ SameCount(Ctl!Now, y)
        /\ y.c.state = "SETUP"
    BY <2>3, CtrlInitEffect
  <2> HIDE DEF y
  <2>5. /\ y.c \in Fields /\ y.c.nb = c.nb /\ y.c.prev = c.prev /\ y.c.calls = c.calls
        /\ y.c.early = FALSE
    BY <2>3, <2>4, CtlDeviceTyped DEF SameHistory, SameCount, CtlInv
  <2>6. c.nb \in 0 .. MaxLength /\ c.prev \in 0 .. 2 * MaxLength /\ c.calls \in 0 .. 1
    BY StateFacts
  <2>7. c' \in [state : Ctl!States, req : ReqType, nb : 0 .. MaxLength,
                prev : 0 .. 2 * MaxLength, short : BOOLEAN,
                shaken : BOOLEAN, calls : 0 .. 1, early : BOOLEAN]
    BY <2>1, <2>5, <2>6 DEF Fields
  <2>8. host' \in HostType /\ host'.req = host.req /\ host'.stage = "idle"
    BY <2>1, StateFacts DEF HostType
  <2>9. Ctl!TypeOK' BY <2>1, <2>7, <2>8 DEF Ctl!TypeOK, HostType, ReqType, CtlInv
  <2> QED BY <2>1, <2>2, <2>4, <2>5, <2>8, <2>9 DEF CtlInv, AwaitsService, Rested, InPhase, Has
<1>3. CASE Ctl!BusReset
  <2>1. /\ c' = c /\ csr' = {} /\ fifo' = fifo /\ host' = [host EXCEPT !.stage = "reset"]
    BY <1>3 DEF Ctl!BusReset
  <2>2. host' \in HostType /\ host'.req = host.req /\ host'.stage = "reset"
    BY <2>1, StateFacts DEF HostType
  <2>3. Ctl!TypeOK' BY <2>1, <2>2 DEF Ctl!TypeOK, HostType, ReqType, CtlInv
  <2> QED BY <2>1, <2>2, <2>3 DEF CtlInv, AwaitsService, Rested, InPhase, Has
<1> QED BY <1>1, <1>2, <1>3

-----------------------------------------------------------------------------
(* The host: a new request, or one more step of the one it is carrying out.*)
LEMMA HostSetupInv ==
  ASSUME CtlInv, NEW r \in Ctl!Requests, Ctl!HostSetup(r)
  PROVE  CtlInv'
<1>1. /\ c' = c /\ fifo' = fifo
      /\ host' = [req |-> r, moved |-> 0, cut |-> FALSE,
                  stage |-> IF r.length = 0 THEN "status" ELSE "data"]
      /\ csr' = (csr \ {"FORCESTALL", "TXPKTRDY"}) \union {"RXSETUP"}
      /\ csr \intersect {"TXCOMP", "RX_BK0"} = {} /\ "RXSETUP" \notin csr
  BY DEF Ctl!HostSetup
<1>2. /\ host'.req = r /\ host'.moved = 0 /\ host'.cut = FALSE
      /\ host'.stage = (IF r.length = 0 THEN "status" ELSE "data")
      /\ r \in ReqType
  BY <1>1, RequestFacts
<1>3. host' \in HostType
  BY <1>1, <1>2, ControlAssumption DEF HostType
<1>4. csr \subseteq Ctl!Flags BY DEF CtlInv, Ctl!TypeOK
<1>5. csr' \subseteq {"RXSETUP", "STALLSENT"} BY <1>1, <1>4 DEF Ctl!Flags
<1>6. Ctl!TypeOK' BY <1>1, <1>3, <1>5 DEF CtlInv, Ctl!TypeOK, HostType, ReqType, Ctl!Flags
<1> QED BY <1>1, <1>2, <1>5, <1>6 DEF CtlInv, AwaitsService, Rested, InPhase, Has

(* A step of the host that goes on with a request the driver has taken.    *)
LEMMA GoesOnInv ==
  ASSUME CtlInv, Ctl!TypeOK', ~Has("RXSETUP"), ~Has("RXSETUP")', host'.req = host.req,
         c' = [c EXCEPT !.shaken = TRUE] \/ c' = c,
         host.stage \notin {"idle", "reset"}, host'.stage \notin {"idle", "reset"}, Phase'
  PROVE  CtlInv'
<1>1. c \in Fields BY NowTyped DEF CtlInv
<1>2. /\ c'.state = c.state /\ c'.calls = c.calls /\ c'.req = c.req /\ c'.early = c.early
  BY <1>1 DEF Fields
<1>3. Phase /\ CallsCounted BY DEF CtlInv, InPhase
<1>4. CallsCounted' BY <1>2, <1>3 DEF CallsCounted
<1> QED BY <1>2, <1>4 DEF CtlInv, AwaitsService, Rested, InPhase, Has

LEMMA HostStepsInv ==
  ASSUME CtlInv, Ctl!HostProceeds \/ Ctl!HostCut
  PROVE  CtlInv'
<1>1. /\ host \in HostType /\ c \in Fields /\ csr \subseteq Ctl!Flags
      /\ fifo \in [rx : 0 .. PktSize, tx : 0 .. PktSize]
  BY NowTyped DEF CtlInv, Ctl!TypeOK
<1>2. /\ host.req.length \in 0 .. MaxLength /\ host.req.payload \in 0 .. MaxLength
      /\ host.moved \in 0 .. MaxLength /\ c.nb \in 0 .. MaxLength
      /\ fifo.rx \in 0 .. PktSize /\ fifo.tx \in 0 .. PktSize
      /\ host.req.ok \in BOOLEAN /\ host.cut \in BOOLEAN /\ c.short \in BOOLEAN
      /\ host.req.dir \in {"IN", "OUT"}
      /\ MaxLength \in Nat /\ PktSize \in Nat /\ PktSize > 0
  BY StateFacts, ControlAssumption
<1>3. /\ host.req.ok = TRUE /\ host.req.dir = "IN" =>
           /\ host.req.length > 0
           /\ host.req.payload <= host.req.length
      /\ host.req.ok = TRUE /\ host.req.dir = "OUT" =>
           host.req.payload \in {0, host.req.length}
  BY StateFacts
<1>4. ASSUME "RXSETUP" \notin csr, host.stage \in {"data", "status"} PROVE Phase
  BY <1>4 DEF CtlInv, InPhase, Has
<1>5. ASSUME host' \in HostType, csr' \subseteq Ctl!Flags,
             fifo' \in [rx : 0 .. PktSize, tx : 0 .. PktSize],
             c' = c \/ c' = [c EXCEPT !.shaken = TRUE]
      PROVE  Ctl!TypeOK'
  <2>1. c' \in [state : Ctl!States, req : ReqType, nb : 0 .. MaxLength,
                prev : 0 .. 2 * MaxLength, short : BOOLEAN,
                shaken : BOOLEAN, calls : 0 .. 1, early : BOOLEAN]
    BY <1>5 DEF CtlInv, Ctl!TypeOK, ReqType
  <2> QED BY <1>5, <2>1 DEF Ctl!TypeOK, HostType, ReqType
<1>6. CASE Ctl!HostDataIn
  <2> DEFINE n == host.moved + fifo.tx
             st == IF fifo.tx < PktSize \/ n >= host.req.length THEN "status" ELSE "data"
  <2>1. /\ host.stage = "data" /\ host.req.dir = "IN"
        /\ csr \intersect {"RXSETUP", "FORCESTALL"} = {}
        /\ "TXPKTRDY" \in csr /\ "TXCOMP" \notin csr
        /\ csr' = (csr \ {"TXPKTRDY"}) \union {"TXCOMP"} /\ fifo' = fifo /\ c' = c
    BY <1>6 DEF Ctl!HostDataIn, Ctl!HostTakes, Ctl!Free
  <2>2. host' = [host EXCEPT !.moved = n, !.stage = st] BY <1>6, <2>1 DEF Ctl!HostDataIn
  <2>3. SendsData
    BY <1>4, <2>1 DEF Phase, Refused, AwaitsOut, TakesData, HandsShake, IsOverIn, IsOverOut, Has
  <2>4. /\ host.req.ok = TRUE /\ c.state = "DATA_IN" /\ c.req = host.req
        /\ "RX_BK0" \notin csr /\ "FORCESTALL" \notin csr
        /\ fifo.tx <= c.nb /\ c.nb <= c.req.payload
        /\ c.short = TRUE <=> fifo.tx < PktSize
        /\ c.short = TRUE => c.nb = c.req.payload
        /\ c.prev # 0 => c.prev = c.req.payload /\ c.short = TRUE
        /\ host.moved = c.nb - fifo.tx /\ host.cut = FALSE
    BY <2>1, <2>3 DEF SendsData, Has
  <2>5. n = c.nb /\ n \in 0 .. MaxLength BY <1>2, <2>4
  <2>6. st \in {"data", "status"} /\ (st = "data" => ~(fifo.tx < PktSize) /\ c.nb < host.req.length)
        /\ (st = "status" => c.short = TRUE \/ c.nb >= host.req.length)
    BY <1>2, <2>4, <2>5
  <2> HIDE DEF n, st
  <2>7. host' \in HostType /\ host'.req = host.req /\ host'.moved = n /\ host'.stage = st
        /\ host'.cut = host.cut
    BY <1>1, <2>2, <2>5, <2>6 DEF HostType
  <2>8. csr' \subseteq Ctl!Flags BY <1>1, <2>1 DEF Ctl!Flags
  <2>9. Ctl!TypeOK' BY <1>1, <1>5, <2>1, <2>7, <2>8
  <2>10. st = "status" => c.nb = c.req.payload /\ (c.short = TRUE \/ c.nb = c.req.length)
    BY <1>2, <1>3, <2>1, <2>4, <2>6
  <2>11. st = "data" => c.short = FALSE /\ c.nb < c.req.length BY <1>2, <2>4, <2>6
  <2>12. SendsData'
    BY <2>1, <2>4, <2>5, <2>6, <2>7, <2>10, <2>11 DEF SendsData, Has
  <2> QED BY <2>1, <2>6, <2>7, <2>9, <2>12, GoesOnInv DEF Has, Phase
<1>7. CASE Ctl!HostStatusIn
  <2>1. /\ host.stage = "status" /\ (host.req.dir = "OUT" \/ host.req.length = 0)
        /\ csr \intersect {"RXSETUP", "FORCESTALL"} = {}
        /\ "TXPKTRDY" \in csr /\ "TXCOMP" \notin csr
        /\ csr' = (csr \ {"TXPKTRDY"}) \union {"TXCOMP"} /\ fifo' = fifo
        /\ c' = [c EXCEPT !.shaken = TRUE] /\ host' = [host EXCEPT !.stage = "done"]
    BY <1>7 DEF Ctl!HostStatusIn, Ctl!HostTakes, Ctl!Free, Ctl!Shaken
  <2>2. HandsShake
    <3>1. ~SendsData BY <1>3, <2>1 DEF SendsData
    <3>2. ~IsOverOut BY <1>2, <2>1 DEF IsOverOut, Has
    <3> QED BY <1>4, <2>1, <3>1, <3>2
            DEF Phase, Refused, AwaitsOut, TakesData, IsOverIn, Has
  <2>3. /\ host' \in HostType /\ host'.req = host.req /\ host'.stage = "done"
        /\ c'.state = c.state /\ c'.req = c.req /\ c'.nb = c.nb /\ c'.shaken = TRUE
    BY <1>1, <2>1 DEF HostType, Fields
  <2>4. csr' \subseteq Ctl!Flags BY <1>1, <2>1 DEF Ctl!Flags
  <2>5. Ctl!TypeOK' BY <1>1, <1>5, <2>1, <2>3, <2>4
  <2>6. HandsShake' BY <2>1, <2>2, <2>3 DEF HandsShake, Has, Whole
  <2> QED BY <2>1, <2>3, <2>5, <2>6, GoesOnInv DEF Has, Phase
<1>8. CASE Ctl!HostDataOut
  <2> DEFINE left == host.req.length - host.moved
             n == IF left > PktSize THEN PktSize ELSE left
             m == host.moved + n
             st == IF n = left THEN "status" ELSE "data"
  <2>1. /\ host.stage = "data" /\ host.req.dir = "OUT"
        /\ csr \intersect {"RXSETUP", "FORCESTALL"} = {} /\ "RX_BK0" \notin csr
        /\ csr' = csr \union {"RX_BK0"} /\ fifo' = [fifo EXCEPT !.rx = n] /\ c' = c
        /\ host' = [host EXCEPT !.moved = m, !.stage = st]
    <3>1. host.stage = "data" BY <1>8 DEF Ctl!HostDataOut
    <3> QED BY <1>8, <3>1 DEF Ctl!HostDataOut, Ctl!HostGives, Ctl!Free
  <2>2. TakesData \/ (HandsShake /\ ~Whole)
    BY <1>4, <2>1
       DEF Phase, Refused, SendsData, AwaitsOut, TakesData, HandsShake, IsOverIn, IsOverOut, Has
  <2>3. host.moved <= host.req.length
    <3>1. CASE TakesData BY <3>1 DEF TakesData
    <3>2. CASE HandsShake BY <3>2 DEF HandsShake
    <3> QED BY <2>2, <3>1, <3>2
  <2>4. /\ left \in Nat /\ n \in 0 .. PktSize /\ n <= left
        /\ m = host.moved + n /\ m <= host.req.length /\ m \in 0 .. MaxLength
        /\ st = IF m = host.req.length THEN "status" ELSE "data"
        /\ m # host.req.length => n = PktSize
    BY <1>2, <2>3
  <2> HIDE DEF left, n, m, st
  <2>5. /\ host' \in HostType /\ host'.req = host.req /\ host'.moved = m /\ host'.stage = st
        /\ fifo' \in [rx : 0 .. PktSize, tx : 0 .. PktSize] /\ fifo'.rx = n
        /\ st \in {"data", "status"}
    BY <1>1, <2>1, <2>4 DEF HostType
  <2>6. csr' \subseteq Ctl!Flags BY <1>1, <2>1 DEF Ctl!Flags
  <2>7. Ctl!TypeOK' BY <1>5, <2>1, <2>5, <2>6
  <2>8. CASE TakesData
    <3>1. Whole => m = c.nb + n BY <2>1, <2>4, <2>8 DEF TakesData, Has
    <3>2. TakesData'
      BY <2>1, <2>4, <2>5, <2>8, <3>1 DEF TakesData, Has, Whole
    <3> QED BY <2>1, <2>5, <2>7, <3>2, GoesOnInv DEF Has, Phase
  <2>9. CASE HandsShake /\ ~Whole
    <3>1. HandsShake'
      BY <2>1, <2>4, <2>5, <2>9 DEF HandsShake, Has, Whole
    <3> QED BY <2>1, <2>5, <2>7, <3>1, GoesOnInv DEF Has, Phase
  <2> QED BY <2>2, <2>8, <2>9
<1>9. CASE Ctl!HostStatusOut \/ Ctl!HostCut
  <2> DEFINE ct == IF Ctl!HostCut THEN TRUE ELSE host.cut
  <2>1. /\ host.req.dir = "IN" /\ host.stage \in {"data", "status"}
        /\ host.stage = "data" => Ctl!HostCut
        /\ csr \intersect {"RXSETUP", "FORCESTALL"} = {} /\ "RX_BK0" \notin csr
        /\ csr' = csr \union {"RX_BK0"} /\ fifo' = [fifo EXCEPT !.rx = 0]
        /\ c' = [c EXCEPT !.shaken = TRUE]
        /\ host' = [host EXCEPT !.stage = "done", !.cut = ct]
    <3>1. CASE Ctl!HostCut
      BY <3>1 DEF Ctl!HostCut, Ctl!HostGives, Ctl!Free, Ctl!Shaken
    <3>2. CASE Ctl!HostStatusOut /\ ~Ctl!HostCut
      <4>1. host.stage = "status" /\ host' = [host EXCEPT !.stage = "done"]
        BY <3>2 DEF Ctl!HostStatusOut
      <4>2. host' = [host EXCEPT !.stage = "done", !.cut = host.cut]
        BY <1>1, <4>1 DEF HostType
      <4> QED BY <3>2, <4>1, <4>2 DEF Ctl!HostStatusOut, Ctl!HostGives, Ctl!Free, Ctl!Shaken
    <3> QED BY <1>9, <3>1, <3>2
  <2>2. ct \in BOOLEAN /\ (ct = FALSE => host.cut = FALSE /\ host.stage = "status")
    BY <1>2, <2>1
  <2> HIDE DEF ct
  <2>3. SendsData \/ AwaitsOut
    BY <1>4, <2>1 DEF Phase, Refused, TakesData, HandsShake, IsOverIn, IsOverOut, Has
  <2>4. /\ host' \in HostType /\ host'.req = host.req /\ host'.stage = "done"
        /\ host'.cut = ct /\ host'.moved = host.moved
        /\ fifo' \in [rx : 0 .. PktSize, tx : 0 .. PktSize] /\ fifo'.tx = fifo.tx
        /\ c'.state = c.state /\ c'.req = c.req /\ c'.nb = c.nb /\ c'.prev = c.prev
        /\ c'.short = c.short
    <3>1. /\ host' \in HostType /\ host'.req = host.req /\ host'.stage = "done"
          /\ host'.cut = ct /\ host'.moved = host.moved
      BY <1>1, <2>1, <2>2 DEF HostType
    <3>2. fifo' \in [rx : 0 .. PktSize, tx : 0 .. PktSize] /\ fifo'.tx = fifo.tx
      <4>1. 0 \in 0 .. PktSize BY <1>2
      <4> QED BY <1>1, <2>1, <4>1
    <3>3. /\ c'.state = c.state /\ c'.req = c.req /\ c'.nb = c.nb /\ c'.prev = c.prev
          /\ c'.short = c.short
      BY <1>1, <2>1 DEF Fields
    <3> QED BY <3>1, <3>2, <3>3
  <2>5. csr' \subseteq Ctl!Flags BY <1>1, <2>1 DEF Ctl!Flags
  <2>6. Ctl!TypeOK' BY <1>5, <2>1, <2>4, <2>5
  <2>7. CASE AwaitsOut
    <3>1. AwaitsOut' BY <2>1, <2>2, <2>4, <2>7 DEF AwaitsOut, Has
    <3> QED BY <2>1, <2>4, <2>6, <3>1, GoesOnInv DEF Has, Phase
  <2>8. CASE SendsData
    <3>1. /\ Has("RX_BK0")' /\ ~Has("FORCESTALL")'
          /\ Has("TXCOMP")' <=> Has("TXCOMP")
          /\ Has("TXPKTRDY")' <=> Has("TXPKTRDY")
      BY <2>1 DEF Has
    <3>2. ct = FALSE => Has("TXCOMP") /\ c.nb = c.req.payload
      BY <2>2, <2>8 DEF SendsData
    <3>3. SendsData' BY <2>4, <2>8, <3>1, <3>2 DEF SendsData
    <3> QED BY <2>1, <2>4, <2>6, <3>3, GoesOnInv DEF Has, Phase
  <2> QED BY <2>3, <2>7, <2>8
<1>10. CASE Ctl!HostStalled
  <2>1. /\ host.stage \in {"data", "status"} /\ "RXSETUP" \notin csr /\ "FORCESTALL" \in csr
        /\ csr' = csr \union {"STALLSENT"} /\ host' = [host EXCEPT !.stage = "stalled"]
        /\ c' = c /\ fifo' = fifo
    BY <1>10 DEF Ctl!HostStalled, Ctl!InProgress
  <2>2. Refused \/ (IsOverOut /\ ~Whole)
    BY <1>4, <2>1
       DEF Phase, SendsData, AwaitsOut, TakesData, HandsShake, IsOverIn, IsOverOut, Has
  <2>3. /\ host' \in HostType /\ host'.req = host.req /\ host'.stage = "stalled"
    BY <1>1, <2>1 DEF HostType
  <2>4. csr' \subseteq Ctl!Flags BY <1>1, <2>1 DEF Ctl!Flags
  <2>5. Ctl!TypeOK' BY <1>1, <1>5, <2>1, <2>3, <2>4
  <2>6. CASE Refused
    <3>1. Refused' BY <2>1, <2>3, <2>6 DEF Refused, Has
    <3> QED BY <2>1, <2>3, <2>5, <3>1, GoesOnInv DEF Has, Phase
  <2>7. CASE IsOverOut /\ ~Whole
    <3>1. IsOverOut' BY <2>1, <2>3, <2>7 DEF IsOverOut, Has, Whole
    <3> QED BY <2>1, <2>3, <2>5, <3>1, GoesOnInv DEF Has, Phase
  <2> QED BY <2>2, <2>6, <2>7
<1> QED BY <1>6, <1>7, <1>8, <1>9, <1>10 DEF Ctl!HostProceeds

LEMMA CtlNextInv ==
  ASSUME CtlInv, [Ctl!Next]_(Ctl!vars)
  PROVE  CtlInv'
<1>1. CASE Ctl!Isr
  BY <1>1, IsrSetupInv, IsrInSentInv, IsrOutReceivedInv, IsrRestInv DEF Ctl!Isr
<1>2. CASE Ctl!HostProceeds \/ Ctl!HostCut BY <1>2, HostStepsInv
<1>3. CASE Ctl!BusReset BY <1>3, IsrRestInv
<1>4. ASSUME NEW r \in Ctl!Requests, Ctl!HostSetup(r) PROVE CtlInv'
  BY <1>4, HostSetupInv
<1>5. CASE UNCHANGED Ctl!vars
  <2>1. host' = host /\ c' = c /\ csr' = csr /\ fifo' = fifo BY <1>5 DEF Ctl!vars
  <2> QED
    BY <2>1 DEF CtlInv, Ctl!TypeOK, AwaitsService, Rested, InPhase, Has, Phase, Refused, SendsData,
       AwaitsOut, TakesData, HandsShake, IsOverIn, IsOverOut, Whole, CallsCounted
<1> QED BY <1>1, <1>2, <1>3, <1>4, <1>5 DEF Ctl!Next

LEMMA CtlInvHolds == CtlSpec => []CtlInv
<1>1. Ctl!Init => CtlInv BY CtlInitInv
<1>2. CtlInv /\ [Ctl!Next]_(Ctl!vars) => CtlInv' BY CtlNextInv
<1> QED BY <1>1, <1>2, PTL DEF CtlSpec, Ctl!Spec

(***************************************************************************)
(* What the runs check, for every size of the endpoint and every length of *)
(* a transfer that fits 16 bits, with and without hosts that abort.        *)
(***************************************************************************)
(* All variables of the control endpoint keep their types: a packet never  *)
(* outgrows the endpoint, nor a count the largest buffer.                  *)
THEOREM CtlTypes == CtlSpec => []Ctl!TypeOK
<1>1. CtlInv => Ctl!TypeOK BY DEF CtlInv
<1> QED BY <1>1, CtlInvHolds, PTL

(* A host that ends the data phase of an IN request has the whole buffer   *)
(* of the class (udd_ctrl_in_sent), and one told that its OUT data arrived *)
(* is told the truth (udd_ctrl_out_received).                              *)
THEOREM CtlDataComplete == CtlSpec => []DataComplete
<1>1. CtlInv => DataComplete BY CtlInvSuffices DEF DataComplete
<1> QED BY <1>1, CtlInvHolds, PTL

(* The driver does not leave the IN data phase before the host does, with  *)
(* the exception of a request that its class accepts with nothing to send. *)
THEOREM CtlPhaseEndsTogether == CtlSpec => []PhaseEndsTogether
<1>1. CtlInv => PhaseEndsTogether BY CtlInvSuffices DEF PhaseEndsTogether
<1> QED BY <1>1, CtlInvHolds, PTL

(* Only a refused request, or one sending more than the class takes, is    *)
(* stalled; a stall never hits the request that follows.                   *)
THEOREM CtlStallsOnlyItsRequest == CtlSpec => []StallsOnlyItsRequest
<1>1. CtlInv => StallsOnlyItsRequest BY CtlInvSuffices DEF StallsOnlyItsRequest
<1> QED BY <1>1, CtlInvHolds, PTL

(* A request that is finished and served had its callback, once, and after *)
(* the handshake, as changing the address of the device must be.           *)
THEOREM CtlCallbackOnce == CtlSpec => []CallbackOnceAfterHandshake
<1>1. CtlInv => CallbackOnceAfterHandshake
  BY CtlInvSuffices DEF CallbackOnceAfterHandshake
<1> QED BY <1>1, CtlInvHolds, PTL

(* The assertion of udd_ctrl_in_sent never fails: a sent packet is served  *)
(* in the IN data phase or while the handshake is awaited.                 *)
THEOREM CtlSentInDataPhase == CtlSpec => []Ctl!SentInDataPhase
<1>1. CtlInv => Ctl!SentInDataPhase BY CtlInvSuffices
<1> QED BY <1>1, CtlInvHolds, PTL
=============================================================================
