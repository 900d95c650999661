---------------------------------- MODULE Udc ----------------------------------
(***************************************************************************)
(* The USB device controller udc.c of the firmware: address, configuration *)
(* and interfaces, with the part of the four class interfaces and of the   *)
(* endpoint driver that a configuration sets up and takes down.            *)
(*                                                                         *)
(* One configuration, with alternate setting 0 only: CDC communication     *)
(* (endpoint 3), CDC data (1 and 2), HID keyboard (4), display (5).  All   *)
(* of it runs in the USB interrupt routine, one request at a time; a       *)
(* request is one step, which maps the device d to what the routine leaves.*)
(***************************************************************************)
EXTENDS Naturals

CONSTANT Byte  \* values of an uint8_t, 256 (bound: fewer when model checking)

ASSUME ByteAssumption == Byte \in Nat /\ Byte > 2

Ifaces    == 0 .. 3       \* USB_DEVICE_NB_INTERFACE
Endpoints == 1 .. 5

(* The endpoint descriptors of each interface, in order.                   *)
EpsOf(i) == CASE i = 0 -> {3} [] i = 1 -> {1, 2} [] i = 2 -> {4} [] i = 3 -> {5}

VARIABLES
  d,      \* the device: udc_num_configuration, address, enabled and halted
          \* endpoints, endpoints with a job on, the counters
          \* udi_cdc_nb_comm_enabled and udi_cdc_nb_data_enabled, and
          \* udi_cdc_data_running
  newAddr,\* the address that the callback of SET_ADDRESS is going to set
  reply,  \* the last request and whether it was accepted
  good    \* history: the host has asked for no alternate setting that does
          \* not exist and has halted no endpoint

vars == <<d, newAddr, reply, good>>

NoAddress == 128

Init ==
  /\ d = [conf |-> 0, addr |-> 0, on |-> {}, halted |-> {}, busy |-> {},
          comm |-> 0, data |-> 0, running |-> FALSE]
  /\ newAddr = NoAddress
  /\ reply = [req |-> "none", arg |-> 0, ok |-> TRUE]
  /\ good = TRUE

-----------------------------------------------------------------------------
(* The endpoint driver: udd_ep_run accepts a transfer.                     *)

CanRun(x, ep) == ep \in x.on /\ ep \notin x.halted /\ ep \notin x.busy

-----------------------------------------------------------------------------
(* Enabling and disabling the classes.  The counters are bytes.            *)

Done(x)   == [d |-> x, ok |-> TRUE]
Failed(x) == [d |-> x, ok |-> FALSE]

CommEnable(x) == Done([x EXCEPT !.comm = 1])

(* udi_cdc_data_enable fails when the first reception cannot be started.   *)
DataEnable(x) ==
  IF CanRun(x, 2)
  THEN Done([x EXCEPT !.data = 1, !.running = TRUE, !.busy = @ \union {2}])
  ELSE Failed([x EXCEPT !.data = 0])

(* usbVendorDeviceEnableExt takes no notice of the result of the run.      *)
DisplayEnable(x) ==
  Done(IF CanRun(x, 5) THEN [x EXCEPT !.busy = @ \union {5}] ELSE x)

ClassEnable(x, i) ==
  CASE i = 0 -> CommEnable(x)
    [] i = 1 -> DataEnable(x)
    [] i = 2 -> Done(x)
    [] i = 3 -> DisplayEnable(x)

(* Mutant: the counter is taken for a signed number.                       *)
CommDisableSigned(x) == [x EXCEPT !.comm = @ - 1]

CommDisable(x) == [x EXCEPT !.comm = (@ + (Byte - 1)) % Byte]

(* Mutant: the port stays marked as running.                               *)
DataDisableStillRunning(x) == [x EXCEPT !.data = (@ + (Byte - 1)) % Byte]

DataDisable(x) == [x EXCEPT !.data = (@ + (Byte - 1)) % Byte, !.running = FALSE]

ClassDisable(x, i) ==
  CASE i = 0 -> CommDisable(x)
    [] i = 1 -> DataDisable(x)
    [] i \in {2, 3} -> x

-----------------------------------------------------------------------------
(* udc.c.                                                                  *)

(* udc_update_iface_desc finds the interface.                              *)
Found(x, i, alt) == x.conf # 0 /\ i \in Ifaces /\ alt = 0

(* The endpoints of interface i, refused when they are enabled; those of   *)
(* one interface are enabled and freed together.                           *)
Allocated(x, i) ==
  IF EpsOf(i) \intersect x.on # {}
  THEN Failed(x)
  ELSE Done([x EXCEPT !.on = @ \union EpsOf(i)])

IfaceEnable(x, i, alt) ==
  IF ~ Found(x, i, alt) THEN Failed(x)
  ELSE LET a == Allocated(x, i)
       IN IF a.ok THEN ClassEnable(a.d, i) ELSE a

IfaceDisable(x, i) ==
  IF ~ Found(x, i, 0) THEN Failed(x)
  ELSE Done(ClassDisable([x EXCEPT !.on = @ \ EpsOf(i), !.busy = @ \ EpsOf(i)], i))

Off(x, i) == IfaceDisable(x, i).d

(* Mutants: the last interface is left alone; the configuration stays.     *)
ResetButLast(x)   == [Off(Off(Off(x, 0), 1), 2) EXCEPT !.conf = 0]
ResetKeepsConf(x) == Off(Off(Off(Off(x, 0), 1), 2), 3)

(* udc_reset disables every interface of the current configuration,        *)
(* whether it was enabled or not.                                          *)
Reset(x) == [Off(Off(Off(Off(x, 0), 1), 2), 3) EXCEPT !.conf = 0]

(* Mutant: an interface that fails does not stop the others.               *)
EnableAnyway(r, i) == Done(IfaceEnable(r.d, i, 0).d)

(* The interfaces are enabled in order, up to the first that fails.        *)
EnableNext(r, i) == IF r.ok THEN IfaceEnable(r.d, i, 0) ELSE r

EnableAll(x) ==
  EnableNext(EnableNext(EnableNext(EnableNext(Done(x), 0), 1), 2), 3)

Answer(r, req, arg) ==
  d' = r.d /\ reply' = [req |-> req, arg |-> arg, ok |-> r.ok] /\ UNCHANGED newAddr

(* SET_ADDRESS registers a callback that changes the address at the end of *)
(* the request; the next request may come first.                           *)
SetAddress(a) ==
  /\ newAddr = NoAddress
  /\ newAddr' = a /\ reply' = [req |-> "address", arg |-> a, ok |-> TRUE]
  /\ UNCHANGED <<d, good>>

ValidAddress ==
  /\ newAddr # NoAddress
  /\ d' = [d EXCEPT !.addr = newAddr] /\ newAddr' = NoAddress
  /\ UNCHANGED <<reply, good>>

SetConfiguration(n) ==
  LET x == [Reset(d) EXCEPT !.conf = n]
  IN /\ newAddr = NoAddress
     /\ Answer(IF d.addr = 0 \/ n > 1 THEN Failed(d)
               ELSE IF n = 0 THEN Done(x) ELSE EnableAll(x), "configuration", n)
     /\ UNCHANGED good

(* SET_INTERFACE disables the interface before it looks for the setting.   *)
SetInterface(i, alt) ==
  /\ newAddr = NoAddress
  /\ LET r == IfaceDisable(d, i)
     IN Answer(IF r.ok THEN IfaceEnable(r.d, i, alt) ELSE r, "interface", i)
  /\ good' = (good /\ alt = 0)

(* SET_FEATURE(ENDPOINT_HALT) asks neither for a configuration nor for an  *)
(* enabled endpoint.  Here the OUT endpoints, whose halt survives until    *)
(* CLEAR_FEATURE or a bus reset.                                           *)
SetHalt(ep) ==
  /\ newAddr = NoAddress
  /\ Answer(Done([d EXCEPT !.halted = @ \union {ep}, !.busy = @ \ {ep}]), "halt", ep)
  /\ good' = FALSE

ClearHalt(ep) ==
  /\ newAddr = NoAddress
  /\ Answer(Done([d EXCEPT !.halted = @ \ {ep}]), "resume", ep)
  /\ UNCHANGED good

(* The end of a bus reset: the hardware has cleared the status registers.  *)
BusReset ==
  /\ d' = [Reset([d EXCEPT !.on = {}, !.halted = {}, !.busy = {}]) EXCEPT !.addr = 0]
  /\ newAddr' = NoAddress /\ reply' = [req |-> "reset", arg |-> 0, ok |-> TRUE]
  /\ UNCHANGED good

(* A transfer of the serial port or of the display is over and its         *)
(* callback starts no other: no free buffer, or a line out of range.       *)
TransferStops(ep) ==
  /\ ep \in d.busy
  /\ d' = [d EXCEPT !.busy = @ \ {ep}] /\ UNCHANGED <<newAddr, reply, good>>

(* The main thread or the start of frame routine runs a transfer.          *)
TransferStarts(ep) ==
  /\ CanRun(d, ep)
  /\ d' = [d EXCEPT !.busy = @ \union {ep}] /\ UNCHANGED <<newAddr, reply, good>>

Next ==
  \/ \E a \in {0, 1} : SetAddress(a)
  \/ ValidAddress
  \/ \E n \in 0 .. 2 : SetConfiguration(n)
  \/ \E i \in 0 .. 4, alt \in {0, 1} : SetInterface(i, alt)
  \/ \E ep \in {2, 5} : SetHalt(ep) \/ ClearHalt(ep)
  \/ BusReset
  \/ \E ep \in {2, 5} : TransferStops(ep)
  \/ \E ep \in {1, 2, 3, 4} : TransferStarts(ep)

Spec == Init /\ [][Next]_vars

-----------------------------------------------------------------------------
(* Every variable has its type.                                            *)
Device ==
  [conf : {0, 1}, addr : {0, 1}, on : SUBSET Endpoints,
   halted : SUBSET Endpoints, busy : SUBSET Endpoints,
   comm : 0 .. Byte - 1, data : 0 .. Byte - 1, running : BOOLEAN]

TypeOK ==
  /\ d \in Device
  /\ newAddr \in {0, 1, NoAddress}
  /\ reply \in [req : {"none", "address", "configuration", "interface", "halt",
                       "resume", "reset"}, arg : 0 .. 5, ok : BOOLEAN]
  /\ good \in BOOLEAN

(* The serial port runs on enabled endpoints only, and no transfer is on   *)
(* at an endpoint that its interface has given up.                         *)
RunsOnEnabled == d.busy \subseteq d.on /\ (d.running => {1, 2} \subseteq d.on)

(* Without a configuration nothing is left on: no endpoint, no transfer,   *)
(* no serial port that takes characters; and with one, only what runs on   *)
(* enabled endpoints.                                                      *)
OffMeansOff ==
  /\ RunsOnEnabled
  /\ d.conf = 0 => d.on = {} /\ d.busy = {} /\ ~ d.running

(* An accepted SET_CONFIGURATION puts every interface to work, whatever    *)
(* refused requests, halts and failures have left of the one before; and   *)
(* "ennumerated and ready for action" (usbVendorDeviceEnableExt) is true   *)
(* of the display as long as the host was good.                            *)
AcceptedMeansAllOn ==
  [][reply'.req = "configuration" /\ reply'.ok /\ reply'.arg = 1 /\ reply' # reply
     => /\ d'.on = Endpoints /\ d'.running
        /\ d'.comm = 1 /\ d'.data = 1 /\ 2 \in d'.busy
        /\ good => 5 \in d'.busy]_vars

(* The assertion of udi_cdc_comm_disable: an interface that is not enabled *)
(* is not disabled, whatever the host asks for.                            *)
CommAsserted == d.comm # Byte - 1

(* The counters of enabled interfaces keep to their width with every host; *)
(* and with a good one the assertions of udi_cdc_comm_disable and of       *)
(* udi_cdc_data_disable hold: enabling and disabling pair up through every *)
(* reset, refused configuration and change of interface.                   *)
CountersPair ==
  /\ TypeOK
  /\ good => d.comm # Byte - 1 /\ d.data # Byte - 1
=============================================================================
