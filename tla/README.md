# A verification model of memlcdfb

memlcdfb drives Sharp memory displays (LS027B7DH01, 400 x 240 dots): two Linux
framebuffer drivers, and the firmware `MemLcdUsbSharp` of a SAM4S board that
puts such a display, a serial port and a keyboard on USB. This directory holds
TLA+ modules of the parts that carry the program's logic, the TLC runs that
check them on small instances, and TLAPS proofs of the main invariants.

Paths below are relative to the repository's `src/`; `FW/` stands for
`fw_Atmel_XPro/MemLcdUsbSharp/src/`, `udp_device.c` for
`FW/ASF/sam/drivers/udp/udp_device.c`, `udc.c` for
`FW/ASF/common/services/usb/udc/udc.c`, `udi_cdc.c` and `udi_hid_kbd.c` for the
files of that name under `FW/ASF/common/services/usb/class/`.

## 1. The system

| component | state it keeps | operations | talks to |
|---|---|---|---|
| Linux USB driver `memlcd_usb.c` | video memory, deferred work, one URB per line in flight, what probe acquired | probe, disconnect, drawing calls, mapped stores, update, URB completion | framebuffer core, USB core, the firmware's OUT endpoint 5 |
| Linux SPI driver `memlcd_spi.c` | video memory, frame buffer to send, deferred work | probe, remove, drawing calls, mapped stores, update | framebuffer core, SPI core |
| Firmware main program `main.c`, `MemLcd.c` | frame buffer, line being sent, panel | blank once, refresh for ever | frame buffer shared with the vendor callback |
| Vendor interface `udi_vendor.c`, `usbVendorDev.c` | receive buffer, alternate setting | enable, disable, receive callback | OUT endpoint 5, frame buffer |
| USB device driver `udp_device.c` | per endpoint: CSR flags, IMR bit, FIFO banks, job; endpoint 0's request state | run, abort, halt, clear halt, wait for clear, alloc, free, interrupt routine, bus reset | hardware, udc, classes (callbacks) |
| USB device controller `udc.c` | address, configuration, interfaces | standard requests, reset | driver and classes |
| CDC class `udi_cdc.c` | enabled counters, double buffers both ways, flags, serial state | enable, disable, getc/putc, buffers, start of frame, notification of the serial state | driver, udc |
| HID keyboard `udi_hid_kbd.c` | report, copy in transfer, two flags | keys, report sent, enable | driver, udc |
| Power states of `udp_device.c`, sleep manager `sleepmgr.h`, `sleep.c` | IDLE or SUSPEND, clock, lock counters, masked interrupts | enable, disable, attach, detach, suspend, resume, sleep, wake up | bus, interrupt routine, main program |
| Clocks and flash: `sysclk.c`, `pmc.c`, `pll.h`, `sleep.c`, `system_sam4s.c` | oscillators, PLLs, master clock, flash wait states | set-up, USB clock, save and restore around WAIT | power states, all of the firmware |
| Pins, SPI, watchdog, descriptors, start-up | registers, constants | set-up | all of the firmware |

What is hard here:

* **Concurrency.** Drawing threads, user-space stores and the deferred worker
  share the video memory without a lock. In the firmware the interrupt routine
  comes between any two accesses of the main thread, and the hardware and the
  host go on between any two steps of either.
* **Ordering.** A USB endpoint with two banks does not tell which of two packets
  came first; endpoint 0 serves its flags in a fixed order whatever order the
  packets came in; a callback starts the next transfer from inside the last.
* **Failure.** Allocations, submissions and transfers fail in mid-frame; probe
  fails half-way; the device is unplugged; the bus is reset; the host halts
  endpoints, refuses to wait, asks for settings that do not exist.
* **Limits.** Byte counters, packets that exactly fill a buffer, empty packets.

What makes each component correct:

* drivers: no store is forgotten, old content never overtakes new, every buffer
  is accounted for, every store is eventually shown;
* endpoints: each accepted buffer comes back exactly once, bytes arrive in order
  and whole, the driver's count of banks is the hardware's, no transfer is left
  where nothing will ever end it;
* endpoint 0: both sides agree on the end of a stage, handshakes tell the truth;
* controller: what a configuration sets up is what a reset takes down;
* serial port: bytes arrive once and in order, a thread that waits gets them, the lines
  arrive as they are, and an error is told once for each time it occurs;
* keyboard: the host ends up with the keys that are pressed;
* power: the locks held are those of the driver's state, the state follows the bus,
  and the processor is not in a deep sleep while the bus is in use;
* clocks: the processor always has a clock that runs and that the flash keeps up with,
  and the program finds the one it set up;
* display: the last line sent is what the panel ends up showing.

## 2. Modules

| module | models | kind |
|---|---|---|
| `Display` | what each stage from drawing program to panel promises | abstract specification |
| `MemLcdUsb` | `memlcd_usb.c` | component, implements `Display` |
| `MCMemLcdUsb` | two lines to a page | instance for TLC |
| `MemLcdUsbProofs` | | theorems |
| `MemLcdSpi` | `memlcd_spi.c` | component, implements `Display` |
| `MemLcdSpiProofs` | | theorems |
| `Msb2Lsb` | the table `msb2lsb` of `memlcd_spi.c`, again in `MemLcd.c` | constant module |
| `MCMemLcdSpi` | extends both of the above | instance for TLC |
| `MemLcdFw` | `main.c`, `MemLcd.c`, `usbVendorDev.c`, `udi_vendor.c` | composition: main program, vendor callback, and the display's endpoint; implements `Display` |
| `MemLcdFwProofs` | | theorems |
| `UdpOutEndpoint` | an OUT endpoint of `udp_device.c` | component |
| `UdpOutEndpointProofs` | | theorems |
| `UdpInEndpoint` | an IN endpoint of `udp_device.c` | component |
| `MCUdpInEndpoint` | the three ways this firmware uses IN endpoints | instance for TLC |
| `UdpInEndpointProofs` | | theorems |
| `UdpControl` | endpoint 0 of `udp_device.c`, and the host | component |
| `MCUdpControl` | `UdpControl` as this firmware uses it | instance for TLC and the proofs |
| `Udc` | `udc.c` with enabling and disabling of the classes | composition: controller, four interfaces, job table |
| `Endpoint0Proofs` | | theorems about `Udc` and `MCUdpControl` |
| `ByteStream` | what one direction of the serial port promises | abstract specification |
| `UdiCdcTx` | the sending half of `udi_cdc.c` | component, implements `ByteStream` |
| `UdiCdcRx` | the receiving half of `udi_cdc.c` | component, implements `ByteStream` |
| `MCUdiCdcTx`, `MCUdiCdcRx` | the two halves, each with names of its own | instances for TLC and the proofs |
| `UdiCdcComm` | the notifications of `udi_cdc.c` | component |
| `UdiHidKbd` | `udi_hid_kbd.c` | component |
| `MCInterruptIn` | extends `UdiHidKbd`, instantiates `UdiCdcComm` | instance for TLC and the proofs |
| `UdiProofs` | | theorems about `MCInterruptIn`, `MCUdiCdcTx`, `MCUdiCdcRx` |
| `Rates` | `conf_clock.h` and the arithmetic of rates | constant module |
| `Clocks` | what the firmware runs of `sysclk.c`, `pmc.c`, `pll.h`, `sleep.c`, access by access | component |
| `UdpPower` | power states of `udp_device.c` with `sleepmgr.h` and `sleep.c` | composition: driver, sleep manager, clocks, a main program that sleeps, and the bus |
| `UdpPowerProofs` | | theorems |

`PROJECT.json` maps every definition to the lines it translates.

### Conventions

* An action is a piece of code that nothing else can come between. In the
  drivers that is an access to shared memory or a call into the kernel; in the
  firmware, a run of the interrupt routine (one core, interrupts do not nest),
  a critical section of the main thread (`cpu_irq_save` to `cpu_irq_restore`),
  or one access of the main thread outside of them. Where the hardware can act
  within the interrupt routine in a way that matters, the routine is two actions
  (`isr = "halt"`, `"enable"`).
* Content is a version number: the n-th store into a line gives it version n.
  Data of transfers are counted in units; `PktSize` units fill a packet.
* Names that begin with a definition's own name and a word more
  (`SubmitAtHead` next to `SubmitLine`), under a comment "Mutant", are the same
  operator with a plausible mistake in it. They are no part of the model; each
  shows that a property notices that mistake.
* History variables, marked so at their declaration, record what happened and
  occur in no guard.

### How state and actions correspond

**MemLcdUsb.** `mem`, `shown` and `queue` are the versions in `video_memory`, on
the device and in submitted URBs; `pending` and `upd`/`i`/`snap` the deferred
work item and the loop of `ls027b7dh01_update`, which copies line `i` in one
action (`CopyLine`) and submits it in another (`SubmitLine`), so that stores come
in between. `BeginOp`/`StoreLine`/`Invalidate` are the drawing calls, which store
and then call `schedule_delayed_work`; `PageFault`/`MappedStore` the mapped
stores, the first of which on a page schedules. `AllocFails`, `SubmitFails`, `UrbError` are the
exits of the loop and the callback's error. `res` holds what probe acquired and
nobody has given back.

**MemLcdSpi.** The same drawing side; the update formats into `buf` line by line
(`FormatLine`) and sends the whole of it (`SendFrame`). `remove` is one action per
thing it releases.

**MemLcdFw.** `Blank` and then `Copy`/`SendLine` for ever are main; a line is
copied in two halves, between which `IsrReceive` may store a packet.
`IsrReceive` is the routine with the whole of `vendor_out_ep_callback` and the
next `udd_ep_run`. The endpoint is that of `UdpOutEndpoint` reduced to what the
display sees of it. `fb` has the lines that the array has; `beyond` collects the numbers of
lines behind it at which `memcpy` has stored.

**UdpOutEndpoint, UdpInEndpoint.** CSR flags, IMR bit, packets in the FIFO, and
the fields of `udd_ep_job_t`. Each function of the driver that reaches the
endpoint is an action (or an operator on the endpoint's record): the interrupt
routine (`IsrOut`, `IsrIn`, `IsrStall`, `IsrReset`), allocation and free, halt in
two steps (`udd_ep_abort`, then `udd_ep_set_halt`), clear halt, wait for clear,
and `udd_ep_run` from the main thread step by step.

**UdpControl.** `c` is the driver's request, state and counters, `csr` and `fifo`
the registers, `host` the request the host is carrying out and how far it is.
What a request means is left to `udc_process_setup`; a request is refused, or
accepted with a buffer and perhaps a callback. An accepted IN request may have nothing to send,
as the vendor interface's request 0 (`usbVendorDev.c:50`, `udi_vendor.c:124`), whose data stage then
ends on the `b_shortpacket` of the request before. A SETUP that is not 8 bytes long
(`udp_device.c:1005`) ends like a refused request and counts as one. `MCUdpControl` fixes one
constant, `Prompt`: a packet is served before the next SETUP comes. Section 6 has what happens
otherwise.

**Udc.** A request is one step that maps the device `d` to what the routine
leaves, through the loops over the four interfaces.

**UdiCdcTx, UdiCdcRx.** `tx` and `rx` are the static variables `udi_cdc_tx_*` and
`udi_cdc_rx_*`, `ep` what the endpoint's driver keeps between calls, reduced to
what `udi_cdc.c` can tell apart (`UdpInEndpoint` and `UdpOutEndpoint` have the
rest). A buffer is 64 bytes, one packet, since `conf_usb.h:167` defines
`UDI_CDC_LOW_RATE`. The main thread steps through `putc`/`write_buf` and
`getc`/`read_buf` with `pc`: a critical section is a step, and so is each access
between two of them (`Test`, `Take`, `StorePos` of `UdiCdcRx`). The interrupt routine
runs `udi_cdc_data_sent`, `_data_received` and `_data_sof_notify` whole. The n-th byte is
the number n; a value of 9 bits is two bytes. `room` says that a packet still fits the buffer of
a transfer that was aborted: the driver copies what it swallows after a halt into it. The last
configuration is one that finds at most `MaxRead` bytes read, which bounds the model.

**ByteStream** knows a link, bytes put, bytes on their way, bytes that arrived. The
refinement mappings are at the end of the two modules: on their way are, in
order, the bytes in the transfer, in the buffer set aside, and in the selected
buffer (`UdiCdcTx`); the unread part of the selected buffer, the other buffer when it
is received, and the packets in the banks (`UdiCdcRx`). The link is up while the
endpoint works and knows of the transfer that the flags say is going on. A half that forgot a
transfer would therefore look like a link that went down, from which `ByteStream` asks nothing;
so `SendsInOrder` and `ReceivesInOrder` also say that the link does not go down by itself
(`StaysUp`). A link may also be *astray*: nothing is promised of the bytes on their way, only
that what has arrived has arrived. The sending half never is. The receiving half is while
thread and interrupt routine are out of step (`InStep` is false), or bytes of a configuration
before are left in the second buffer (`Leftover`); its `StaysUp` says that only the events do
this that section 6 lists, and each of them is a step of the model. `ByteStream!Spec` and its `Progress` are properties of their own, as the first
is proved and the second is not.

**UdiHidKbd.** `report`, `valid`, `ongoing` are the variables of the file; an application
call is one critical section and one action. The job of the endpoint is in one of
four states: none, sent (in the FIFO), taken (the host has it, the interrupt is
pending), held (left on by a halt).

**UdpPower.** `bus` is what the host does with the line, `flags` and `enables` the line
events in `UDP_ISR` and `UDP_IMR` (the three wake-up events are one), `idle` is
`udd_b_idle`, `locks` the counters of the two modes the driver locks. `pc` walks the main
program through `udd_detach` (`test`, `unlock`, `store`: it runs in no critical section when
called by `udc_detach`) and through `sleepmgr_enter_sleep` and `pmc_sleep` (`decide`, then
`toWfi`, `wfi` or `toWait`, `wait`, `woken`); `masked` is the interrupt mask. The main program
is one that calls `sleepmgr_enter_sleep` when idle, as `udc.h:301` suggests; `main.c` never
does. With `Prompt`, a bus that falls silent or ends a reset, which takes
milliseconds, finds no line event waiting.

The main program begins in `boot`, with the clocks of the reset; `enabling` waits for the
clock of USB in `udd_enable`, `saving` and `restoring` run the routines of `sleep.c`, and
`saved` is the record that `pmc_save_clock_settings` fills. The flash's wait states are
switched by `FallAsleep` and `WakeUp`, the two halves of `pmc_enable_waitmode`.

**Clocks.** A routine is the sequence of its register accesses and waits; the operators
(`SysclkInit`, `SysclkEnableUsb`, `SaveClocks`, `RestoreClocks` and those they call) build
the sequence as the code's `switch`es and `if`s do, and `todo` is what remains of it. Each
access is a step, and the hardware (`Settle`) makes oscillators and PLLs stable, and the
master clock follow `PMC_MCKR`, at any time in between. A wait is a step that is not
enabled before its condition holds; `Poll` is one that gives up (`PMC_TIMEOUT`).

**Rates.** The formulas of `conf_clock.h`, `pll.h`, `sysclk.h`, `system_sam4s.c`,
`spi.c` and `pmc.h` as operators; their assumptions, which TLC evaluates in the run of
`UdpPower`, relate what several files compute from one crystal.

**Display.** Per cell, the version given and the version shown; a step may give any cell a
newer version and show any version between the one shown and the one given before the step.
The cells are lines for the drivers, which map `mem` and `shown`; for the firmware they are
the halves of lines on the panel, and what was given is what the host has sent (`version`).

**UdiCdcComm.** `state`, `msg`, `ongoing` are `udi_cdc_state`, the message's value and the
flag. `call` walks through `udi_cdc_ctrl_state_change` and `_notify`: the critical section
that changes the state (`SignalLine`, `SignalError`), then `Test`, `Fill`, `RunMessage` and
`Store`, between which the interrupt routine may run. `IsrSent`, and `Abort` for what
frees, halts or resumes the endpoint, run `udi_cdc_serial_state_msg_sent` whole. `call_nohalt()` of
`udd_ep_clear_halt` passes no arguments, so that the message which that callback sends next may go
to any endpoint (`MessageAstray`): to this one, to none, or to one of which this model only knows
that its transfer is over some time (`IsrAstray`). The keyboard's callback has no use for its
arguments.

**MCInterruptIn** picks one of the two classes with an interrupt IN endpoint in its initial
state: they share no state, so that the product of their states would add nothing.

**Msb2Lsb.** The 256 entries, copied, with the assumption that entry b is b with
its bits reversed, which TLC evaluates.

## 3. Runs

| run | bounds | shows | states |
|---|---|---|---|
| `MemLcdUsb` | 2 lines of one page, 1 drawing thread and mapped stores, 2 versions, 2 URBs, every fault | no store forgotten, buffers accounted for, implements `Display`, every store shown | 107 000 |
| `MemLcdSpi` | 2 lines, 2 drawing threads and mapped stores, 2 versions, failing transfers | no store forgotten, implements `Display`, every store shown | 207 000 |
| `MemLcdFw` | 3 lines, packets for two of them, for the line behind the last and for one beyond, whole and short, 2 versions | nothing stored behind the frame buffer but in one line, no line lost or mixed, implements `Display`, the last line is shown | 73 000 |
| `UdpOutEndpoint` | 2 banks, buffers of 2 packets | banks in step until a bus reset, no job masked; from the interrupt routine, every buffer comes back | 52 000 |
| `UdpInEndpoint` | packets of 2 units, buffers of 0 to 5, three uses | bank count, bytes in order, transfers end (so that every buffer comes back) | 9 000 |
| `UdpControl` | packets of 2 units, requests of 0 to 4 | data complete, stages end together, stalls and callbacks belong to their request, requests end | 288 000 |
| `Udc` | counters modulo 4 | nothing left on or running where it is off, counters pair up, an accepted configuration works | 45 000 |
| `UdiCdcTx` | buffers of 2 bytes, writes of 1 and 3, 5 bytes, frames modulo 2, empty packets every 2 frames | implements `ByteStream`, its link stays up, every byte is sent | 171 000 |
| `UdiCdcRx` | buffers of 2 bytes, 2 banks, characters of 1 and 2 bytes and reads of 3, 3 bytes, configurations until one byte is read | implements `ByteStream`, its link stays up and astray for the known reasons only, a thread that waits for bytes gets them | 347 000 |
| `InterruptIn` | keyboard: 3 keys and 1 modifier for 2 slots; serial state: 2 lines, 3 errors | report packed and the last one arrives; an error is told once, the lines arrive as they are | 83 000 |
| `UdpPower` | counters modulo 4; all accesses of the clock routines | locks match the state, no WAIT while the bus is in use, the clock is never too fast or absent and is back before anything runs on it, the state follows the bus | 949 |

`TypeOK` of `UdpControl`, `UdiCdcTx`, `UdiCdcRx` documents the records and is not run: their
other properties say more (that of `UdpControl` is proved). `TypeOK` of `MemLcdUsb` is a part
of the run's `BuffersAccounted`, that of `Udc` of `CountersPair`, that of `UdiCdcComm` of
`ErrorsToldOnce`. The runs of `UdpControl`, `UdiCdcTx` and `UdiCdcRx` go through their `MC` modules.

One more run shows a disagreement between the code and what it says of itself
(`findings` in `PROJECT.json`): `MemLcdUsb_disconnect` (disconnect finds no device).
Others are in section 6.

Why the bounds are enough. *Two versions* tell old from new; every property
compares two. *Two lines* give the update loop a line behind and a line ahead of
a store. *Two URBs* let a new one be queued behind an old one and make the pool
run out. *One drawing thread* next to the mapped stores is two actors storing
concurrently; `Scheduled` of a second thread adds nothing that `drawing # {}`
does not, and the theorems hold for any number. *Units*: buffers of 0 to 5 units
of packets of 2 are an empty one, one short, one full, full and short, two full,
two full and short: every case that `buf_size % size` tells apart, with more
packets than banks; requests of 0 to 4 units have all of these but the last.
*Buffers of 2 bytes* are empty, short and full; 5 bytes sent fill both and start a
third time, 3 received are packets enough for both buffers and a bank, and for two receptions
in a row next to a read that wants more than a buffer holds. *Configurations until one byte is
read* still come between any two steps of a call that has read nothing or one byte. *Frames modulo 2*
tell a frame from the next one, and one that has come round from the same.
*Counters modulo 4*: wrapping below zero shows at any width.
*Two lines and three errors* of the serial state are all that the code raises. The 949
states of `UdpPower` are few because the program fixes the order of the accesses; what
varies is when the hardware settles and when the bus changes.

`CHECK_DEADLOCK FALSE` stands where the system really stops: an unplugged device,
or all versions used up (`MaxVersion` is a bound of the model).

### Fairness

* `MemLcdUsb`, `MemLcdSpi`: a drawing call that began returns, the delayed work's
  timer expires and the worker runs, the host controller gives every URB back
  (with success or an error). Nobody has to draw, probe or unplug.
* `MemLcdFw`: the main program is never blocked (`spi_write` ends when the word
  before has left, which the SPI does without anybody's help), and a pending
  interrupt is served. The host has to send nothing.
* `UdpInEndpoint`, `UdpControl`: a pending interrupt is served, the main thread
  goes on, and the host keeps polling what it has begun. It may still give a
  request up or reset the bus at any time, and no fairness makes it do so.

* `UdiCdcTx`, `UdiCdcRx`, `UdiHidKbd`, `UdiCdcComm`: a pending interrupt is served, and a call
  for the serial state that began goes on. For sending, the host
  also starts frames and asks for packets; the application need not call. For
  receiving, a call that began goes on, as the main thread is not blocked; the
  host has to send nothing.

* `UdpPower`: oscillators, PLLs and the master clock settle (`sleep.c` and `pll.h` wait for
  them without end); a pending interrupt is served unless interrupts are disabled, and a main
  program that began to sleep or to detach goes on; sleep ends with a bus event, and the
  host has to do nothing.

All of it is weak fairness: no guard is switched off and on again by somebody
else while an action waits for its turn.

## 4. Proofs

| theorem | states | for |
|---|---|---|
| `MemLcdUsbProofs!UsbTypes`, `BuffersSafe` | `TypeOK`, `BuffersAccounted` | any number of lines, pages, threads, versions and URBs, any set of faults |
| `MemLcdUsbProofs!StoresNotForgotten` | `NoForgottenLine` | same |
| `MemLcdUsbProofs!DriverIsADisplay` | `ImplementsDisplay` | same |
| `MemLcdSpiProofs!SpiTypes`, `SpiStoresNotForgotten`, `SpiIsADisplay` | `TypeOK`, `NoForgottenLine`, `ImplementsDisplay` | any number of lines, threads and versions, with failing transfers or without |
| `MemLcdFwProofs!FwTypes`, `FwIsADisplay`, `LinesAreKept` | `TypeOK`, `ImplementsDisplay`, `NoLineLost` | any height, any set of line numbers and packet sizes, any number of versions |
| `UdpOutEndpointProofs!OutTypes`, `BanksSafe` | `TypeOK`, `BankInSyncUntilReset` | one or two banks, buffers of any size, both behaviours of the hardware at a bus reset |
| `UdpOutEndpointProofs!TransfersListen` | `ArmedJobListens` | same |
| `UdpOutEndpointProofs!IsrRunsAnswered` | `IsrRunIsAnswered`, `HaltedJobAwaitsClear` | same |
| `UdpInEndpointProofs!InTypes`, `BanksAreCounted`, `HostGetsTheStream` | `TypeOK`, `BankCounts`, `StreamInOrder` | one or two banks, packets and buffers of any size, if `FromIsr` |
| `Endpoint0Proofs!UdcTypes`, `NothingLeftOn`, `TransfersOnEnabled` | `TypeOK`, `OffMeansOff`, `RunsOnEnabled` | counters of any width, any host |
| `Endpoint0Proofs!GoodHostPairs`, `AcceptedIsOn` | `CountersPair`, `AcceptedMeansAllOn` | counters of any width; what holds for a good host only says so itself |
| `UdpPowerProofs!PowerTypes`, `LocksFollowState` | `TypeOK`, `SleepsOnlyInSuspend` | lock counters of any width, if `Tame` |
| `UdpPowerProofs!ClocksStaySound` | `ClocksSound` | any bus and any lateness of line events, if `Patient` |
| `Endpoint0Proofs!CtlTypes`, `CtlDataComplete`, `CtlPhaseEndsTogether`, `CtlStallsOnlyItsRequest`, `CtlCallbackOnce`, `CtlSentInDataPhase` | `TypeOK`, `DataComplete`, `PhaseEndsTogether`, `StallsOnlyItsRequest`, `CallbackOnceAfterHandshake`, `SentInDataPhase` | packets of any size, requests of any length below 2^16, a host that gives requests up or not, accepted requests with nothing to send included; for `MCUdpControl`, that is with `Prompt` |
| `UdiProofs!KeyboardTypes` | `TypeOK` of the keyboard | any keys, modifiers and number of slots |
| `UdiProofs!TellsErrorsOnce` | `ErrorsToldOnce` of `UdiCdcComm` | with the race of section 6 or without |
| `UdiProofs!MarkedErrorsToldOnce` | `ErrorsToldOnce`, the types included | without the race |
| `UdiProofs!SendingStaysUp`, `SerialPortSends` | `StaysUp` of `UdiCdcTx`, `SendsInOrder` | buffers, writes and numbers of bytes and frames of any size, without `Spills` |
| `UdiProofs!ReceivingStaysUp`, `SerialPortReceives` | `StaysUp` of `UdiCdcRx`, `ReceivesInOrder` | buffers, reads and numbers of bytes of any size, one bank or two; every order of receptions, halts and configurations |

Some theorems carry an assumption beyond those on constants. Each excludes known deviations
of section 6, or a use of the code that this firmware does not make; where it excludes a
deviation, TLC shows that the theorem is false with it:

* `FromIsr` (`InTypes`, `BanksAreCounted`, `HostGetsTheStream`): transfers are run by the
  interrupt routine alone and not by the callback of an aborted one, and the host does not
  reconfigure with packets in the FIFO. That is the data IN endpoint of the serial port, where
  `udi_cdc_tx_send` is called by `udi_cdc_data_enable`, `udi_cdc_data_sent` and the start of
  frame only.
* `Tame` (`PowerTypes`, `LocksFollowState`): a line event is served before the bus changes once
  more, and *late*, *race* and *unclocked* do not happen.
* `Patient` (`ClocksStaySound`): *unlocked* and *impatient* do not happen, that is, every wait
  for a clock ends when the clock is there. Nothing is assumed of the bus.
* `Deviations = {}` (`MarkedErrorsToldOnce`): the flag is stored before the message is over.
* `~Spills` (`SendingStaysUp`, `SerialPortSends`): the application does not store the byte that
  `udi_cdc.c:984` lets it store behind the buffer.

`ReceivingStaysUp` and `SerialPortReceives` need none: the deviations of the receiving half are
steps of its model, and the theorems say what is left of the promise with them.

Assumed: only the named assumptions on constants (`HeightAssumption`,
`PageOfAssumption`, `BoundsAssumption`, `BanksAssumption`, `JobSizeAssumption`,
`SwitchAssumption`, `ByteAssumption`, `VersionAssumption`, `SizesAssumption`,
`ControlAssumption`, `WritesAssumption`, `ReadsAssumption`, ...), all of which TLC evaluates in
the runs. Modules that are instantiated and not extended leave theirs to the module that does.

The argument, in each case an inductive invariant:

* *MemLcdUsb.* `TypeOK` needs `BuffersAccounted`, which keeps the count of buffers
  natural. `NoForgottenLine` is not inductive: a mapped store without a fault is
  noticed by nobody, and a store between copy and submission makes the URB old
  when it leaves. What is missing is that a page that can be written unnoticed
  has an update pending (`WritableIsScheduled`), and that a copied line is current
  or a later update is due (`SnapCurrentOrDue`). `PipelineOrdered` says that the
  versions of a line never decrease from the device through the queue and the
  copied line to the memory; it gives `ImplementsDisplay`, since only the head of the
  queue is ever shown: every step of the driver is one of `Display` or leaves it alone.
* *MemLcdSpi.* The same pipeline is shorter (panel, frame buffer, memory), and `remove`
  runs beside it: what has to be added is that a line formatted so far is current or
  its successor due (`BufCurrentOrDue`), that who has lines to store is within a drawing
  call, and that nothing happens before probe.
* *MemLcdFw.* That nothing is stored further behind than one line is the test of the callback and
  the range of a byte. Versions never decrease along panel, `lcd` line, frame buffer, receive
  buffer, banks and host. While the main program copies a line, which halves of `lcd` take
  part depends on its `pc` (`Copied`), and until it has blanked the frame buffer the panel
  shows nothing yet: `main` overwrites lines that were received already, so that the
  order of frame buffer and panel holds only afterwards. `NoLineLost` needs more than that a
  line is stored or in a bank (`CalmInv`): an empty packet whose flag has outlived its
  endpoint stores the old content of the receive buffer once more, so such packets have to be
  ahead of the new ones (`BanksGood`), a line counts as stored only when no packet
  left can change it, and as waiting only in the last packet for it (`Kept`).
* *UdpOutEndpoint.* `BankInSync` says something only when both banks are full; the
  invariant `BanksTracked` says where the job's bank and the hardware's next bank
  are for every number of packets (with none, they are the same; with one, the
  job's is the packet's and the next is the other). `ArmedJobListens`
  becomes inductive when the interval between a bus reset and its interrupt,
  in which the endpoint is off, is set apart (`ListenInv`).
  `IsrRunIsAnswered` needs that a buffer is given only to a job that is on *and*
  has a callback, that there is no job between the two steps of a halt, and that
  no job for the end of a transfer is on at a halted endpoint.
* *UdpInEndpoint.* `StreamInOrder` speaks of the packet that is ready; inductive is that the
  packets in the FIFO lead from the position that the host wants to the one the driver
  loads next, each beginning where the one before ended (`Linked`). The latter is the
  rest of the job or the beginning of the next one, and that differs
  between a job that is loaded and one that is over, so that the invariant says which of
  them are (`Settled`). The count of banks is the number of packets and one more while a
  sent packet is not yet seen. The lemmas follow the functions: `InSentFacts`,
  `RunFacts`, `FinishFacts`, `EndReachedFacts`, `RefillFacts` say what each of
  them keeps of an endpoint at work, and `IsrSentFacts` composes them.
* *UdpPower.* That the lock counters match needs to know that no suspend waits for a driver
  that has left IDLE, and that it will hear of the next activity (`Suspended`): a second
  suspend would unlock twice. `Stages` says what the main program's position takes for
  granted (that WAIT is only entered out of IDLE). For the clocks' types, `Rest` and
  `Routines` say that every routine put together of accesses consists of known ones.
* *Clocks.* `ClocksSound` is about every register access, so the invariant `ClkInv` is too:
  for each of the four routines (set-up, clock of USB, save, restore with PLL B and without) it
  says what oscillators, selection and master clock are before its k-th access (`BootAt`,
  `UsbAt`, `SaveAt`, `RestoreAt`), `todo` being the routine from the k-th access on (`From`).
  What the accesses are is computed from the operators that concatenate the routines, by lemmas
  that give each of their elements. The master clock may still be the one before the last
  write of `PMC_MCKR` until the wait behind it has ended (`Lags`).
* *UdpControl.* A request that the driver has taken over is in one of seven phases (`Phase`):
  refused, sending, awaiting the host's handshake, taking, handing shake, over in either
  direction. Each says which flags may be set and how far host and driver are; `SendsData`
  carries the arithmetic of the last packet (the host has `nb` without the packet that waits;
  a short packet, or the whole of `wLength`, ends the data for both). Before the driver has
  taken a request over nothing else waits in the endpoint (`AwaitsService`), which is what
  `Prompt` buys. Lemmas give what each routine of the driver leaves (`FillEffect`,
  `OutOfPhaseEffect`, ...), then each action keeps the invariant.
* *UdiHidKbd.* The array of keys is packed and without duplicates; the loops of `_up` and
  `_down` end at the first slot that is free or has the key, and that there is a first one is
  what the least element of a set of slots needs (`MinIsLeast`, from the library's
  well-foundedness of <). For the flags, a disabled endpoint has no transfer, as
  `udi_hid_kbd_enable` clears `ongoing` without a look at it.
* *UdiCdcTx.* `TxGood`: a transfer that is on has its flag set and a working endpoint, and a
  buffer that is not selected is empty unless it is being sent or set aside. Each
  action is then shown to put bytes at the end, take them off the front, lose a middle
  part with the link down, or leave all of them alone; `MiddleLost` says that what is left is
  what `ByteStream` allows.
* *UdiCdcRx.* `RxGood` says that counts fit their buffers and a transfer that is on has a working
  endpoint; it holds astray or not, so that a link that comes up again starts from sound
  buffers. The thread works with copies it took in a critical section; `RxKnows` says what they
  are still worth at its test: position and selection are as they were, but for one exchange
  since its look, and that leaves it a buffer it has read to the end, so that the test finds
  nothing. While the port is not astray (`RxInStep`, the model's `InStep`) each step puts bytes
  at the end, takes them off the front or leaves them alone (`RxMoves`), and keeps it so but for
  the named events (`RxStays`); while it is, only the types are asked for (`RxStrays`).
* *UdiCdcComm.* `ErrorsToldOnce` needs to know that a message is filled and handed over only
  while none is under way (`OneMessage`), and that an error in the state was not told yet but
  between a message being taken and its callback (`NotTold`).
* *Udc.* `OffMeansOff` is inductive only together with the device being sound
  (transfers on enabled endpoints, the serial port only with both of its
  endpoints): a reset takes down endpoint by endpoint, by interface, and that
  leaves nothing on only if nothing was on elsewhere. `OffEffect` says what
  disabling one interface leaves; `ResetEffect` composes the four. The counters
  pair up (`Paired`) because without a halt no interface is refused (`AllAccepted`), so that a
  good host leaves all endpoints on or all off; what an accepted interface adds
  (`EnableAdds`) is then the same for every host, and gives `AcceptedMeansAllOn`.

Three mistakes of the models came to light in the proofs and are corrected: two `CASE`s with
arms that overlap (`UdpControl!Answered`, and the mapping of `UdiCdcTx`), where TLC took the
first and TLA+ leaves the choice open; and the forgotten transfer that passed for a link gone
down, which `StaysUp` now excludes.

Only model-checked:

* liveness (`EventuallyShown`, `LastLineShown`, `TransfersEnd`, `PowerFollowsBus`,
  `LastReportArrives`, `LinesArrive`, `SendsInTheEnd`, `ReceivesInTheEnd`), since temporal
  reasoning under fairness is out of the provers' reach. Every invariant, action property and
  step refinement of the passing runs is proved, under the assumptions listed above;
* `TypeOK` of `UdiCdcTx` and `UdiCdcRx` is neither run nor proved as it stands, for it bounds
  the numbers of bytes; the proofs have their own, `TxGood` and `RxGood`;
* endpoints outside of `FromIsr`, those of the keyboard and of programs that run transfers from
  the main thread.

## 5. What is assumed of the hardware and of the host

The repository has no model of the UDP peripheral; what the modules say of it is
marked external in `PROJECT.json` and taken from how the driver uses it:

* a bus reset clears all CSR and IMR, and the FIFOs; whether it rewinds the bank
  pointer is a constant (`Rewinds`), the theorems hold both ways;
* `UDP_RST_EP` (`udd_reset_endpoint`) empties a FIFO and leaves CSR flags alone;
* a SETUP packet clears FORCESTALL and TXPKTRDY of endpoint 0;
* an accepted packet waits in its bank until its flag is cleared.

And of the rest of the firmware: `_ASSERT_ENABLE_` is not defined, so that
`Assert` checks nothing; the class callbacks of OUT endpoints never start a
transfer after an abort (that of the keyboard's IN endpoint does, and is modelled);
`main` calls none of the CDC and HID functions, so that
transfers from the main thread stand for a program that does (the reason why
`threaded` and `Use.thread` exist).

## 6. Known deviations that are not kept as runs

Found while modelling; each can be reproduced with the constants given.

* **A failed submission leaves lines stale.** `memlcd_usb.c:176`: the update
  returns with the rest of the frame unsent and nothing scheduled, although
  line 77 calls a region "invalid and need for update". `MemLcdUsb!InvalidUntilUpdated`,
  `Faults = {"submit"}`.
* **Packets swallowed after a halt.** `udd_ep_set_halt` (`udp_device.c:797`) leaves the
  interrupt on, `udd_ep_clear_halt` runs no job: packets are acknowledged that no
  transfer receives, against `udd.h:273`. `UdpOutEndpoint!NothingSwallowed`.
* **A job that is over receives.** `udp_device.c:1494` does not look at `busy`.
  `UdpOutEndpoint!StoppedMeansStopped`, against `udd.h:326`.
* **A transfer on a halted endpoint.** `udd_ep_run` tests the halt outside its
  critical section (`udp_device.c:847`): `UdpOutEndpoint!HaltedJobAwaitsClear` without the
  condition `~threaded`.
* **A callback lost.** `udp_device.c:861`: an abort between the claim of a job and the
  store of its callback calls the callback of the job before, although `udd.h:301`
  promises one for every transfer. `UdpOutEndpoint!EveryRunIsAnswered`.
* **Nothing to answer with.** The vendor interface accepts an IN request 0 and sets no payload
  (`usbVendorDev.c:50`, `udi_vendor.c:124`). `udd_ctrl_in_sent` finds nothing left to send and
  tests `b_shortpacket`, which is what the request before has left (`udp_device.c:1054`,
  `:1076`): if that ended with a short packet, the driver waits for the handshake while the host
  still asks for data. `UdpControl!PhaseEndsTogether` and `TransfersEnd` except this request
  (`Unanswered`) and fail without the exception.
* **SET_INTERFACE with a setting that does not exist** disables the interface and fails
  (`udc.c:905`); disabling it again takes a counter of the CDC class below zero, which
  `udi_cdc.c:358` asserts never happens. `Udc!CommAsserted`.
* **Removal in the wrong order.** `memlcd_spi.c:239` cleans the deferred work up before the
  framebuffer is unregistered: a drawing call schedules it again.
  `MemLcdSpi!CleanupIsFinal`.
* **Banks out of step after a bus reset.** `udp_device.c:504` does not touch the bank of
  an OUT job: `UdpOutEndpoint!BankInSync` with `Rewinds = TRUE`.
* **A job set up under the interrupt routine.** `udp_device.c:861`: an acknowledgement
  between the claim and the size ends the new job with the old counters.
  `UdpInEndpoint!EveryRunIsAnswered` with a use of two banks, `thread` and not
  `disturbed`.
* **The bank count wraps.** `udp_device.c:741` resets it, not the flag of a packet that
  was taken: `UdpInEndpoint!BankCounts` with `Reconfigure = TRUE`.
* **Late service of endpoint 0.** `udp_device.c:1261` serves SETUP first: with
  `Prompt = FALSE` the flag left over violates `UdpControl!SentInDataPhase`.
* **Callback of a request that was given up.** `udp_device.c:999` calls it, against
  `udc.c:593`. `CallbackOnceAfterHandshake` does not count these.
* **A configuration that failed half-way** is taken down as if it had been set up
  (`udc.c:838`): `CountersPair` without `good`, for the data interface.
* **A line behind the frame buffer.** `usbVendorDev.c:67` tests `>`, and `MemLcd.c:32` declares
  `DISPLAY_HEIGH_DOTS` lines: a packet for line number `DISPLAY_HEIGH_DOTS` is stored in the
  50 bytes behind the array. `MemLcdFw!StoresInside`, which says that `beyond` stays empty.
* **A line that makes the display deaf.** For any greater number the callback returns
  (`usbVendorDev.c:67`) before it starts the next reception (`:74`), and nothing is received until
  the next configuration. `NoLineLost` and `LastLineShown` speak of hosts that name lines of the
  panel (`calm`).
* **A callback without arguments.** `udp_device.c:825` calls the waiting callback as
  `call_nohalt()`. `udi_cdc_serial_state_msg_sent` has an undefined `ep` then and gives it to
  `udd_ep_run` (`udi_cdc.c:569`) if a line has changed meanwhile: the message goes to whatever
  endpoint that is, or to none. If it is an OUT endpoint, what the host sends there is written
  over the message; that is outside of the model. `ErrorsToldOnce` and `LinesArrive` hold with
  it, the latter unless the message was lost (`lost`).
* **A display that does not listen.** `usbVendorDev.c:24` ignores that the first
  reception was refused, as it is on an endpoint that was halted in the
  configuration before: `AcceptedMeansAllOn` without `good`.
* **A byte behind the buffer.** `udi_cdc.c:984` adds the room of both buffers, the one being
  sent included, and `udi_cdc.h:422` says that a character can be sent: with that one
  short and the selected one full, `udi_cdc_multi_putc` stores at index `UDI_CDC_TX_BUFFERS`.
  `UdiCdcTx!StoresInside` with `Spills = TRUE`.
* **Power states.** Four cases break `UdpPower`; the first three are members of the constant
  `Deviations`: *race*, `udd_detach` (`udp_device.c:646`) unlocks in no critical section and a
  suspend served in between unlocks again (`SleepsOnlyInSuspend`); *late*, a line event
  pending at `udd_disable` is served after it, and puts a disabled device to IDLE with a lock
  that nobody gives back (`SleepsOnlyInSuspend`); *unclocked*, `udd_detach` in SUSPEND writes
  `UDP_TXVC` with the clock off, against the comment at `udp_device.c:447`, and the device
  may stay on the bus (`TypeOK`); with `Prompt = FALSE`, the routine goes on in spite of the
  clocks when a suspend is pending (`udp_device.c:442`), serves the resume before it, and
  the processor falls into WAIT in IDLE (`SleepsOnlyInSuspend`).
* **The clocks' last wait.** `sleep.c:171` says "Waiting all restored PLLs ready"; the loop
  ends with the first of the two. Interrupts, and the program, may find USB without its
  PLL: `UdpPower!ClocksSound` with `Deviations = {"unlocked"}`. Were no PLL on
  before, it would not end.
* **A master clock that is late.** `pmc.c:116` gives up after `PMC_TIMEOUT` polls, and `sleep.c`
  ignores the error: it goes on to switch off what the master clock still comes from.
  `UdpPower!ClocksSound` with `Deviations = {"impatient"}`.
* **Notifications that stop.** `udi_cdc.c:527` stores the result of `udd_ep_run` as the flag
  after the callback of that transfer may have cleared it; the flag then stays set, and no
  message is sent any more, not after a new configuration either (`udi_cdc_comm_enable` resets the
  state and the message only). `LinesArrive` with `Deviations = {"race"}`.
* **Errors that are never told.** `udi_cdc.c:560` takes the errors out of the state when a
  message is over, those included that occurred after it was filled.
  `UdiCdcComm!ErrorsArrive`.
* **Disabling is not reported.** `udi_vendor.c:115` calls the application only for
  alternate setting 1, which does not exist, against `udi_vendor.h:287`.
  `MemLcdFw!DisableExtCalled`.
* **Receiving on the serial port.** Three cases lead the link of `UdiCdcRx` astray and one loses a
  packet. All are steps of the model, and `ReceivesInOrder` says that there are no others: a
  configuration that finds bytes in the second buffer, since `udi_cdc.c:344` resets the
  count of the first only, and they are read again; a configuration while the thread is between
  its look and its last use of what it found (`:882`, `:891`), which stores or reads a position
  from before it; two receptions while the thread compares (`:882`) with a buffer that they have
  filled again. And a halt between two transfers turns the interrupt on, so that a packet is
  acknowledged before the next transfer runs: the link is down until that.
* **A serial port that has stopped.** `udi_cdc.c:767` ignores that `udd_ep_run` refused, and
  `udi_cdc.c:680` and `:644` that a transfer was aborted: the flag stays set, and
  nothing is sent or received until the next configuration. The link of `ByteStream`
  is down in these states, so that the properties ask nothing of them.
* **A report refused at a halted endpoint** is not tried again before the next key
  (`udi_hid_kbd.c:358` clears the flag first): `LastReportArrives` without `lost`. Keys pressed
  and released within one transfer are never reported.

## 7. What is not modelled

* The line requests of the serial port (coding, control signals) and the requests of the HID
  class (idle rate, protocol, LEDs): each stores a value or calls the application, which
  does nothing in this firmware; to the driver they are requests of `UdpControl`.
* In `UdiCdcRx` the `udd_ep_run` of the main thread is one step; `UdpOutEndpoint` has it step
  by step.
* Remote wake-up (`conf_usb.h` declares none) and BACKUP. The models other than `UdpPower` begin with the device attached and awake.
* Requests that change no state of the controller (descriptors, strings, status).
* Time: watchdog, SPI timeouts, the delay of the deferred work.
* The kernel's side of a mapping after removal, and plugging a device in again.
* Register set-up (pins, SPI, watchdog), descriptors, start-up code, CMSIS: no control of its
  own. `SystemInit` of `system_sam4s.c` is never called by `Reset_Handler` of
  `startup_sam4s.c`; only its flash arithmetic is in `Rates`.

`PROJECT.json` maps a small part of the repository's lines, and no honest model maps much more.
Nearly half of them are headers of register addresses and bit masks, CMSIS with its
signal-processing library and compiler intrinsics among them; most of the rest are
ASF sources that this firmware is not built with or never calls (the routines of `pmc.c` for
other clock sources, `pio.c`, `sysclk.h` of other boards, the examples of other
microcontrollers), documentation in comments, descriptors and build files. Of the code that
decides anything (the two drivers, the firmware's own files, `udp_device.c`, `udc.c`, the
three classes, the sleep manager, and what is called of the clocks) little is left, and it
is listed above.

## 8. Plan

Done, in this order: `MemLcdUsb` with proofs, `UdpOutEndpoint` with proofs,
`UdpInEndpoint`, `UdpControl`, `MemLcdFw`, `Udc` with proofs, `MemLcdSpi`, `Msb2Lsb`,
`ByteStream` with `UdiCdcTx` and `UdiCdcRx`, `UdiHidKbd`, `UdpPower`; then `Clocks` and `Rates`, `Display` as
the abstract specification of the three display stages, `UdiCdcComm`, and the proofs of
`MemLcdSpi`, `MemLcdFw`, `UdpPower`, `UdiCdcComm` and `UdpInEndpoint`;
then the proofs of `MCUdpControl`, of the clocks, of the keyboard, and of both halves of the
serial port.

What is left is proofs: `UdpInEndpoint` for the keyboard's endpoint, whose aborted reports run
the next, and for transfers of the main thread, where `BankCounts` should hold as well; and the
two endpoints of `UdpOutEndpoint` and `UdpInEndpoint` as implementations of what `UdiCdcTx`,
`UdiCdcRx` and `MemLcdFw` take for the driver.
