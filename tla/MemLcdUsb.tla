----------------------------- MODULE MemLcdUsb -----------------------------
(***************************************************************************)
(* The Linux USB host driver, src/memlcd_usb.c.                            *)
(*                                                                         *)
(* Drawing calls store into the video memory and then invalidate; writes   *)
(* through a mapping are trapped once per page.  Both schedule one delayed *)
(* work item, whose handler ls027b7dh01_update copies every line into a    *)
(* URB of its own and submits it.  URBs complete later, in order, and may  *)
(* fail.  The device can be unplugged at any time.                         *)
(*                                                                         *)
(* The content of a line is a version number: a store gives the line its   *)
(* next version.  Versions let a property tell old content from new; they  *)
(* are bounded by MaxVersion, in the guards of the two storing actions.    *)
(***************************************************************************)
EXTENDS Naturals, Sequences

CONSTANTS
  Height,      \* LS027B7DH01_HEIGHT, the number of lines
  Pages,       \* the pages the video memory spans
  PageOf,      \* the page a line lies in
  Writers,     \* threads that call fb_write, fb_fillrect, fb_imageblit, fb_copyarea
  MaxVersion,  \* bound on the stores into one line
  MaxUrbs,     \* transfer buffers that memory can hold; GFP_KERNEL waits for one
  Faults       \* what may go wrong: subset of {"alloc", "submit", "status"}

Lines == 0 .. Height - 1

ASSUME HeightAssumption == Height \in Nat \ {0}
ASSUME PageOfAssumption == PageOf \in [Lines -> Pages]
ASSUME BoundsAssumption == MaxVersion \in Nat /\ MaxUrbs \in Nat

VARIABLES
  state,     \* of the interface: "plugged", "failed", "bound" or "gone"
  res,       \* what probe acquired and nobody released
  intfdata,  \* usb_get_intfdata(interface)
  mem,       \* video_memory: the version of each line
  drawing,   \* threads inside a drawing call
  todo,      \* per thread: the lines its drawing call has still to store
  writable,  \* pages that user space can write without a fault
  pending,   \* info->deferred_work is scheduled
  upd,       \* ls027b7dh01_update: "idle", "copy" (top of the loop) or "submit"
  i,         \* its line counter
  snap,      \* the version it copied into the URB's buffer
  bufs,      \* coherent buffers allocated
  queue,     \* URBs submitted and not completed, oldest first
  shown,     \* the version of each line that the device received last
  lost       \* history: lines whose latest transfer attempt failed

life  == <<state, res, intfdata>>
draw  == <<mem, drawing, todo, writable>>
work  == <<pending, upd, i, snap>>
wire  == <<bufs, queue, shown, lost>>
vars  == <<life, draw, work, wire>>

(* framebuffer_alloc .. unregister: drawing calls reach the driver.        *)
Registered == "fb" \in res

Init ==
  /\ state = "plugged" /\ res = {} /\ intfdata = "null"
  /\ mem = [l \in Lines |-> 0] /\ drawing = {} /\ todo = [w \in Writers |-> {}] /\ writable = {}
  /\ pending = FALSE /\ upd = "idle" /\ i = 0 /\ snap = 0
  /\ bufs = 0 /\ queue = <<>> /\ shown = [l \in Lines |-> 0] /\ lost = {}

-----------------------------------------------------------------------------
(* Probe and disconnect.                                                   *)

(* What probe holds when the named step fails, and what the labels         *)
(* fb_error and usb_error give back.  The reference of usb_get_dev and the *)
(* deferred io of fb_deferred_io_init are never given back.                *)
HeldAt ==
  [kzalloc  |-> {},
   endpoint |-> {"dev", "udev"},
   fballoc  |-> {"dev", "udev"},
   vmem     |-> {"dev", "udev", "info"},
   register |-> {"dev", "udev", "info", "vmem", "defio"}]

FreedAt ==
  [kzalloc  |-> {},
   endpoint |-> {"dev"},
   fballoc  |-> {"dev"},
   vmem     |-> {"info", "dev"},
   register |-> {"vmem", "info", "dev"}]

ProbeFails ==
  /\ state = "plugged"
  /\ \E step \in DOMAIN HeldAt : res' = HeldAt[step] \ FreedAt[step]
  /\ state' = "failed"
  /\ UNCHANGED <<intfdata, draw, work, wire>>

(* No call of usb_set_intfdata: the interface keeps no pointer to dev.     *)
Probe ==
  /\ state = "plugged"
  /\ state' = "bound"
  /\ res' = {"dev", "udev", "info", "vmem", "defio", "fb"}
  /\ UNCHANGED <<intfdata, draw, work, wire>>

(* Everything is released under if(dev), and dev comes from intfdata.      *)
Disconnect ==
  /\ state = "bound"
  /\ state' = "gone"
  /\ intfdata' = "null"
  /\ res' = IF intfdata = "null" THEN res ELSE {"udev"}
  /\ UNCHANGED <<draw, work, wire>>

-----------------------------------------------------------------------------
(* Drawing.                                                                *)

(* A drawing call starts on a range of lines.                              *)
BeginOp(w) ==
  /\ Registered
  /\ w \notin drawing
  /\ drawing' = drawing \cup {w}
  /\ \E a, b \in Lines : a <= b /\ todo' = [todo EXCEPT ![w] = a .. b]
  /\ UNCHANGED <<life, mem, writable, work, wire>>

(* sys_fillrect and its kin, or fb_sys_write, store one line.              *)
StoreLine(w) ==
  /\ w \in drawing
  /\ \E l \in todo[w] :
       /\ mem[l] < MaxVersion
       /\ mem' = [mem EXCEPT ![l] = @ + 1]
       /\ todo' = [todo EXCEPT ![w] = @ \ {l}]
  /\ UNCHANGED <<life, drawing, writable, work, wire>>

(* Mutant of Invalidate: nothing is scheduled while the update runs.       *)
InvalidateUnlessRunning(w) ==
  /\ w \in drawing
  /\ drawing' = drawing \ {w}
  /\ todo' = [todo EXCEPT ![w] = {}]
  /\ pending' = (pending \/ upd = "idle")
  /\ UNCHANGED <<life, mem, writable, upd, i, snap, wire>>

(* The call ends, fb_sys_write perhaps early with an error, and marks the  *)
(* region invalid whatever was stored.  Scheduling pending work is a no-op.*)
Invalidate(w) ==
  /\ w \in drawing
  /\ drawing' = drawing \ {w}
  /\ todo' = [todo EXCEPT ![w] = {}]
  /\ pending' = TRUE
  /\ UNCHANGED <<life, mem, writable, upd, i, snap, wire>>

(* First store into a clean page of a mapping: the fault handler waits for *)
(* the mutex that the running update holds, then schedules the work.       *)
PageFault(p) ==
  /\ Registered
  /\ p \notin writable
  /\ upd = "idle"
  /\ writable' = writable \cup {p}
  /\ pending' = TRUE
  /\ UNCHANGED <<life, mem, drawing, todo, upd, i, snap, wire>>

(* A store through the mapping into a page that is writable already.       *)
MappedStore(l) ==
  /\ PageOf[l] \in writable
  /\ mem[l] < MaxVersion
  /\ mem' = [mem EXCEPT ![l] = @ + 1]
  /\ UNCHANGED <<life, drawing, todo, writable, work, wire>>

-----------------------------------------------------------------------------
(* The update.                                                             *)

(* The delay HZ/10 elapses; the work runs once at a time, writes protect   *)
(* the pages it was told of and calls ls027b7dh01_update.                  *)
StartUpdate ==
  /\ pending
  /\ upd = "idle"
  /\ pending' = FALSE
  /\ writable' = {}
  /\ upd' = "copy"
  /\ i' = 0
  /\ UNCHANGED <<life, mem, drawing, todo, snap, wire>>

(* Allocate the URB and its buffer, copy line i.                           *)
CopyLine ==
  /\ upd = "copy"
  /\ bufs < MaxUrbs
  /\ bufs' = bufs + 1
  /\ snap' = mem[i]
  /\ upd' = "submit"
  /\ UNCHANGED <<life, draw, pending, i, queue, shown, lost>>

(* Leave the loop at line i: neither it nor the lines below are sent.      *)
AbortFrame ==
  /\ upd' = "idle"
  /\ lost' = lost \cup (i .. Height - 1)

AllocFails ==
  /\ upd = "copy"
  /\ "alloc" \in Faults
  /\ AbortFrame
  /\ UNCHANGED <<life, draw, pending, i, snap, bufs, queue, shown>>

(* The loop of ls027b7dh01_update up to the given limit, the URB queued as *)
(* given; SubmitLine and its mutants are instances.                        *)
SubmitInLoop(limit, newQueue) ==
  /\ upd = "submit"
  /\ state = "bound"
  /\ queue' = newQueue
  /\ lost' = lost \ {i}
  /\ i' = i + 1
  /\ upd' = IF i + 1 < limit THEN "copy" ELSE "idle"
  /\ UNCHANGED <<life, draw, pending, snap, bufs, shown>>

Urb == [line |-> i, ver |-> snap]

(* Mutants of SubmitLine: the loop ends one line late, or one line early,  *)
(* or the new URB overtakes the queued ones.                               *)
SubmitPastEnd  == SubmitInLoop(Height + 1, Append(queue, Urb))
SubmitAllButLast == SubmitInLoop(Height - 1, Append(queue, Urb))
SubmitAtHead   == SubmitInLoop(Height, <<Urb>> \o queue)

SubmitLine == SubmitInLoop(Height, Append(queue, Urb))

(* Mutant of SubmitFails: the error path forgets the buffer.               *)
SubmitFailsLeaking ==
  /\ upd = "submit"
  /\ "submit" \in Faults \/ state = "gone"
  /\ AbortFrame
  /\ UNCHANGED <<life, draw, pending, i, snap, bufs, queue, shown>>

(* usb_submit_urb fails; always so once the device is gone (-ENODEV).      *)
SubmitFails ==
  /\ upd = "submit"
  /\ "submit" \in Faults \/ state = "gone"
  /\ bufs' = bufs - 1
  /\ AbortFrame
  /\ UNCHANGED <<life, draw, pending, i, snap, queue, shown>>

(* usb_write_cb: the URB at the head completed, with status 0 ...          *)
UrbDone ==
  /\ queue # <<>>
  /\ state = "bound"
  /\ shown' = [shown EXCEPT ![Head(queue).line] = Head(queue).ver]
  /\ queue' = Tail(queue)
  /\ bufs' = bufs - 1
  /\ UNCHANGED <<life, draw, work, lost>>

(* ... or with an error, which is only logged.                             *)
UrbError ==
  /\ queue # <<>>
  /\ "status" \in Faults \/ state = "gone"
  /\ lost' = lost \cup {Head(queue).line}
  /\ queue' = Tail(queue)
  /\ bufs' = bufs - 1
  /\ UNCHANGED <<life, draw, work, shown>>

-----------------------------------------------------------------------------
Update == CopyLine \/ AllocFails \/ SubmitLine \/ SubmitFails
Complete == UrbDone \/ UrbError

Next ==
  \/ Probe \/ ProbeFails \/ Disconnect
  \/ \E w \in Writers : BeginOp(w) \/ StoreLine(w) \/ Invalidate(w)
  \/ \E p \in Pages : PageFault(p)
  \/ \E l \in Lines : MappedStore(l)
  \/ StartUpdate
  \/ Update
  \/ Complete

Spec == Init /\ [][Next]_vars

(* A drawing call returns, the timer expires, the worker thread runs, and  *)
(* the host controller gives every URB back.  Nobody has to draw.          *)
Fairness ==
  /\ \A w \in Writers : WF_vars(Invalidate(w))
  /\ WF_vars(StartUpdate)
  /\ WF_vars(Update)
  /\ WF_vars(Complete)

FairSpec == Spec /\ Fairness

-----------------------------------------------------------------------------
Urbs == [line : Lines, ver : Nat]

LifeTypeOK ==
  /\ state \in {"plugged", "failed", "bound", "gone"}
  /\ res \subseteq {"dev", "udev", "info", "vmem", "defio", "fb"}
  /\ intfdata = "null"

DrawTypeOK ==
  /\ mem \in [Lines -> Nat]
  /\ drawing \subseteq Writers
  /\ todo \in [Writers -> SUBSET Lines]
  /\ writable \subseteq Pages

WorkTypeOK ==
  /\ pending \in BOOLEAN
  /\ upd \in {"idle", "copy", "submit"}
  /\ i \in 0 .. Height
  /\ upd # "idle" => i \in Lines
  /\ snap \in Nat

WireTypeOK ==
  /\ bufs \in Nat
  /\ queue \in Seq(Urbs)
  /\ shown \in [Lines -> Nat]
  /\ lost \subseteq Lines

(* Every variable has its type; the loop counter is a line while it is used. *)
TypeOK == LifeTypeOK /\ DrawTypeOK /\ WorkTypeOK /\ WireTypeOK

(* An update that will still read the present content of line l is on its  *)
(* way, or has read it: a drawing call that will invalidate, the work item, *)
(* or the running loop.                                                    *)
Scheduled(l) ==
  \/ drawing # {}
  \/ pending
  \/ upd = "copy" /\ i <= l
  \/ upd = "submit" /\ (i < l \/ (i = l /\ snap = mem[l]))

InFlight(l) == \E k \in 1 .. Len(queue) : queue[k] = [line |-> l, ver |-> mem[l]]

(* No store is forgotten: whatever the interleaving of the drawing calls,  *)
(* the mapped stores and the line by line update, a line that the device   *)
(* shows out of date is in flight with its newest content, or will be read *)
(* again, or its last transfer is known to have failed.                    *)
NoForgottenLine ==
  \A l \in Lines : shown[l] = mem[l] \/ InFlight(l) \/ Scheduled(l) \/ l \in lost

(* What the comment of ls027b7dh01_invalidate says, taken at its word: a   *)
(* region marked invalid stays due for an update until it is updated, also *)
(* when a transfer failed.  No invariant: see the README, known deviations. *)
InvalidUntilUpdated ==
  state = "bound" =>
    \A l \in Lines : shown[l] = mem[l] \/ InFlight(l) \/ Scheduled(l)

(* The driver is a display: a line on the device shows what was stored in  *)
(* it, and the frames in flight never let old content overtake new.        *)
D == INSTANCE Display WITH Cells <- Lines, given <- mem, shown <- shown
ImplementsDisplay == D!Spec

(* Every transfer buffer is owned by one URB in flight or by the line      *)
(* being prepared: no path of the update or of its callback leaks one or   *)
(* frees one twice.  The types depend on it, for it keeps the count of     *)
(* buffers natural.                                                        *)
BuffersOwned == bufs = Len(queue) + (IF upd = "submit" THEN 1 ELSE 0)
BuffersAccounted == TypeOK /\ BuffersOwned

(* What disconnect says it does ("deallocate USB device"): afterwards the  *)
(* framebuffer no longer takes drawing calls.                              *)
DisconnectDeallocates == state = "gone" => ~Registered

(* A version that was stored is shown, or a newer one is, unless the device *)
(* goes away or a transfer fails.                                          *)
EventuallyShown ==
  \A l \in Lines : \A v \in 1 .. MaxVersion :
    mem[l] = v ~> shown[l] >= v \/ state = "gone" \/ l \in lost
=============================================================================
