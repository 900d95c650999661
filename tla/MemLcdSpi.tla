----------------------------- MODULE MemLcdSpi -----------------------------
(***************************************************************************)
(* The Linux SPI host driver, src/memlcd_spi.c.                            *)
(*                                                                         *)
(* Drawing calls and mapped stores schedule one delayed work item, as in   *)
(* MemLcdUsb, but the update formats the whole frame into one buffer and   *)
(* sends it with one synchronous transfer, whose result it does not look   *)
(* at.  remove releases what probe acquired one thing after the other,     *)
(* while drawing calls can still arrive.                                   *)
(*                                                                         *)
(* The content of a line is a version number, bounded by MaxVersion in the *)
(* guards of the two storing actions.                                      *)
(***************************************************************************)
EXTENDS Naturals, Sequences

CONSTANTS
  Height,      \* LS027B7DH01_HEIGHT, the number of lines
  Writers,     \* threads that call fb_write, fb_fillrect, fb_imageblit, fb_copyarea
  MaxVersion,  \* bound on the stores into one line
  SpiFails     \* may the transfer fail

ASSUME HeightAssumption == Height \in Nat \ {0}
ASSUME BoundsAssumption == MaxVersion \in Nat /\ SpiFails \in BOOLEAN

Lines == 0 .. Height - 1

VARIABLES
  state,     \* "unbound", "failed", "bound", a step of remove, or "gone"
  res,       \* what probe acquired and nobody released
  mem,       \* video_memory: the version of each line
  drawing,   \* threads inside a drawing call
  todo,      \* per thread: the lines its drawing call has still to store
  writable,  \* can user space write to the mapping without a fault
  pending,   \* info->deferred_work is scheduled
  upd,       \* ls027b7dh01_update: "idle", "format" or "send"
  i,         \* its line counter
  buf,       \* spi_buf: the version of each line
  shown,     \* the version of each line that the panel received last
  lost       \* history: the last transfer failed

life == <<state, res>>
draw == <<mem, drawing, todo, writable>>
work == <<pending, upd, i, buf>>
wire == <<shown, lost>>
vars == <<life, draw, work, wire>>

Zero == [l \in Lines |-> 0]

Init ==
  /\ state = "unbound" /\ res = {}
  /\ mem = Zero /\ drawing = {} /\ todo = [w \in Writers |-> {}] /\ writable = FALSE
  /\ pending = FALSE /\ upd = "idle" /\ i = 0 /\ buf = Zero
  /\ shown = Zero /\ lost = FALSE

Registered == "fb" \in res

-----------------------------------------------------------------------------
(* Probe: what it holds when the named step fails, and what the labels     *)
(* free_spi_data, free_fb and free_priv give back.                         *)
HeldAt ==
  [kzalloc  |-> {},
   setup    |-> {"priv"},
   fballoc  |-> {"priv"},
   spibuf   |-> {"priv", "info"},
   vmem     |-> {"priv", "info", "spibuf"},
   register |-> {"priv", "info", "spibuf", "vmem", "defio"}]

FreedAt ==
  [kzalloc  |-> {},
   setup    |-> {"priv"},
   fballoc  |-> {"priv"},
   spibuf   |-> {"info", "priv"},
   vmem     |-> {"spibuf", "info", "priv"},
   register |-> {"info", "priv"}]

ProbeFails ==
  /\ state = "unbound"
  /\ \E step \in DOMAIN HeldAt : res' = HeldAt[step] \ FreedAt[step]
  /\ state' = "failed"
  /\ UNCHANGED <<draw, work, wire>>

Probe ==
  /\ state = "unbound"
  /\ state' = "bound"
  /\ res' = {"priv", "info", "spibuf", "vmem", "defio", "fb"}
  /\ UNCHANGED <<draw, work, wire>>

(* fb_deferred_io_cleanup cancels the work, waiting for a running update,  *)
(* and unmaps the pages.                                                   *)
CleanupDefio ==
  /\ state = "bound" /\ upd = "idle"
  /\ state' = "cleaned"
  /\ res' = res \ {"defio"}
  /\ pending' = FALSE /\ writable' = FALSE
  /\ UNCHANGED <<mem, drawing, todo, upd, i, buf, wire>>

(* kfree(spi_buf), unregister_framebuffer, framebuffer_release,            *)
(* kfree(video_memory), kfree(priv).                                       *)
RemoveOrder ==
  <<<<"cleaned", {"spibuf"}>>, <<"nobuf", {"fb"}>>, <<"nofb", {"info"}>>,
    <<"noinfo", {"vmem"}>>, <<"novmem", {"priv"}>>, <<"gone", {}>>>>

RemoveStep ==
  \E k \in 1 .. Len(RemoveOrder) - 1 :
    /\ state = RemoveOrder[k][1]
    /\ state' = RemoveOrder[k + 1][1]
    /\ res' = res \ RemoveOrder[k][2]
    /\ UNCHANGED <<draw, work, wire>>

-----------------------------------------------------------------------------
(* Drawing.                                                                *)
BeginOp(w) ==
  /\ Registered /\ w \notin drawing
  /\ drawing' = drawing \cup {w}
  /\ \E a, b \in Lines : a <= b /\ todo' = [todo EXCEPT ![w] = a .. b]
  /\ UNCHANGED <<life, mem, writable, work, wire>>

Newer(l) ==
  /\ mem[l] < MaxVersion
  /\ mem' = [mem EXCEPT ![l] = @ + 1]

StoreLine(w) ==
  \E l \in todo[w] :
    /\ Newer(l)
    /\ todo' = [todo EXCEPT ![w] = @ \ {l}]
    /\ UNCHANGED <<life, drawing, writable, work, wire>>

(* Mutant of Invalidate: nothing is scheduled while the update runs.       *)
InvalidateUnlessRunning(w) ==
  /\ w \in drawing
  /\ drawing' = drawing \ {w}
  /\ todo' = [todo EXCEPT ![w] = {}]
  /\ pending' = (pending \/ upd = "idle")
  /\ UNCHANGED <<life, mem, writable, upd, i, buf, wire>>

(* ls027b7dh01_invalidate.                                                 *)
Invalidate(w) ==
  /\ w \in drawing
  /\ drawing' = drawing \ {w}
  /\ todo' = [todo EXCEPT ![w] = {}]
  /\ pending' = TRUE
  /\ UNCHANGED <<life, mem, writable, upd, i, buf, wire>>

(* The fault of the first store into the mapping waits for the update.     *)
PageFault ==
  /\ Registered /\ "defio" \in res /\ ~writable /\ upd = "idle"
  /\ writable' = TRUE
  /\ pending' = TRUE
  /\ UNCHANGED <<life, mem, drawing, todo, upd, i, buf, wire>>

MappedStore ==
  /\ writable
  /\ \E l \in Lines : Newer(l)
  /\ UNCHANGED <<life, drawing, todo, writable, work, wire>>

-----------------------------------------------------------------------------
(* The update.                                                             *)
StartUpdate ==
  /\ pending /\ upd = "idle"
  /\ pending' = FALSE
  /\ writable' = FALSE
  /\ upd' = "format" /\ i' = 0
  /\ UNCHANGED <<life, mem, drawing, todo, buf, wire>>

(* Mutant of FormatLine: the loop starts at the second line.               *)
FormatLineFromOne ==
  /\ upd = "format"
  /\ buf' = IF i = 0 THEN buf ELSE [buf EXCEPT ![i] = mem[i]]
  /\ i' = i + 1
  /\ upd' = IF i + 1 < Height THEN "format" ELSE "send"
  /\ UNCHANGED <<life, draw, pending, wire>>

(* Mutant of FormatLine: the source pointer is moved before the copy.      *)
FormatLineFromNext ==
  /\ upd = "format"
  /\ buf' = [buf EXCEPT ![i] = mem[(i + 1) % Height]]
  /\ i' = i + 1
  /\ upd' = IF i + 1 < Height THEN "format" ELSE "send"
  /\ UNCHANGED <<life, draw, pending, wire>>

(* Mutant of FormatLine: the loop ends one line late.                      *)
FormatLineOneMore ==
  /\ upd = "format"
  /\ buf' = [buf EXCEPT ![i] = IF i \in Lines THEN mem[i] ELSE 0]
  /\ i' = i + 1
  /\ upd' = IF i < Height THEN "format" ELSE "send"
  /\ UNCHANGED <<life, draw, pending, wire>>

FormatLine ==
  /\ upd = "format"
  /\ buf' = [buf EXCEPT ![i] = mem[i]]
  /\ i' = i + 1
  /\ upd' = IF i + 1 < Height THEN "format" ELSE "send"
  /\ UNCHANGED <<life, draw, pending, wire>>

(* spi_write, whatever it returns.                                         *)
SendFrame ==
  /\ upd = "send"
  /\ upd' = "idle"
  /\ \/ shown' = buf /\ lost' = FALSE
     \/ SpiFails /\ lost' = TRUE /\ UNCHANGED shown
  /\ UNCHANGED <<life, draw, pending, i, buf>>

-----------------------------------------------------------------------------
Update == FormatLine \/ SendFrame
Remove == CleanupDefio \/ RemoveStep

Next ==
  \/ Probe \/ ProbeFails \/ Remove
  \/ \E w \in Writers : BeginOp(w) \/ StoreLine(w) \/ Invalidate(w)
  \/ PageFault \/ MappedStore
  \/ StartUpdate \/ Update

Spec == Init /\ [][Next]_vars

(* A drawing call returns, the timer expires and the worker thread runs.   *)
Fairness ==
  /\ \A w \in Writers : WF_vars(Invalidate(w))
  /\ WF_vars(StartUpdate) /\ WF_vars(Update)

FairSpec == Spec /\ Fairness

-----------------------------------------------------------------------------
Resources == {"priv", "info", "spibuf", "vmem", "defio", "fb"}
States ==
  {"unbound", "failed", "bound", "cleaned", "nobuf", "nofb", "noinfo", "novmem", "gone"}

(* Every variable has its type; the loop counter is a line while it is used. *)
TypeOK ==
  /\ state \in States /\ res \subseteq Resources
  /\ mem \in [Lines -> Nat] /\ drawing \subseteq Writers
  /\ todo \in [Writers -> SUBSET Lines] /\ writable \in BOOLEAN
  /\ pending \in BOOLEAN /\ upd \in {"idle", "format", "send"}
  /\ i \in 0 .. Height /\ (upd = "format" => i \in Lines)
  /\ buf \in [Lines -> Nat] /\ shown \in [Lines -> Nat] /\ lost \in BOOLEAN

(* The driver is a display: the panel shows what was stored in the line,   *)
(* and never older content again, though the update formats the lines one  *)
(* by one while they are drawn and sends some frames in vain.              *)
D == INSTANCE Display WITH Cells <- Lines, given <- mem, shown <- shown
ImplementsDisplay == D!Spec

(* An update that will still send the present content of line l is on its  *)
(* way: a drawing call that will invalidate, the work item, or the running *)
(* update that has not passed the line, or has copied what it holds.       *)
Scheduled(l) ==
  \/ drawing # {} \/ pending
  \/ upd = "format" /\ (i <= l \/ buf[l] = mem[l])
  \/ upd = "send" /\ buf[l] = mem[l]

(* No store is forgotten while the driver is bound: a line that the panel  *)
(* shows out of date will be sent again, or the last transfer failed.      *)
NoForgottenLine ==
  state = "bound" => \A l \in Lines : shown[l] = mem[l] \/ Scheduled(l) \/ lost

(* After "cleanup defio" no update is scheduled or running: from there on  *)
(* remove releases what the update uses.                                   *)
CleanupIsFinal == "defio" \notin res /\ state # "unbound" => ~pending /\ upd = "idle"

(* A version that was stored is shown, or a newer one is, unless the       *)
(* driver is removed or a transfer fails.                                  *)
EventuallyShown ==
  \A l \in Lines, v \in 1 .. MaxVersion :
    mem[l] = v ~> shown[l] >= v \/ state # "bound" \/ lost
=============================================================================
