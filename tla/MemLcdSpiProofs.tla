-------------------------- MODULE MemLcdSpiProofs --------------------------
(***************************************************************************)
(* Theorems about MemLcdSpi: for every number of lines and of drawing      *)
(* threads, and whatever transfers fail, the driver is a display, and it   *)
(* forgets no store while it is bound.                                     *)
(***************************************************************************)
EXTENDS MemLcdSpi, TLAPS

(* Along the pipeline, shown - buffer - memory, versions never decrease.   *)
Ordered == \A l \in Lines : shown[l] <= buf[l] /\ buf[l] <= mem[l]

(* A mapping that can be written unnoticed is one the next update cleans.  *)
WritableIsScheduled == writable => pending

(* Who has lines to store is inside a drawing call, which will invalidate. *)
StorersInvalidate == \A w \in Writers : todo[w] # {} => w \in drawing

(* What the update has formatted is current, or its successor is due.      *)
CurrentOrDue(l) == buf[l] = mem[l] \/ drawing # {} \/ pending

BufCurrentOrDue ==
  /\ upd = "format" => \A l \in Lines : l < i => CurrentOrDue(l)
  /\ upd = "send" => \A l \in Lines : CurrentOrDue(l)

(* Nothing happens before probe.                                           *)
Untouched ==
  state = "unbound" =>
    /\ res = {} /\ drawing = {} /\ ~writable /\ ~pending /\ upd = "idle"
    /\ \A l \in Lines : shown[l] = mem[l]

IInv ==
  /\ TypeOK
  /\ Ordered
  /\ WritableIsScheduled
  /\ StorersInvalidate
  /\ BufCurrentOrDue
  /\ Untouched
  /\ NoForgottenLine

-----------------------------------------------------------------------------
LEMMA LineFacts ==
  /\ Height \in Nat /\ 0 \in Lines /\ 0 \in 0 .. Height
  /\ \A l \in Lines : l \in Nat /\ l < Height /\ l + 1 \in 0 .. Height
  /\ \A l \in Lines : l + 1 < Height => l + 1 \in Lines
  /\ \A l, m \in Lines : l .. m \subseteq Lines
  BY HeightAssumption DEF Lines

LEMMA InitInv == Init => IInv
<1> SUFFICES ASSUME Init PROVE IInv
  OBVIOUS
<1>1. \A l \in Lines : shown[l] = 0 /\ buf[l] = 0 /\ mem[l] = 0
  BY DEF Init, Zero
<1>2. TypeOK
  BY LineFacts DEF Init, Zero, TypeOK, States, Resources
<1>3. QED
  BY <1>1, <1>2 DEF Init, IInv, Ordered, WritableIsScheduled, StorersInvalidate,
                     BufCurrentOrDue, Untouched, NoForgottenLine

(* Storing a new version into a line.                                      *)
LEMMA NewerFacts ==
  ASSUME TypeOK, Ordered, NEW l \in Lines, Newer(l), UNCHANGED <<shown, buf>>
  PROVE  mem' \in [Lines -> Nat] /\ Ordered'
  BY DEF Newer, TypeOK, Ordered

LEMMA FormatFacts ==
  ASSUME TypeOK, Ordered, FormatLine
  PROVE  /\ i \in Lines /\ buf' = [buf EXCEPT ![i] = mem[i]]
         /\ buf' \in [Lines -> Nat] /\ Ordered'
<1>1. i \in Lines /\ buf' = [buf EXCEPT ![i] = mem[i]] /\ UNCHANGED <<mem, shown>>
  BY DEF FormatLine, TypeOK, draw, wire
<1>2. QED
  BY <1>1 DEF TypeOK, Ordered

LEMMA TypeStep == TypeOK /\ [Next]_vars => TypeOK'
<1> SUFFICES ASSUME TypeOK, [Next]_vars PROVE TypeOK'
  OBVIOUS
<1> USE DEF TypeOK
<1>1. CASE ProbeFails
  BY <1>1 DEF ProbeFails, HeldAt, FreedAt, States, Resources, draw, work, wire
<1>2. CASE Probe
  BY <1>2 DEF Probe, States, Resources, draw, work, wire
<1>3. CASE CleanupDefio
  BY <1>3 DEF CleanupDefio, States, wire
<1>4. CASE RemoveStep
  BY <1>4 DEF RemoveStep, RemoveOrder, States, draw, work, wire
<1>5. ASSUME NEW w \in Writers, BeginOp(w) PROVE TypeOK'
  BY <1>5, LineFacts DEF BeginOp, life, work, wire
<1>6. ASSUME NEW w \in Writers, StoreLine(w) PROVE TypeOK'
  BY <1>6 DEF StoreLine, Newer, life, work, wire
<1>7. ASSUME NEW w \in Writers, Invalidate(w) PROVE TypeOK'
  BY <1>7 DEF Invalidate, life, wire
<1>8. CASE PageFault
  BY <1>8 DEF PageFault, life, wire
<1>9. CASE MappedStore
  BY <1>9 DEF MappedStore, Newer, life, work, wire
<1>10. CASE StartUpdate
  BY <1>10, LineFacts DEF StartUpdate, life, wire
<1>11. CASE FormatLine
  BY <1>11, LineFacts DEF FormatLine, life, draw, wire
<1>12. CASE SendFrame
  BY <1>12 DEF SendFrame, life, draw
<1>13. CASE UNCHANGED vars
  BY <1>13 DEF vars, life, draw, work, wire
<1>14. QED
  BY <1>1, <1>2, <1>3, <1>4, <1>5, <1>6, <1>7, <1>8, <1>9, <1>10, <1>11, <1>12, <1>13
     DEF Next, Remove, Update

LEMMA OrderStep == TypeOK /\ Ordered /\ [Next]_vars => Ordered'
<1> SUFFICES ASSUME TypeOK, Ordered, [Next]_vars PROVE Ordered'
  OBVIOUS
<1>1. ASSUME UNCHANGED <<mem, buf, shown>> PROVE Ordered'
  BY <1>1 DEF Ordered
<1>2. CASE Probe \/ ProbeFails \/ Remove
  BY <1>1, <1>2 DEF Probe, ProbeFails, Remove, CleanupDefio, RemoveStep, draw, work, wire
<1>3. ASSUME NEW w \in Writers, BeginOp(w) \/ Invalidate(w) PROVE Ordered'
  BY <1>1, <1>3 DEF BeginOp, Invalidate, work, wire
<1>4. ASSUME NEW w \in Writers, StoreLine(w) PROVE Ordered'
  BY <1>4, NewerFacts DEF StoreLine, TypeOK, work, wire
<1>5. CASE PageFault \/ StartUpdate
  BY <1>1, <1>5 DEF PageFault, StartUpdate, wire
<1>6. CASE MappedStore
  BY <1>6, NewerFacts DEF MappedStore, work, wire
<1>7. CASE FormatLine
  BY <1>7, FormatFacts
<1>8. CASE SendFrame
  BY <1>8 DEF SendFrame, draw, Ordered, TypeOK
<1>9. CASE UNCHANGED vars
  BY <1>1, <1>9 DEF vars, draw, work, wire
<1>10. QED
  BY <1>2, <1>3, <1>4, <1>5, <1>6, <1>7, <1>8, <1>9 DEF Next, Update

-----------------------------------------------------------------------------
(* No store is forgotten.                                                  *)

LEMMA CallsStep ==
  TypeOK /\ WritableIsScheduled /\ StorersInvalidate /\ [Next]_vars
    => WritableIsScheduled' /\ StorersInvalidate'
<1> SUFFICES ASSUME TypeOK, WritableIsScheduled, StorersInvalidate, [Next]_vars
             PROVE  WritableIsScheduled' /\ StorersInvalidate'
  OBVIOUS
<1> USE DEF WritableIsScheduled, StorersInvalidate
<1>1. CASE Probe \/ ProbeFails \/ RemoveStep
  BY <1>1 DEF Probe, ProbeFails, RemoveStep, draw, work
<1>2. CASE CleanupDefio \/ PageFault \/ StartUpdate
  BY <1>2 DEF CleanupDefio, PageFault, StartUpdate
<1>3. ASSUME NEW w \in Writers, BeginOp(w)
      PROVE  WritableIsScheduled' /\ StorersInvalidate'
  BY <1>3 DEF BeginOp, work, TypeOK
<1>4. ASSUME NEW w \in Writers, StoreLine(w)
      PROVE  WritableIsScheduled' /\ StorersInvalidate'
  BY <1>4 DEF StoreLine, work, TypeOK
<1>5. ASSUME NEW w \in Writers, Invalidate(w)
      PROVE  WritableIsScheduled' /\ StorersInvalidate'
  BY <1>5 DEF Invalidate, TypeOK
<1>6. CASE MappedStore \/ FormatLine \/ SendFrame \/ UNCHANGED vars
  BY <1>6 DEF MappedStore, FormatLine, SendFrame, vars, draw, work
<1>7. QED
  BY <1>1, <1>2, <1>3, <1>4, <1>5, <1>6 DEF Next, Remove, Update

LEMMA BufStep ==
  TypeOK /\ WritableIsScheduled /\ StorersInvalidate /\ BufCurrentOrDue /\ [Next]_vars
    => BufCurrentOrDue'
<1> SUFFICES ASSUME TypeOK, WritableIsScheduled, StorersInvalidate, BufCurrentOrDue,
                    [Next]_vars
             PROVE  BufCurrentOrDue'
  OBVIOUS
<1>1. ASSUME drawing' # {} \/ pending' \/ upd' = "idle" PROVE BufCurrentOrDue'
  BY <1>1 DEF BufCurrentOrDue, CurrentOrDue
<1>2. ASSUME UNCHANGED <<mem, drawing, pending, upd, i, buf>> PROVE BufCurrentOrDue'
  BY <1>2 DEF BufCurrentOrDue, CurrentOrDue
<1>3. CASE Probe \/ ProbeFails \/ Remove
  BY <1>1, <1>2, <1>3 DEF Probe, ProbeFails, Remove, CleanupDefio, RemoveStep, draw, work
<1>4. ASSUME NEW w \in Writers, BeginOp(w) \/ StoreLine(w) \/ Invalidate(w)
      PROVE  BufCurrentOrDue'
  BY <1>1, <1>4 DEF BeginOp, StoreLine, Invalidate, StorersInvalidate
<1>5. CASE PageFault \/ MappedStore
  BY <1>1, <1>5 DEF PageFault, MappedStore, work, WritableIsScheduled
<1>6. CASE StartUpdate
  BY <1>6, LineFacts DEF StartUpdate, BufCurrentOrDue
<1>7. CASE FormatLine
  <2>1. /\ upd = "format" /\ i \in Lines /\ i' = i + 1 /\ buf \in [Lines -> Nat]
        /\ buf' = [buf EXCEPT ![i] = mem[i]]
        /\ upd' = (IF i + 1 < Height THEN "format" ELSE "send")
        /\ UNCHANGED <<mem, drawing, pending>>
    BY <1>7 DEF FormatLine, draw, TypeOK
  <2>2. i \in Nat /\ Height \in Nat /\ \A l \in Lines : l \in Nat /\ l < Height
    BY <2>1, LineFacts
  <2>3. \A l \in Lines : l < i + 1 => CurrentOrDue(l)'
    BY <2>1, <2>2 DEF BufCurrentOrDue, CurrentOrDue
  <2>4. CASE i + 1 < Height
    BY <2>1, <2>3, <2>4 DEF BufCurrentOrDue
  <2>5. CASE ~ (i + 1 < Height)
    BY <2>1, <2>2, <2>3, <2>5 DEF BufCurrentOrDue
  <2>6. QED
    BY <2>4, <2>5
<1>8. CASE SendFrame
  BY <1>1, <1>8 DEF SendFrame
<1>9. CASE UNCHANGED vars
  BY <1>2, <1>9 DEF vars, draw, work
<1>10. QED
  BY <1>3, <1>4, <1>5, <1>6, <1>7, <1>8, <1>9 DEF Next, Update

LEMMA UntouchedStep ==
  TypeOK /\ WritableIsScheduled /\ StorersInvalidate /\ Untouched /\ [Next]_vars
    => Untouched'
<1> SUFFICES ASSUME TypeOK, StorersInvalidate, Untouched, [Next]_vars, state' = "unbound"
             PROVE  Untouched'
  BY DEF Untouched
<1>2. ~ (Probe \/ ProbeFails \/ Remove)
  BY DEF Probe, ProbeFails, Remove, CleanupDefio, RemoveStep, RemoveOrder
<1>3. CASE UNCHANGED vars
  BY <1>3 DEF vars, life, draw, work, wire, Untouched
<1>4. CASE Next
  <2>1. state = "unbound"
    BY <1>2, <1>4 DEF Next, life, BeginOp, StoreLine, Newer, Invalidate, PageFault,
                      MappedStore, StartUpdate, Update, FormatLine, SendFrame
  <2>2. \A w \in Writers : todo[w] = {}
    BY <2>1 DEF Untouched, StorersInvalidate
  <2>3. QED
    BY <1>2, <1>4, <2>1, <2>2 DEF Next, Untouched, Registered, BeginOp, StoreLine, Invalidate,
         PageFault, MappedStore, StartUpdate, Update, FormatLine, SendFrame
<1>5. QED
  BY <1>3, <1>4

Safe(l) == shown[l] = mem[l] \/ Scheduled(l) \/ lost

LEMMA ForgottenStep == IInv /\ [Next]_vars => NoForgottenLine'
<1> SUFFICES ASSUME IInv, [Next]_vars, state' = "bound", NEW l \in Lines
             PROVE  Safe(l)'
  BY DEF NoForgottenLine, Safe
<1>1. /\ TypeOK /\ Ordered /\ WritableIsScheduled /\ StorersInvalidate
      /\ state = "bound" => Safe(l)
  BY DEF IInv, NoForgottenLine, Safe
<1>2. ASSUME drawing' # {} \/ pending' PROVE Safe(l)'
  BY <1>2 DEF Safe, Scheduled
<1>3. CASE Probe
  BY <1>3 DEF Probe, draw, wire, IInv, Untouched, Safe
<1>4. CASE ProbeFails \/ Remove
  BY <1>4 DEF ProbeFails, Remove, CleanupDefio, RemoveStep, RemoveOrder
<1>5. ASSUME NEW w \in Writers, BeginOp(w) \/ Invalidate(w) PROVE Safe(l)'
  BY <1>2, <1>5 DEF BeginOp, Invalidate
<1>6. ASSUME NEW w \in Writers, StoreLine(w) PROVE Safe(l)'
  BY <1>1, <1>2, <1>6 DEF StoreLine, StorersInvalidate
<1>7. CASE PageFault \/ MappedStore
  BY <1>1, <1>2, <1>7 DEF PageFault, MappedStore, work, WritableIsScheduled
<1>8. CASE StartUpdate
  BY <1>1, <1>8, LineFacts DEF StartUpdate, life, wire, Safe, Scheduled
<1>9. CASE FormatLine
  <2>1. /\ state = "bound" /\ upd = "format" /\ i \in Lines /\ i' = i + 1
        /\ buf' = [buf EXCEPT ![i] = mem[i]] /\ buf \in [Lines -> Nat]
        /\ upd' = (IF i + 1 < Height THEN "format" ELSE "send")
        /\ UNCHANGED <<mem, drawing, pending, shown, lost>>
    BY <1>9, FormatFacts, <1>1 DEF FormatLine, life, draw, wire, TypeOK
  <2>2. /\ Height \in Nat /\ l \in Nat /\ i \in Nat /\ l < Height
        /\ buf'[l] = (IF l = i THEN mem[l] ELSE buf[l])
    BY <2>1, LineFacts
  <2>3. CASE buf'[l] = mem[l]
    BY <2>1, <2>3 DEF Safe, Scheduled
  <2>4. CASE l # i /\ buf[l] # mem[l]
    BY <1>1, <2>1, <2>2, <2>4 DEF Safe, Scheduled
  <2>5. QED
    BY <2>2, <2>3, <2>4
<1>10. CASE SendFrame
  BY <1>1, <1>10 DEF SendFrame, life, draw, IInv, BufCurrentOrDue, CurrentOrDue, Safe,
                     Scheduled
<1>11. CASE UNCHANGED vars
  BY <1>1, <1>11 DEF vars, life, draw, work, wire, Safe, Scheduled
<1>12. QED
  BY <1>3, <1>4, <1>5, <1>6, <1>7, <1>8, <1>9, <1>10, <1>11 DEF Next, Update

LEMMA Inductive == Spec => []IInv
<1>1. IInv /\ [Next]_vars => IInv'
  BY TypeStep, OrderStep, CallsStep, BufStep, UntouchedStep, ForgottenStep DEF IInv
<1>2. QED
  BY <1>1, InitInv, PTL DEF Spec

-----------------------------------------------------------------------------
(* All variables keep their types: in particular the line counter of the   *)
(* update is a line wherever the update uses it.                           *)
THEOREM SpiTypes == Spec => []TypeOK
<1>1. IInv => TypeOK
  BY DEF IInv
<1>2. QED
  BY <1>1, Inductive, PTL

(* While the driver is bound, a line shown out of date will be sent again, *)
(* or the last transfer failed: one successful transfer repairs whatever   *)
(* the failed ones before it left.                                         *)
THEOREM SpiStoresNotForgotten == Spec => []NoForgottenLine
<1>1. IInv => NoForgottenLine
  BY DEF IInv
<1>2. QED
  BY <1>1, Inductive, PTL

(* One step of the driver is a step of the display, or leaves it alone.    *)
LEMMA DisplayStep == IInv /\ IInv' /\ [Next]_vars => [D!Next]_(D!vars)
<1> SUFFICES ASSUME IInv, IInv', [Next]_vars PROVE [D!Next]_(D!vars)
  OBVIOUS
<1>1. /\ mem \in [Lines -> Nat] /\ shown \in [Lines -> Nat]
      /\ mem' \in [Lines -> Nat] /\ shown' \in [Lines -> Nat] /\ buf \in [Lines -> Nat]
      /\ \A l \in Lines : shown[l] <= buf[l] /\ buf[l] <= mem[l]
  BY DEF IInv, TypeOK, Ordered
<1>2. ASSUME UNCHANGED <<mem, shown>> PROVE [D!Next]_(D!vars)
  BY <1>2 DEF D!vars
<1>3. ASSUME NEW l \in Lines, Newer(l), UNCHANGED shown PROVE D!Next
  BY <1>1, <1>3 DEF Newer, D!Next, D!Showable
<1>4. CASE Probe \/ ProbeFails \/ Remove
  BY <1>2, <1>4 DEF Probe, ProbeFails, Remove, CleanupDefio, RemoveStep, draw, wire
<1>5. ASSUME NEW w \in Writers, BeginOp(w) \/ StoreLine(w) \/ Invalidate(w)
      PROVE  [D!Next]_(D!vars)
  BY <1>2, <1>3, <1>5 DEF BeginOp, StoreLine, Invalidate, wire, IInv, TypeOK
<1>6. CASE MappedStore
  BY <1>3, <1>6 DEF MappedStore, wire
<1>7. CASE PageFault \/ StartUpdate \/ FormatLine
  BY <1>2, <1>7 DEF PageFault, StartUpdate, FormatLine, draw, wire
<1>8. CASE SendFrame
  <2>1. UNCHANGED mem /\ (shown' = buf \/ shown' = shown)
    BY <1>8 DEF SendFrame, draw
  <2>2. CASE shown' = buf
    BY <1>1, <2>1, <2>2 DEF D!Next, D!Showable
  <2>3. QED
    BY <1>2, <2>1, <2>2
<1>9. CASE UNCHANGED vars
  BY <1>2, <1>9 DEF vars, draw, wire
<1>10. QED
  BY <1>4, <1>5, <1>6, <1>7, <1>8, <1>9 DEF Next, Update

(* The driver is a display: the panel shows what was stored in a line, and *)
(* never goes back to older content.                                       *)
THEOREM SpiIsADisplay == Spec => ImplementsDisplay
<1>1. Init => D!Init
  BY DEF Init, Zero, D!Init
<1>2. QED
  BY <1>1, DisplayStep, Inductive, PTL DEF Spec, ImplementsDisplay, D!Spec
=============================================================================
