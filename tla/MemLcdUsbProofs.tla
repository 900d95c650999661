-------------------------- MODULE MemLcdUsbProofs --------------------------
(***************************************************************************)
(* Theorems about MemLcdUsb: for every number of lines, pages, drawing     *)
(* threads and URBs, and whatever faults occur, no store is forgotten, no  *)
(* line goes back to old content and no transfer buffer is leaked.         *)
(***************************************************************************)
EXTENDS MemLcdUsb, TLAPS

(* A page that can be written unnoticed is one the next update will clean. *)
WritableIsScheduled == writable # {} => pending

(* The snapshot about to be submitted is current, or its successor is due. *)
SnapCurrentOrDue ==
  upd = "submit" => \/ snap = mem[i]
                    \/ drawing # {}
                    \/ pending

(* Along the pipeline, shown - queue - snapshot - memory, the versions of  *)
(* one line never decrease.                                                *)
ShownOrdered == \A l \in Lines : shown[l] <= mem[l]

QueueBetween ==
  \A k \in 1 .. Len(queue) :
    /\ shown[queue[k].line] <= queue[k].ver
    /\ queue[k].ver <= mem[queue[k].line]

QueueOrdered ==
  \A j, k \in 1 .. Len(queue) :
    j < k /\ queue[j].line = queue[k].line => queue[j].ver <= queue[k].ver

SnapBetween ==
  upd = "submit" =>
    /\ shown[i] <= snap
    /\ snap <= mem[i]
    /\ \A k \in 1 .. Len(queue) : queue[k].line = i => queue[k].ver <= snap

PipelineOrdered == ShownOrdered /\ QueueBetween /\ QueueOrdered /\ SnapBetween

IInv ==
  /\ BuffersAccounted
  /\ WritableIsScheduled
  /\ SnapCurrentOrDue
  /\ PipelineOrdered
  /\ NoForgottenLine

-----------------------------------------------------------------------------
LEMMA LineFacts ==
  /\ Height \in Nat
  /\ 0 \in Lines /\ 0 \in 0 .. Height
  /\ \A l \in Lines : l \in Nat /\ l \in 0 .. Height /\ l + 1 \in 0 .. Height
  /\ \A l \in Lines : l + 1 < Height => l + 1 \in Lines
  /\ \A l \in Lines : l .. Height - 1 \subseteq Lines
  /\ \A l, m \in Lines : l .. m \subseteq Lines
  BY HeightAssumption DEF Lines

LEMMA EmptySeqFacts == <<>> \in Seq(Urbs) /\ Len(<<>>) = 0
  OBVIOUS

LEMMA UrbFacts ==
  /\ \A u \in Urbs : u.line \in Lines /\ u.ver \in Nat
  /\ \A l \in Lines, v \in Nat : [line |-> l, ver |-> v] \in Urbs
  BY DEF Urbs

(* The URB that completes next, and the queue without it.                  *)
LEMMA HeadFacts ==
  ASSUME queue \in Seq(Urbs), queue # <<>>
  PROVE  /\ Len(queue) \in Nat \ {0}
         /\ Head(queue) = queue[1] /\ queue[1] \in Urbs
         /\ Tail(queue) \in Seq(Urbs)
         /\ Len(Tail(queue)) = Len(queue) - 1
         /\ \A k \in 1 .. Len(queue) - 1 : Tail(queue)[k] = queue[k + 1]
  OBVIOUS

(* The queue with one more URB.                                            *)
LEMMA AppendFacts ==
  ASSUME queue \in Seq(Urbs), NEW u \in Urbs
  PROVE  /\ Append(queue, u) \in Seq(Urbs)
         /\ Len(queue) \in Nat
         /\ Len(Append(queue, u)) = Len(queue) + 1
         /\ \A k \in 1 .. Len(queue) : Append(queue, u)[k] = queue[k]
         /\ Append(queue, u)[Len(queue) + 1] = u
  OBVIOUS

(* What a step leaves alone keeps its type.                                *)
LEMMA Frame ==
  /\ LifeTypeOK /\ UNCHANGED life => LifeTypeOK'
  /\ DrawTypeOK /\ UNCHANGED draw => DrawTypeOK'
  /\ WorkTypeOK /\ UNCHANGED work => WorkTypeOK'
  /\ WireTypeOK /\ UNCHANGED wire => WireTypeOK'
  BY DEF LifeTypeOK, DrawTypeOK, WorkTypeOK, WireTypeOK, life, draw, work, wire

(* What both outcomes of a URB have in common.                             *)
Dequeued ==
  queue # <<>> /\ queue' = Tail(queue) /\ bufs' = bufs - 1 /\ upd' = upd

LEMMA DequeueTypes ==
  ASSUME BuffersAccounted, Dequeued
  PROVE  queue' \in Seq(Urbs) /\ bufs' \in Nat /\ BuffersOwned'
<1>1. queue \in Seq(Urbs)
  BY DEF BuffersAccounted, TypeOK, WireTypeOK
<1>2. /\ queue' \in Seq(Urbs)
      /\ Len(queue)' = Len(queue) - 1 /\ Len(queue) \in Nat /\ Len(queue) > 0
  BY <1>1, HeadFacts DEF Dequeued
<1>3. bufs = Len(queue) + (IF upd = "submit" THEN 1 ELSE 0)
  BY DEF BuffersAccounted, BuffersOwned
<1>4. bufs' = bufs - 1 /\ upd' = upd
  BY DEF Dequeued
<1>5. CASE upd = "submit"
  BY <1>2, <1>3, <1>4, <1>5 DEF BuffersOwned
<1>6. CASE upd # "submit"
  BY <1>2, <1>3, <1>4, <1>6 DEF BuffersOwned
<1>7. QED
  BY <1>5, <1>6

LEMMA TypeStep == BuffersAccounted /\ [Next]_vars => BuffersAccounted'
<1> SUFFICES ASSUME BuffersAccounted, [Next]_vars PROVE BuffersAccounted'
  OBVIOUS
<1> USE Frame, LineFacts DEF BuffersAccounted, TypeOK
<1>1. CASE Probe
  BY <1>1 DEF Probe, BuffersOwned, LifeTypeOK, work, wire
<1>2. CASE ProbeFails
  BY <1>2 DEF ProbeFails, HeldAt, FreedAt, BuffersOwned, LifeTypeOK, work, wire
<1>3. CASE Disconnect
  BY <1>3 DEF Disconnect, BuffersOwned, LifeTypeOK, work, wire
<1>4. ASSUME NEW w \in Writers, BeginOp(w) PROVE BuffersAccounted'
  BY <1>4 DEF BeginOp, BuffersOwned, DrawTypeOK, work, wire
<1>5. ASSUME NEW w \in Writers, StoreLine(w) PROVE BuffersAccounted'
  BY <1>5 DEF StoreLine, BuffersOwned, DrawTypeOK, work, wire
<1>6. ASSUME NEW w \in Writers, Invalidate(w) PROVE BuffersAccounted'
  BY <1>6 DEF Invalidate, BuffersOwned, DrawTypeOK, WorkTypeOK, wire
<1>7. ASSUME NEW p \in Pages, PageFault(p) PROVE BuffersAccounted'
  BY <1>7 DEF PageFault, BuffersOwned, DrawTypeOK, WorkTypeOK, wire
<1>8. ASSUME NEW l \in Lines, MappedStore(l) PROVE BuffersAccounted'
  <2>1. DrawTypeOK'
    BY <1>8 DEF MappedStore, DrawTypeOK
  <2>2. BuffersOwned'
    BY <1>8 DEF MappedStore, BuffersOwned, work, wire
  <2> QED BY <1>8, <2>1, <2>2 DEF MappedStore
<1>9. CASE StartUpdate
  BY <1>9 DEF StartUpdate, BuffersOwned, DrawTypeOK, WorkTypeOK, wire
<1>10. CASE CopyLine
  <2>1. LifeTypeOK' /\ DrawTypeOK'
    BY <1>10 DEF CopyLine
  <2>2. i \in Lines /\ mem[i] \in Nat
    BY <1>10 DEF CopyLine, DrawTypeOK, WorkTypeOK
  <2>3. WorkTypeOK'
    BY <1>10, <2>2 DEF CopyLine, WorkTypeOK
  <2>4. bufs' = bufs + 1 /\ queue' = queue /\ shown' = shown /\ lost' = lost
    BY <1>10 DEF CopyLine
  <2>5. WireTypeOK'
    BY <2>4 DEF WireTypeOK
  <2>6. BuffersOwned'
    BY <1>10, <2>4 DEF CopyLine, BuffersOwned, WireTypeOK
  <2> QED BY <2>1, <2>3, <2>5, <2>6
<1>11. CASE AllocFails
  BY <1>11 DEF AllocFails, AbortFrame, BuffersOwned, WorkTypeOK, WireTypeOK
<1>12. CASE SubmitLine
  <2>1. i \in Lines /\ Urb \in Urbs /\ queue \in Seq(Urbs)
    BY <1>12, UrbFacts DEF SubmitLine, SubmitInLoop, Urb, WorkTypeOK, WireTypeOK
  <2>2. /\ queue' = Append(queue, Urb) /\ bufs' = bufs /\ shown' = shown
        /\ lost' = lost \ {i}
    BY <1>12 DEF SubmitLine, SubmitInLoop
  <2>3. /\ upd = "submit" /\ upd' \in {"idle", "copy"} /\ i' = i + 1 /\ snap' = snap
        /\ pending' = pending /\ (upd' = "copy" => i + 1 < Height)
    BY <1>12 DEF SubmitLine, SubmitInLoop
  <2>4. LifeTypeOK' /\ DrawTypeOK'
    BY <1>12 DEF SubmitLine, SubmitInLoop
  <2>5. WorkTypeOK'
    BY <2>1, <2>3 DEF WorkTypeOK
  <2>6. WireTypeOK'
    BY <2>1, <2>2, AppendFacts DEF WireTypeOK
  <2>7. BuffersOwned'
    BY <2>1, <2>2, <2>3, AppendFacts DEF BuffersOwned
  <2> QED BY <2>4, <2>5, <2>6, <2>7
<1>13. CASE SubmitFails
  <2>1. LifeTypeOK' /\ DrawTypeOK'
    BY <1>13 DEF SubmitFails
  <2>2. WorkTypeOK'
    BY <1>13 DEF SubmitFails, AbortFrame, WorkTypeOK
  <2>3. bufs = Len(queue) + 1 /\ Len(queue) \in Nat
    BY <1>13 DEF SubmitFails, BuffersOwned, WireTypeOK
  <2>4. /\ bufs' = bufs - 1 /\ queue' = queue /\ shown' = shown /\ upd' = "idle"
        /\ lost' = lost \cup (i .. Height - 1) /\ i \in Lines
    BY <1>13 DEF SubmitFails, AbortFrame, WorkTypeOK
  <2>5. WireTypeOK'
    BY <2>3, <2>4 DEF WireTypeOK
  <2>6. BuffersOwned'
    BY <2>3, <2>4 DEF BuffersOwned
  <2> QED BY <2>1, <2>2, <2>5, <2>6
<1>14. CASE UrbDone
  <2>1. Dequeued /\ Head(queue) \in Urbs
    BY <1>14, HeadFacts DEF UrbDone, Dequeued, WireTypeOK, work
  <2>2. queue' \in Seq(Urbs) /\ bufs' \in Nat /\ BuffersOwned'
    BY <2>1, DequeueTypes
  <2>3. WireTypeOK'
    BY <1>14, <2>1, <2>2, UrbFacts DEF UrbDone, WireTypeOK
  <2>4. QED
    BY <1>14, <2>2, <2>3 DEF UrbDone
<1>15. CASE UrbError
  <2>1. Dequeued /\ Head(queue) \in Urbs
    BY <1>15, HeadFacts DEF UrbError, Dequeued, WireTypeOK, work
  <2>2. queue' \in Seq(Urbs) /\ bufs' \in Nat /\ BuffersOwned'
    BY <2>1, DequeueTypes
  <2>3. WireTypeOK'
    BY <1>15, <2>1, <2>2, UrbFacts DEF UrbError, WireTypeOK
  <2>4. QED
    BY <1>15, <2>2, <2>3 DEF UrbError
<1>16. CASE UNCHANGED vars
  <2>1. BuffersOwned'
    BY <1>16 DEF vars, BuffersOwned, work, wire
  <2> QED BY <1>16, <2>1 DEF vars
<1>17. QED
  BY <1>1, <1>2, <1>3, <1>4, <1>5, <1>6, <1>7, <1>8, <1>9, <1>10, <1>11,
     <1>12, <1>13, <1>14, <1>15, <1>16 DEF Next, Update, Complete

LEMMA InitTypes == Init => BuffersAccounted
<1>1. Init => LifeTypeOK /\ DrawTypeOK /\ WorkTypeOK
  BY LineFacts DEF Init, LifeTypeOK, DrawTypeOK, WorkTypeOK
<1>2. Init => WireTypeOK /\ BuffersOwned
  BY EmptySeqFacts DEF Init, WireTypeOK, BuffersOwned
<1>3. QED
  BY <1>1, <1>2 DEF BuffersAccounted, TypeOK

(* Type correctness, and no buffer leaked or freed twice on any path of    *)
(* ls027b7dh01_update and usb_write_cb.                                    *)
THEOREM BuffersSafe == Spec => []BuffersAccounted
  BY InitTypes, TypeStep, PTL DEF Spec

(* The part of it about types: in particular the line counter of the       *)
(* update is a line wherever the update uses it.                           *)
THEOREM UsbTypes == Spec => []TypeOK
<1>1. BuffersAccounted => TypeOK BY DEF BuffersAccounted
<1> QED BY <1>1, BuffersSafe, PTL

-----------------------------------------------------------------------------
(* The order of versions along the pipeline.                               *)

LEMMA IndexTypes ==
  ASSUME BuffersAccounted
  PROVE  /\ \A l \in Lines : mem[l] \in Nat /\ shown[l] \in Nat
         /\ \A k \in 1 .. Len(queue) :
              queue[k] \in Urbs /\ queue[k].line \in Lines /\ queue[k].ver \in Nat
         /\ Len(queue) \in Nat
         /\ snap \in Nat
         /\ upd # "idle" => i \in Lines
  BY UrbFacts DEF BuffersAccounted, TypeOK, DrawTypeOK, WireTypeOK, WorkTypeOK

(* A store only raises versions in memory, at the end of the pipeline.     *)
LEMMA StoreKeepsOrder ==
  ASSUME BuffersAccounted, PipelineOrdered, NEW l \in Lines,
         mem' = [mem EXCEPT ![l] = @ + 1], UNCHANGED <<queue, shown, upd, i, snap>>
  PROVE  PipelineOrdered'
<1>1. \A m \in Lines : mem'[m] \in Nat /\ mem[m] <= mem'[m]
  BY IndexTypes DEF BuffersAccounted, TypeOK, DrawTypeOK
<1>2. ShownOrdered' /\ QueueBetween' /\ QueueOrdered'
  BY <1>1, IndexTypes DEF PipelineOrdered, ShownOrdered, QueueBetween, QueueOrdered
<1>3. SnapBetween'
  BY <1>1, IndexTypes DEF PipelineOrdered, SnapBetween
<1>4. QED
  BY <1>2, <1>3 DEF PipelineOrdered

(* Completing the oldest URB, whether it changes shown or not.             *)
LEMMA CompleteKeepsOrder ==
  ASSUME BuffersAccounted, PipelineOrdered, queue # <<>>, queue' = Tail(queue),
         \/ UNCHANGED shown
         \/ shown' = [shown EXCEPT ![Head(queue).line] = Head(queue).ver],
         UNCHANGED <<mem, upd, i, snap>>
  PROVE  PipelineOrdered'
<1>1. queue \in Seq(Urbs)
  BY DEF BuffersAccounted, TypeOK, WireTypeOK
<1>2. /\ Len(queue) \in Nat \ {0} /\ Len(queue') = Len(queue) - 1
      /\ \A k \in 1 .. Len(queue') : k + 1 \in 1 .. Len(queue) /\ queue'[k] = queue[k + 1]
      /\ 1 \in 1 .. Len(queue) /\ Head(queue) = queue[1]
  BY <1>1, HeadFacts
<1>3. \A m \in Lines : \/ shown'[m] = shown[m]
                       \/ m = queue[1].line /\ shown'[m] = queue[1].ver
  BY <1>2, IndexTypes DEF BuffersAccounted, TypeOK, WireTypeOK
<1>4. ShownOrdered'
  BY <1>2, <1>3, IndexTypes DEF PipelineOrdered, ShownOrdered, QueueBetween
<1>5. QueueBetween'
  <2> SUFFICES ASSUME NEW k \in 1 .. Len(queue')
               PROVE  /\ shown'[queue'[k].line] <= queue'[k].ver
                      /\ queue'[k].ver <= mem[queue'[k].line]
    BY DEF QueueBetween
  <2>1. k + 1 \in 1 .. Len(queue) /\ 1 < k + 1 /\ queue'[k] = queue[k + 1]
    BY <1>2
  <2>2. QED
    BY <1>2, <1>3, <2>1, IndexTypes DEF PipelineOrdered, QueueBetween, QueueOrdered
<1>6. QueueOrdered'
  <2> SUFFICES ASSUME NEW j \in 1 .. Len(queue'), NEW k \in 1 .. Len(queue'),
                      j < k, queue'[j].line = queue'[k].line
               PROVE  queue'[j].ver <= queue'[k].ver
    BY DEF QueueOrdered
  <2>1. /\ j + 1 \in 1 .. Len(queue) /\ k + 1 \in 1 .. Len(queue) /\ j + 1 < k + 1
        /\ queue'[j] = queue[j + 1] /\ queue'[k] = queue[k + 1]
    BY <1>2
  <2>2. QED
    BY <2>1 DEF PipelineOrdered, QueueOrdered
<1>7. SnapBetween'
  BY <1>2, <1>3, IndexTypes DEF PipelineOrdered, SnapBetween
<1>8. QED
  BY <1>4, <1>5, <1>6, <1>7 DEF PipelineOrdered

(* Submitting the snapshot puts it behind every queued version.            *)
LEMMA SubmitKeepsOrder ==
  ASSUME BuffersAccounted, PipelineOrdered, SubmitLine
  PROVE  PipelineOrdered'
<1>1. /\ upd = "submit" /\ queue' = Append(queue, Urb)
      /\ UNCHANGED <<mem, shown, snap>> /\ upd' # "submit"
  BY DEF SubmitLine, SubmitInLoop, draw
<1>2. i \in Lines /\ snap \in Nat /\ queue \in Seq(Urbs)
  BY <1>1 DEF BuffersAccounted, TypeOK, WorkTypeOK, WireTypeOK
<1>3. Urb \in Urbs /\ Urb.line = i /\ Urb.ver = snap
  BY <1>2, UrbFacts DEF Urb
<1>4. /\ Len(queue) \in Nat /\ Len(queue') = Len(queue) + 1
      /\ \A k \in 1 .. Len(queue') :
           \/ k \in 1 .. Len(queue) /\ queue'[k] = queue[k]
           \/ k = Len(queue) + 1 /\ queue'[k] = Urb
  <2>1. /\ Len(queue) \in Nat /\ Len(queue') = Len(queue) + 1
        /\ \A k \in 1 .. Len(queue) : queue'[k] = queue[k]
        /\ queue'[Len(queue) + 1] = Urb
    BY <1>1, <1>2, <1>3, AppendFacts
  <2>2. \A k \in 1 .. Len(queue) + 1 : k \in 1 .. Len(queue) \/ k = Len(queue) + 1
    BY <2>1
  <2>3. QED
    BY <2>1, <2>2
<1>5. ShownOrdered' /\ SnapBetween'
  BY <1>1 DEF PipelineOrdered, ShownOrdered, SnapBetween
<1>6. QueueBetween'
  BY <1>1, <1>3, <1>4 DEF PipelineOrdered, QueueBetween, SnapBetween
<1>7. QueueOrdered'
  <2> SUFFICES ASSUME NEW j \in 1 .. Len(queue'), NEW k \in 1 .. Len(queue'),
                      j < k, queue'[j].line = queue'[k].line
               PROVE  queue'[j].ver <= queue'[k].ver
    BY DEF QueueOrdered
  <2>1. j \in 1 .. Len(queue) /\ queue'[j] = queue[j]
    BY <1>4
  <2>2. CASE k \in 1 .. Len(queue) /\ queue'[k] = queue[k]
    BY <2>1, <2>2 DEF PipelineOrdered, QueueOrdered
  <2>3. CASE queue'[k] = Urb
    BY <1>1, <1>3, <2>1, <2>3 DEF PipelineOrdered, SnapBetween
  <2>4. QED
    BY <1>4, <2>2, <2>3
<1>8. QED
  BY <1>5, <1>6, <1>7 DEF PipelineOrdered

LEMMA OrderStep == BuffersAccounted /\ PipelineOrdered /\ [Next]_vars => PipelineOrdered'
<1> SUFFICES ASSUME BuffersAccounted, PipelineOrdered, [Next]_vars PROVE PipelineOrdered'
  OBVIOUS
<1>1. ASSUME UNCHANGED <<mem, queue, shown, i, snap>>,
             upd' = upd \/ upd' # "submit"
      PROVE  PipelineOrdered'
  BY <1>1 DEF PipelineOrdered, ShownOrdered, QueueBetween, QueueOrdered, SnapBetween
<1>2. CASE Probe \/ ProbeFails \/ Disconnect
  BY <1>1, <1>2 DEF Probe, ProbeFails, Disconnect, draw, work, wire
<1>3. ASSUME NEW w \in Writers, BeginOp(w) \/ Invalidate(w) PROVE PipelineOrdered'
  BY <1>1, <1>3 DEF BeginOp, Invalidate, work, wire
<1>4. ASSUME NEW w \in Writers, StoreLine(w) PROVE PipelineOrdered'
  <2>1. PICK l \in todo[w] : mem' = [mem EXCEPT ![l] = @ + 1]
    BY <1>4 DEF StoreLine
  <2>2. l \in Lines
    BY DEF BuffersAccounted, TypeOK, DrawTypeOK
  <2>3. QED
    BY <1>4, <2>1, <2>2, StoreKeepsOrder DEF StoreLine, work, wire
<1>5. ASSUME NEW p \in Pages, PageFault(p) PROVE PipelineOrdered'
  BY <1>1, <1>5 DEF PageFault, wire
<1>6. ASSUME NEW l \in Lines, MappedStore(l) PROVE PipelineOrdered'
  BY <1>6, StoreKeepsOrder DEF MappedStore, work, wire
<1>7. CASE StartUpdate
  BY <1>7 DEF StartUpdate, wire, PipelineOrdered, ShownOrdered, QueueBetween,
              QueueOrdered, SnapBetween
<1>8. CASE CopyLine
  <2>1. ShownOrdered' /\ QueueBetween' /\ QueueOrdered'
    BY <1>8 DEF CopyLine, draw, PipelineOrdered, ShownOrdered, QueueBetween, QueueOrdered
  <2>2. i \in Lines /\ mem[i] \in Nat
    BY <1>8, IndexTypes DEF CopyLine
  <2>3. SnapBetween'
    BY <1>8, <2>2 DEF CopyLine, draw, PipelineOrdered, ShownOrdered, QueueBetween, SnapBetween
  <2>4. QED
    BY <2>1, <2>3 DEF PipelineOrdered
<1>9. CASE AllocFails \/ SubmitFails
  BY <1>1, <1>9 DEF AllocFails, SubmitFails, AbortFrame, draw
<1>10. CASE SubmitLine
  BY <1>10, SubmitKeepsOrder
<1>11. CASE UrbDone
  BY <1>11, CompleteKeepsOrder DEF UrbDone, draw, work
<1>12. CASE UrbError
  BY <1>12, CompleteKeepsOrder DEF UrbError, draw, work
<1>13. CASE UNCHANGED vars
  BY <1>1, <1>13 DEF vars, draw, work, wire
<1>14. QED
  BY <1>2, <1>3, <1>4, <1>5, <1>6, <1>7, <1>8, <1>9, <1>10, <1>11, <1>12, <1>13
     DEF Next, Update, Complete

-----------------------------------------------------------------------------
(* No store is forgotten.                                                  *)

LEMMA DueStep ==
  BuffersAccounted /\ WritableIsScheduled /\ SnapCurrentOrDue /\ [Next]_vars
    => WritableIsScheduled' /\ SnapCurrentOrDue'
<1> SUFFICES ASSUME BuffersAccounted, WritableIsScheduled, SnapCurrentOrDue, [Next]_vars
             PROVE  WritableIsScheduled' /\ SnapCurrentOrDue'
  OBVIOUS
<1> USE DEF WritableIsScheduled, SnapCurrentOrDue
<1>1. CASE Probe \/ ProbeFails \/ Disconnect
  BY <1>1 DEF Probe, ProbeFails, Disconnect, draw, work
<1>2. ASSUME NEW w \in Writers, BeginOp(w) \/ StoreLine(w) \/ Invalidate(w)
      PROVE  WritableIsScheduled' /\ SnapCurrentOrDue'
  BY <1>2 DEF BeginOp, StoreLine, Invalidate, work
<1>3. ASSUME NEW p \in Pages, PageFault(p)
      PROVE  WritableIsScheduled' /\ SnapCurrentOrDue'
  BY <1>3 DEF PageFault
<1>4. ASSUME NEW l \in Lines, MappedStore(l)
      PROVE  WritableIsScheduled' /\ SnapCurrentOrDue'
  BY <1>4 DEF MappedStore, work
<1>5. CASE StartUpdate
  BY <1>5 DEF StartUpdate
<1>6. CASE CopyLine
  BY <1>6 DEF CopyLine, draw
<1>7. CASE AllocFails \/ SubmitFails
  BY <1>7 DEF AllocFails, SubmitFails, AbortFrame, draw
<1>8. CASE SubmitLine
  BY <1>8 DEF SubmitLine, SubmitInLoop, draw
<1>9. CASE UrbDone \/ UrbError
  BY <1>9 DEF UrbDone, UrbError, draw, work
<1>10. CASE UNCHANGED vars
  BY <1>10 DEF vars, draw, work
<1>11. QED
  BY <1>1, <1>2, <1>3, <1>4, <1>5, <1>6, <1>7, <1>8, <1>9, <1>10
     DEF Next, Update, Complete
(* A line of the device that stays as it was, and whose pipeline entries   *)
(* stay, keeps what it had.                                                *)
Safe(l) == shown[l] = mem[l] \/ InFlight(l) \/ Scheduled(l) \/ l \in lost

LEMMA ForgottenStep ==
  IInv /\ [Next]_vars => NoForgottenLine'
<1> SUFFICES ASSUME IInv, [Next]_vars, NEW l \in Lines PROVE Safe(l)'
  BY DEF NoForgottenLine, Safe
<1>1. Safe(l)
  BY DEF IInv, NoForgottenLine, Safe
<1>2. BuffersAccounted /\ PipelineOrdered
  BY DEF IInv
<1>3. ASSUME UNCHANGED <<mem, queue, shown, lost, upd, i, snap>>,
             drawing' # {} \/ pending' \/ UNCHANGED <<drawing, pending>>
      PROVE  Safe(l)'
  BY <1>1, <1>3 DEF Safe, InFlight, Scheduled
<1>4. ASSUME drawing' # {} \/ pending' PROVE Safe(l)'
  BY <1>4 DEF Safe, Scheduled
<1>5. CASE Probe \/ ProbeFails \/ Disconnect
  BY <1>3, <1>5 DEF Probe, ProbeFails, Disconnect, draw, work, wire
<1>6. ASSUME NEW w \in Writers, BeginOp(w) \/ StoreLine(w) \/ Invalidate(w)
      PROVE  Safe(l)'
  BY <1>4, <1>6 DEF BeginOp, StoreLine, Invalidate
<1>7. ASSUME NEW p \in Pages, PageFault(p) PROVE Safe(l)'
  BY <1>4, <1>7 DEF PageFault
<1>8. ASSUME NEW m \in Lines, MappedStore(m) PROVE Safe(l)'
  BY <1>4, <1>8 DEF MappedStore, work, IInv, WritableIsScheduled
<1>9. CASE StartUpdate
  BY <1>9, LineFacts DEF StartUpdate, Safe, Scheduled
<1>10. CASE CopyLine
  <2>1. /\ upd = "copy" /\ upd' = "submit" /\ snap' = mem[i]
        /\ UNCHANGED <<mem, drawing, pending, queue, shown, lost, i>>
    BY <1>10 DEF CopyLine, draw
  <2>2. i \in Nat /\ l \in Nat
    BY <1>2, <2>1, IndexTypes, LineFacts
  <2>3. QED
    BY <1>1, <2>1, <2>2 DEF Safe, InFlight, Scheduled
<1>11. CASE AllocFails \/ SubmitFails
  <2>1. /\ upd # "idle" /\ lost' = lost \cup (i .. Height - 1)
        /\ UNCHANGED <<mem, drawing, pending, queue, shown>>
    BY <1>11 DEF AllocFails, SubmitFails, AbortFrame, draw
  <2>2. i \in Nat /\ l \in Nat /\ l <= Height - 1 /\ Height \in Nat
    BY <1>2, <2>1, IndexTypes, HeightAssumption DEF Lines
  <2>3. i <= l => l \in lost'
    BY <2>1, <2>2
  <2>4. QED
    BY <1>1, <2>1, <2>2, <2>3 DEF Safe, InFlight, Scheduled
<1>12. CASE SubmitLine
  <2>1. /\ upd = "submit" /\ queue' = Append(queue, Urb) /\ lost' = lost \ {i}
        /\ i' = i + 1 /\ upd' = IF i + 1 < Height THEN "copy" ELSE "idle"
        /\ UNCHANGED <<mem, drawing, pending, shown, snap>>
    BY <1>12 DEF SubmitLine, SubmitInLoop, draw
  <2>2. /\ i \in Lines /\ i \in Nat /\ l \in Nat /\ l < Height /\ Height \in Nat
        /\ snap \in Nat /\ queue \in Seq(Urbs)
    BY <1>2, <2>1, IndexTypes, HeightAssumption
       DEF Lines, BuffersAccounted, TypeOK, WireTypeOK
  <2>3. Urb \in Urbs /\ Urb = [line |-> i, ver |-> snap]
    BY <2>2, UrbFacts DEF Urb
  <2>4. InFlight(l) => InFlight(l)'
    BY <2>1, <2>2, <2>3, AppendFacts DEF InFlight
  <2>5. i = l /\ snap = mem[l] => InFlight(l)'
    BY <2>1, <2>2, <2>3, AppendFacts DEF InFlight
  <2>6. CASE i = l
    BY <1>1, <2>1, <2>4, <2>5, <2>6 DEF IInv, SnapCurrentOrDue, Safe, Scheduled
  <2>7. CASE i # l
    BY <1>1, <2>1, <2>2, <2>4, <2>7 DEF Safe, Scheduled
  <2>8. QED
    BY <2>6, <2>7
<1>13. ASSUME UrbDone \/ UrbError
       PROVE  /\ queue \in Seq(Urbs) /\ queue # <<>>
              /\ 1 \in 1 .. Len(queue) /\ Head(queue) = queue[1]
              /\ Head(queue) \in Urbs
              /\ InFlight(l) => InFlight(l)' \/ Head(queue) = [line |-> l, ver |-> mem[l]]
              /\ Scheduled(l) => Scheduled(l)'
  <2>1. /\ queue # <<>> /\ queue' = Tail(queue)
        /\ UNCHANGED <<mem, drawing, pending, upd, i, snap>>
    BY <1>13 DEF UrbDone, UrbError, draw, work
  <2>2. queue \in Seq(Urbs)
    BY <1>2 DEF BuffersAccounted, TypeOK, WireTypeOK
  <2>3. /\ Len(queue) \in Nat \ {0} /\ Len(queue') = Len(queue) - 1
        /\ \A k \in 2 .. Len(queue) : k - 1 \in 1 .. Len(queue') /\ queue'[k - 1] = queue[k]
        /\ 1 \in 1 .. Len(queue) /\ Head(queue) = queue[1] /\ Head(queue) \in Urbs
    BY <2>1, <2>2, HeadFacts
  <2>4. \A k \in 1 .. Len(queue) : k = 1 \/ k \in 2 .. Len(queue)
    BY <2>3
  <2>5. InFlight(l) => InFlight(l)' \/ Head(queue) = [line |-> l, ver |-> mem[l]]
    BY <2>1, <2>3, <2>4 DEF InFlight
  <2>6. Scheduled(l) => Scheduled(l)'
    BY <2>1 DEF Scheduled
  <2>7. QED
    BY <2>1, <2>2, <2>3, <2>5, <2>6
<1>14. CASE UrbDone
  <2>1. /\ shown' = [shown EXCEPT ![Head(queue).line] = Head(queue).ver]
        /\ UNCHANGED <<mem, lost>> /\ shown \in [Lines -> Nat]
        /\ mem[l] \in Nat /\ shown[l] \in Nat /\ Head(queue).ver \in Nat
    BY <1>2, <1>13, <1>14, IndexTypes, UrbFacts
       DEF UrbDone, draw, BuffersAccounted, TypeOK, WireTypeOK
  <2>2. Head(queue).line = l => shown[l] <= Head(queue).ver /\ Head(queue).ver <= mem[l]
    BY <1>2, <1>13, <1>14 DEF PipelineOrdered, QueueBetween
  <2>3. shown[l] = mem[l] => shown'[l] = mem'[l]
    BY <2>1, <2>2
  <2>4. Head(queue) = [line |-> l, ver |-> mem[l]] => shown'[l] = mem'[l]
    BY <2>1
  <2>5. QED
    BY <1>1, <1>13, <1>14, <2>1, <2>3, <2>4 DEF Safe
<1>15. CASE UrbError
  <2>1. UNCHANGED <<mem, shown>> /\ lost' = lost \cup {Head(queue).line}
    BY <1>15 DEF UrbError, draw
  <2>2. QED
    BY <1>1, <1>13, <1>15, <2>1 DEF Safe
<1>16. CASE UNCHANGED vars
  BY <1>3, <1>16 DEF vars, draw, work, wire
<1>17. QED
  BY <1>5, <1>6, <1>7, <1>8, <1>9, <1>10, <1>11, <1>12, <1>14, <1>15, <1>16
     DEF Next, Update, Complete

LEMMA Inductive == Spec => []IInv
<1>1. Init => IInv
  <2> SUFFICES ASSUME Init PROVE IInv
    OBVIOUS
  <2>1. BuffersAccounted
    BY InitTypes
  <2>2. upd = "idle" /\ writable = {} /\ queue = <<>> /\ Len(queue) = 0
    BY EmptySeqFacts DEF Init
  <2>3. \A l \in Lines : shown[l] = 0 /\ mem[l] = 0
    BY DEF Init
  <2>4. PipelineOrdered
    BY <2>2, <2>3
       DEF PipelineOrdered, ShownOrdered, QueueBetween, QueueOrdered, SnapBetween
  <2>5. QED
    BY <2>1, <2>2, <2>3, <2>4
       DEF IInv, WritableIsScheduled, SnapCurrentOrDue, NoForgottenLine
<1>2. IInv /\ [Next]_vars => IInv'
  BY TypeStep, OrderStep, DueStep, ForgottenStep DEF IInv
<1>3. QED
  BY <1>1, <1>2, PTL DEF Spec

(* No store is forgotten, for any number of lines, threads and URBs and    *)
(* any faults: the property the run MemLcdUsb checks.                      *)
THEOREM StoresNotForgotten == Spec => []NoForgottenLine
<1>1. IInv => NoForgottenLine
  BY DEF IInv
<1>2. QED
  BY <1>1, Inductive, PTL

(* One step of the driver is a step of the display, or leaves it alone.    *)
LEMMA DisplayStep == IInv /\ IInv' /\ [Next]_vars => [D!Next]_(D!vars)
<1> SUFFICES ASSUME IInv, IInv', [Next]_vars PROVE [D!Next]_(D!vars)
  OBVIOUS
<1>1. /\ mem \in [Lines -> Nat] /\ shown \in [Lines -> Nat]
      /\ mem' \in [Lines -> Nat] /\ shown' \in [Lines -> Nat]
      /\ \A l \in Lines : shown[l] <= mem[l]
  BY DEF IInv, BuffersAccounted, TypeOK, DrawTypeOK, WireTypeOK, PipelineOrdered, ShownOrdered
<1>2. ASSUME UNCHANGED <<mem, shown>> PROVE [D!Next]_(D!vars)
  BY <1>2 DEF D!vars
<1>3. ASSUME NEW l \in Lines, mem' = [mem EXCEPT ![l] = @ + 1], UNCHANGED shown
      PROVE  D!Next
  BY <1>1, <1>3 DEF D!Next, D!Showable
<1>4. CASE Probe \/ ProbeFails \/ Disconnect
  BY <1>2, <1>4 DEF Probe, ProbeFails, Disconnect, draw, wire
<1>5. ASSUME NEW w \in Writers, BeginOp(w) \/ Invalidate(w) PROVE [D!Next]_(D!vars)
  BY <1>2, <1>5 DEF BeginOp, Invalidate, wire
<1>6. ASSUME NEW w \in Writers, StoreLine(w) PROVE [D!Next]_(D!vars)
  <2>1. PICK l \in todo[w] : mem' = [mem EXCEPT ![l] = @ + 1]
    BY <1>6 DEF StoreLine
  <2>2. l \in Lines /\ UNCHANGED shown
    BY <1>6 DEF StoreLine, wire, IInv, BuffersAccounted, TypeOK, DrawTypeOK
  <2>3. QED
    BY <1>3, <2>1, <2>2
<1>7. ASSUME NEW p \in Pages, PageFault(p) PROVE [D!Next]_(D!vars)
  BY <1>2, <1>7 DEF PageFault, wire
<1>8. ASSUME NEW l \in Lines, MappedStore(l) PROVE [D!Next]_(D!vars)
  BY <1>3, <1>8 DEF MappedStore, wire
<1>9. CASE StartUpdate \/ CopyLine \/ AllocFails \/ SubmitLine \/ SubmitFails \/ UrbError
  BY <1>2, <1>9 DEF StartUpdate, CopyLine, AllocFails, SubmitLine, SubmitInLoop,
                    SubmitFails, UrbError, draw, wire
<1>10. CASE UrbDone
  <2>1. /\ UNCHANGED mem /\ queue # <<>> /\ queue \in Seq(Urbs)
        /\ shown' = [shown EXCEPT ![Head(queue).line] = Head(queue).ver]
    BY <1>10 DEF UrbDone, draw, IInv, BuffersAccounted, TypeOK, WireTypeOK
  <2>2. 1 \in 1 .. Len(queue) /\ Head(queue) = queue[1] /\ Head(queue).ver \in Nat
    BY <2>1, HeadFacts, UrbFacts
  <2>3. \A l \in Lines : Head(queue).line = l =>
          shown[l] <= Head(queue).ver /\ Head(queue).ver <= mem[l]
    BY <2>1, <2>2 DEF IInv, PipelineOrdered, QueueBetween
  <2>4. \A l \in Lines : shown'[l] \in shown[l] .. mem[l]
    BY <1>1, <2>1, <2>2, <2>3
  <2>5. D!Next
    BY <1>1, <2>1, <2>4 DEF D!Next, D!Showable
  <2>6. QED
    BY <2>5
<1>11. CASE UNCHANGED vars
  BY <1>2, <1>11 DEF vars, draw, wire
<1>12. QED
  BY <1>4, <1>5, <1>6, <1>7, <1>8, <1>9, <1>10, <1>11 DEF Next, Update, Complete

(* The driver is a display: the device shows what was stored in a line,    *)
(* and never goes back to older content.                                   *)
THEOREM DriverIsADisplay == Spec => ImplementsDisplay
<1>1. Init => D!Init
  BY DEF Init, D!Init
<1>2. QED
  BY <1>1, DisplayStep, Inductive, PTL DEF Spec, ImplementsDisplay, D!Spec
=============================================================================
