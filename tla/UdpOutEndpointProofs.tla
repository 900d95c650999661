------------------------ MODULE UdpOutEndpointProofs ------------------------
(***************************************************************************)
(* Proofs about UdpOutEndpoint, for one or two banks, buffers of any size, *)
(* and either behaviour of the hardware at a bus reset.                    *)
(***************************************************************************)
EXTENDS UdpOutEndpoint, SequenceTheorems, TLAPS

USE BanksAssumption, JobSizeAssumption, SwitchAssumption

-----------------------------------------------------------------------------
(* The two banks alternate.                                                *)
LEMMA OtherFacts ==
  ASSUME NEW b \in BankIds
  PROVE  /\ Other(b) \in BankIds
         /\ Banks = 2 => Other(b) # b /\ Other(Other(b)) = b
         /\ Banks = 1 => Other(b) = b /\ b = 0
<1>1. CASE Banks = 1
  BY <1>1 DEF BankIds, Other
<1>2. CASE Banks = 2
  BY <1>2 DEF BankIds, Other
<1> QED BY <1>1, <1>2

(* What a queue of received packets holds.                                 *)
LEMMA QueueFacts ==
  ASSUME FifoTypeOK, rx # <<>>
  PROVE  /\ Len(rx) \in {1, 2} /\ (Len(rx) = 2 => Banks = 2)
         /\ Head(rx) = rx[1] /\ Head(rx) \in Packets /\ Head(rx).bank \in BankIds
         /\ Tail(rx) \in Seq(Packets) /\ Len(Tail(rx)) = Len(rx) - 1
         /\ Len(rx) = 1 => Tail(rx) = <<>>
         /\ Len(rx) = 2 => Tail(rx) # <<>> /\ Head(Tail(rx)) = rx[2] /\ rx[2].bank \in BankIds
<1>1. rx \in Seq(Packets) /\ Len(rx) \in 0 .. Banks
  BY DEF FifoTypeOK
<1>2. Len(rx) # 0
  BY <1>1, EmptySeq
<1>3. Len(rx) \in {1, 2} /\ (Len(rx) = 2 => Banks = 2)
  <2>1. CASE Banks = 1
    BY <2>1, <1>1, <1>2
  <2>2. CASE Banks = 2
    BY <2>2, <1>1, <1>2
  <2> QED BY <2>1, <2>2
<1>4. Head(rx) = rx[1] /\ Head(rx) \in Packets
  BY <1>1, <1>2, <1>3
<1>5. \A p \in Packets : p.bank \in BankIds
  BY DEF Packets
<1>6. Tail(rx) \in Seq(Packets) /\ Len(Tail(rx)) = Len(rx) - 1
  BY <1>1, <1>3
<1>7. Len(rx) = 1 => Tail(rx) = <<>>
  <2>1. SUFFICES ASSUME Tail(rx) # <<>> PROVE Len(rx) # 1
    OBVIOUS
  <2>2. Len(Tail(rx)) # 0
    BY <2>1, <1>6, EmptySeq
  <2> QED BY <2>2, <1>3, <1>6
<1>8. ASSUME Len(rx) = 2
      PROVE  Tail(rx) # <<>> /\ Head(Tail(rx)) = rx[2] /\ rx[2] \in Packets
  <2>1. Len(Tail(rx)) = 1
    BY <1>6, <1>8
  <2>2. Tail(rx) # <<>>
    <3>1. Len(<<>>) # 1
      OBVIOUS
    <3> QED BY <2>1, <3>1, Zenon
  <2>3. Tail(rx)[1] = rx[2] /\ rx[2] \in Packets
    BY <1>1, <1>8
  <2>4. Head(Tail(rx)) = Tail(rx)[1]
    BY <1>6, <2>2
  <2> QED BY <2>2, <2>3, <2>4
<1> QED BY <1>3, <1>4, <1>5, <1>6, <1>7, <1>8

(* Resetting the FIFO keeps the packets in their banks.                    *)
LEMMA ResetFacts ==
  ASSUME FifoTypeOK
  PROVE  /\ ResetFifo(rx) \in Seq(Packets) /\ Len(ResetFifo(rx)) = Len(rx)
         /\ \A k \in 1 .. Len(rx) : ResetFifo(rx)[k].bank = rx[k].bank
<1>1. rx \in Seq(Packets) /\ rx \in [1 .. Len(rx) -> Packets]
      /\ DOMAIN rx = 1 .. Len(rx) /\ Len(rx) \in Nat
  BY DEF FifoTypeOK
<1>2. \A p \in Packets : /\ [p EXCEPT !.size = "empty"] \in Packets
                         /\ [p EXCEPT !.size = "empty"].bank = p.bank
  BY DEF Packets, Sizes
<1>3. ResetFifo(rx) \in [1 .. Len(rx) -> Packets]
  BY <1>1, <1>2 DEF ResetFifo
<1>4. ResetFifo(rx) \in Seq(Packets) /\ Len(ResetFifo(rx)) = Len(rx)
  BY <1>1, <1>3
<1>5. \A k \in 1 .. Len(rx) : ResetFifo(rx)[k].bank = rx[k].bank
  BY <1>1, <1>2 DEF ResetFifo
<1> QED BY <1>4, <1>5

(* What a step leaves alone keeps its type.                                *)
LEMMA Frame ==
  /\ CsrTypeOK /\ UNCHANGED csr => CsrTypeOK'
  /\ FifoTypeOK /\ UNCHANGED fifo => FifoTypeOK'
  /\ JobTypeOK /\ UNCHANGED job => JobTypeOK'
  /\ CtxTypeOK /\ UNCHANGED ctx => CtxTypeOK'
  /\ HistTypeOK /\ UNCHANGED hist => HistTypeOK'
BY DEF CsrTypeOK, FifoTypeOK, JobTypeOK, CtxTypeOK, HistTypeOK, csr, fifo, job, ctx, hist

-----------------------------------------------------------------------------
(* Type correctness: one step per part of the state.                       *)

LEMMA CsrTypeStep == TypeOK /\ [Next]_vars => CsrTypeOK'
BY DEF TypeOK, CsrTypeOK, HistTypeOK, Next, Hardware, Isr, Requests, Thread, HostSend, HostStalled, BusReset,
  IsrOut, FinishOut, IsrStall, IsrReset, EpFree, EpAlloc, EnableClass, RunJob, HaltAbort,
  HaltSet, ClearHalt, WaitStallClear, RunCheck, RunClaim, RunSetup, RunStart, vars, csr

LEMMA AckFacts ==
  ASSUME TypeOK, rx # <<>>
  PROVE  /\ AckedBank \in BankIds
         /\ AckOut => /\ rx' \in Seq(Packets) /\ Len(rx') \in 0 .. Banks
                      /\ bank' \in BankIds
<1>1. AckedBank \in BankIds
  BY QueueFacts DEF TypeOK, JobTypeOK, AckedBank
<1>2. Tail(rx) \in Seq(Packets) /\ Len(Tail(rx)) \in 0 .. Banks
  BY QueueFacts DEF TypeOK, FifoTypeOK
<1>3. <<Head(rx)>> \in Seq(Packets) /\ Len(<<Head(rx)>>) \in 0 .. Banks
  BY QueueFacts DEF TypeOK
<1> QED BY <1>1, <1>2, <1>3, OtherFacts DEF AckOut, ClearBank

LEMMA FifoTypeStep == TypeOK /\ [Next]_vars => FifoTypeOK'
<1> SUFFICES ASSUME TypeOK, [Next]_vars PROVE FifoTypeOK'
  OBVIOUS
<1> USE DEF TypeOK
<1>1. CASE HostSend
  <2>1. PICK s \in Sizes : rx' = Append(rx, [bank |-> hwNext, size |-> s])
    BY <1>1 DEF HostSend
  <2>2. [bank |-> hwNext, size |-> s] \in Packets
    BY DEF FifoTypeOK, Packets
  <2>3. rx' \in Seq(Packets) /\ Len(rx') = Len(rx) + 1
    BY <2>1, <2>2 DEF FifoTypeOK
  <2>4. Len(rx') \in 0 .. Banks
    BY <1>1, <2>3 DEF HostSend, FifoTypeOK
  <2>5. hwNext' \in BankIds
    BY <1>1, OtherFacts DEF HostSend, FifoTypeOK
  <2> QED BY <2>3, <2>4, <2>5 DEF FifoTypeOK
<1>2. CASE BusReset
  BY <1>2, EmptySeq DEF BusReset, FifoTypeOK, BankIds
<1>3. CASE IsrOut
  BY <1>3, AckFacts DEF IsrOut, FifoTypeOK
<1>4. CASE EpAlloc \/ ClearHalt
  BY <1>4, ResetFacts DEF EpAlloc, ClearHalt, FifoTypeOK
<1>5. CASE HaltAbort
  BY <1>5, EmptySeq DEF HaltAbort, FifoTypeOK
<1>6. CASE UNCHANGED fifo
  BY <1>6, Frame
<1> QED
  BY <1>1, <1>2, <1>3, <1>4, <1>5, <1>6 DEF Next, Hardware, Isr, Requests, Thread, HostStalled,
    IsrStall, IsrReset, EpFree, EnableClass, HaltSet, WaitStallClear, RunCheck, RunClaim,
    RunSetup, RunStart, vars

LEMMA RunTypes == JobTypeOK /\ RunJob => JobTypeOK'
<1>1. JobSize \in 0 .. JobSize
  OBVIOUS
<1> QED BY <1>1 DEF JobTypeOK, RunJob

LEMMA JobTypeStep == TypeOK /\ [Next]_vars => JobTypeOK'
<1> SUFFICES ASSUME TypeOK, [Next]_vars PROVE JobTypeOK'
  OBVIOUS
<1> USE DEF TypeOK
<1>1. CASE IsrOut
  <2>1. bank' \in BankIds /\ cb' = cb
    BY <1>1, AckFacts DEF IsrOut
  <2>2. CASE \E again \in BOOLEAN : FinishOut(again)
    BY <2>1, <2>2 DEF FinishOut, JobTypeOK
  <2>3. CASE /\ left' = IF Head(rx).size = "empty" \/ left = 0 THEN left ELSE left - 1
             /\ UNCHANGED <<irqOn, busy, given>>
    BY <2>1, <2>3 DEF JobTypeOK
  <2> QED BY <1>1, <2>2, <2>3 DEF IsrOut
<1>2. CASE IsrReset \/ EpFree
  BY <1>2 DEF IsrReset, EpFree, AbortJob, JobTypeOK
<1>3. CASE EnableClass
  <2>1. RunJob \/ UNCHANGED job
    BY <1>3 DEF EnableClass
  <2> QED BY <2>1, RunTypes, Frame
<1>4. CASE HaltAbort
  <2>1. bank' \in BankIds
    BY <1>4, AckFacts, OtherFacts, EmptySeq DEF HaltAbort, JobTypeOK
  <2> QED BY <1>4, <2>1 DEF HaltAbort, JobTypeOK
<1>5. CASE ClearHalt
  <2>1. RunJob \/ (busy' = FALSE /\ UNCHANGED <<cb, left, bank, irqOn>>)
    BY <1>5 DEF ClearHalt
  <2> QED BY <2>1, RunTypes DEF JobTypeOK
<1>6. CASE WaitStallClear \/ RunClaim
  BY <1>6 DEF WaitStallClear, RunClaim, JobTypeOK
<1>8. CASE RunSetup
  <2>1. left' \in 0 .. JobSize
    BY <1>8 DEF RunSetup
  <2> QED BY <1>8, <2>1 DEF RunSetup, JobTypeOK
<1>7. CASE UNCHANGED job
  BY <1>7, Frame
<1> QED
  BY <1>1, <1>2, <1>3, <1>4, <1>5, <1>6, <1>7, <1>8 DEF Next, Hardware, Isr, Requests, Thread,
    HostSend, HostStalled, BusReset, IsrStall, EpAlloc, HaltSet, RunCheck, RunStart, vars, job

LEMMA CtxTypeStep == TypeOK /\ [Next]_vars => CtxTypeOK' /\ HistTypeOK'
BY DEF TypeOK, CtxTypeOK, HistTypeOK, Next, Hardware, Isr, Requests, Thread, HostSend,
  HostStalled, BusReset, IsrOut, FinishOut, IsrStall, IsrReset, EpFree, AbortJob, EpAlloc,
  EnableClass, RunJob, HaltAbort, HaltSet, ClearHalt, WaitStallClear, RunCheck, RunClaim,
  RunSetup, RunStart, vars, ctx, hist

LEMMA InitTypes == Init => TypeOK
<1> SUFFICES ASSUME Init PROVE TypeOK
  OBVIOUS
<1>1. 0 \in BankIds
  BY DEF BankIds
<1>2. FifoTypeOK
  <2>1. rx \in Seq(Packets) /\ Len(rx) \in 0 .. Banks
    BY EmptySeq DEF Init
  <2> QED BY <1>1, <2>1 DEF Init, FifoTypeOK
<1>3. JobTypeOK
  <2>1. 0 \in 0 .. JobSize
    OBVIOUS
  <2> QED BY <1>1, <2>1 DEF Init, JobTypeOK
<1>4. CsrTypeOK /\ CtxTypeOK /\ HistTypeOK
  BY DEF Init, CsrTypeOK, CtxTypeOK, HistTypeOK
<1> QED BY <1>2, <1>3, <1>4 DEF TypeOK

LEMMA TypeStep == TypeOK /\ [Next]_vars => TypeOK'
BY CsrTypeStep, FifoTypeStep, JobTypeStep, CtxTypeStep DEF TypeOK

-----------------------------------------------------------------------------
(* Banks.                                                                  *)

(* The packets pending fill alternating banks, the hardware will fill the  *)
(* one after the last, and the job's bank is the oldest packet's, or else  *)
(* the one the hardware fills next.                                        *)
BanksTracked ==
  /\ rx = <<>> => bank = hwNext
  /\ rx # <<>> => bank = Head(rx).bank
  /\ Len(rx) = 1 => hwNext = Other(Head(rx).bank)
  /\ Len(rx) = 2 => rx[2].bank = Other(rx[1].bank) /\ hwNext = rx[1].bank

BankInv == TypeOK /\ (~wasReset => BanksTracked)

(* Acknowledging takes the oldest packet and moves to the next bank.       *)
LEMMA AckTracks ==
  ASSUME TypeOK, BanksTracked, rx # <<>>, AckOut, hwNext' = hwNext
  PROVE  BanksTracked'
<1> USE DEF TypeOK
<1>1. AckedBank = Head(rx).bank
  BY DEF AckedBank, BanksTracked
<1>2. rx' = Tail(rx) /\ bank' = Other(Head(rx).bank)
  BY <1>1 DEF AckOut, ClearBank
<1>3. CASE Len(rx) = 1
  <2>1. rx' = <<>>
    BY <1>2, <1>3, QueueFacts
  <2>2. bank' = hwNext'
    BY <1>2, <1>3 DEF BanksTracked
  <2> QED BY <2>1, <2>2, EmptySeq DEF BanksTracked
<1>4. CASE Len(rx) = 2
  <2>1. rx' # <<>> /\ Len(rx') = 1 /\ Head(rx') = rx[2]
    BY <1>2, <1>4, QueueFacts
  <2>2. bank' = Head(rx').bank
    BY <1>2, <1>4, <2>1, QueueFacts DEF BanksTracked
  <2>3. hwNext' = Other(Head(rx').bank)
    BY <1>4, <2>1, QueueFacts, OtherFacts DEF BanksTracked
  <2> QED BY <2>1, <2>2, <2>3 DEF BanksTracked
<1> QED
  <2>1. Len(rx) \in {1, 2}
    BY QueueFacts
  <2> QED BY <1>3, <1>4, <2>1

LEMMA BankStep == BankInv /\ [Next]_vars => BankInv'
<1>a. [Next]_vars /\ ~wasReset' => ~wasReset
  BY DEF Next, Hardware, Isr, Requests, Thread, HostSend, HostStalled, BusReset,
    IsrOut, IsrStall, IsrReset, EpFree, EpAlloc, EnableClass, HaltAbort, HaltSet, ClearHalt,
    WaitStallClear, RunCheck, RunClaim, RunSetup, RunStart, vars, hist
<1> SUFFICES ASSUME TypeOK, [Next]_vars, BanksTracked, ~wasReset'
             PROVE  BanksTracked'
  BY <1>a, TypeStep DEF BankInv
<1> USE DEF TypeOK
<1>1. CASE HostSend
  <2>1. PICK s \in Sizes : rx' = Append(rx, [bank |-> hwNext, size |-> s])
    BY <1>1 DEF HostSend
  <2>a. \A n \in Nat : n < Banks => n \in {0, 1}
    OBVIOUS
  <2>2. rx \in Seq(Packets) /\ Len(rx) \in {0, 1} /\ hwNext \in BankIds
    <3>1. rx \in Seq(Packets) /\ Len(rx) \in Nat /\ Len(rx) < Banks /\ hwNext \in BankIds
      BY <1>1 DEF HostSend, FifoTypeOK
    <3> QED BY <3>1, <2>a, Zenon
  <2>3. [bank |-> hwNext, size |-> s] \in Packets
    BY <2>2 DEF Packets
  <2>4. bank' = bank /\ hwNext' = Other(hwNext)
    BY <1>1 DEF HostSend, job
  <2>5. CASE rx = <<>>
    <3>1. Len(rx') = 1 /\ rx' # <<>> /\ Head(rx') = [bank |-> hwNext, size |-> s]
      BY <2>1, <2>5
    <3> QED BY <3>1, <2>4, <2>5 DEF BanksTracked
  <2>6. CASE rx # <<>>
    <3>1. Len(rx) = 1 /\ Banks = 2
      BY <1>1, <2>2, <2>6, QueueFacts DEF HostSend
    <3>2. /\ Len(rx') = 2 /\ rx' # <<>> /\ Head(rx') = Head(rx) /\ rx'[1] = Head(rx)
          /\ rx'[2] = [bank |-> hwNext, size |-> s]
      <4>1. /\ Len(rx') = 2 /\ rx' \in Seq(Packets) /\ rx'[1] = rx[1]
            /\ rx'[2] = [bank |-> hwNext, size |-> s]
        <5> DEFINE p == [bank |-> hwNext, size |-> s]
        <5>1. p \in Packets /\ rx' = Append(rx, p)
          BY <2>1, <2>3
        <5> HIDE DEF p
        <5>2. Append(rx, p) \in Seq(Packets) /\ Len(Append(rx, p)) = 2
          <6>1. rx \in Seq(Packets) /\ p \in Packets /\ Len(rx) = 1
            BY <5>1, <2>2, <3>1
          <6>2. Append(rx, p) \in Seq(Packets) /\ Len(Append(rx, p)) = Len(rx) + 1
            BY <6>1, AppendProperties
          <6> QED BY <6>1, <6>2
        <5>3. Append(rx, p)[1] = rx[1] /\ Append(rx, p)[2] = p
          <6>1. /\ \A k \in 1 .. Len(rx) : Append(rx, p)[k] = rx[k]
                /\ Append(rx, p)[Len(rx) + 1] = p
            BY <5>1, <2>2, AppendProperties
          <6> QED BY <6>1, <3>1
        <5> QED BY <5>1, <5>2, <5>3 DEF p
      <4>2. rx' # <<>> /\ Head(rx') = rx'[1]
        BY <4>1
      <4> QED BY <2>6, <4>1, <4>2, QueueFacts
    <3>3. Head(rx).bank \in BankIds /\ hwNext = Other(Head(rx).bank) /\ bank = Head(rx).bank
      BY <2>6, <3>1, QueueFacts DEF BanksTracked
    <3> QED BY <2>4, <3>1, <3>2, <3>3, OtherFacts DEF BanksTracked
  <2> QED BY <2>5, <2>6
<1>2. CASE IsrOut
  BY <1>2, AckTracks DEF IsrOut
<1>3. CASE EpAlloc \/ (ClearHalt /\ bank' = bank)
  <2>1. rx' = ResetFifo(rx) /\ hwNext' = hwNext /\ bank' = bank
    BY <1>3 DEF EpAlloc, ClearHalt, job
  <2>2. rx' \in Seq(Packets) /\ Len(rx') = Len(rx) /\ rx \in Seq(Packets)
    BY <2>1, ResetFacts DEF FifoTypeOK
  <2>3. CASE rx = <<>>
    <3>1. rx' = <<>>
      BY <2>1, <2>3 DEF ResetFifo
    <3> QED BY <3>1, <2>1, <2>3 DEF BanksTracked
  <2>4. CASE rx # <<>>
    <3>1. rx' # <<>> /\ Head(rx') = rx'[1] /\ Head(rx) = rx[1]
      BY <2>2, <2>4, EmptySeq
    <3>2. rx'[1].bank = rx[1].bank /\ (Len(rx) = 2 => rx'[2].bank = rx[2].bank)
      BY <2>1, <2>4, ResetFacts, QueueFacts
    <3> QED BY <2>1, <2>2, <2>4, <3>1, <3>2 DEF BanksTracked
  <2> QED BY <2>3, <2>4
<1>4. CASE HaltAbort
  <2>1. rx' = <<>> /\ hwNext' = hwNext
    BY <1>4 DEF HaltAbort
  <2>2. bank' = hwNext
    <3>1. CASE rx = <<>>
      BY <1>4, <3>1, EmptySeq DEF HaltAbort, BanksTracked
    <3>2. CASE Len(rx) = 1 /\ rx # <<>>
      BY <1>4, <3>2 DEF HaltAbort, BanksTracked, AckedBank
    <3>3. CASE Len(rx) = 2 /\ rx # <<>>
      BY <1>4, <3>3, QueueFacts DEF HaltAbort, BanksTracked
    <3> QED
      <4>1. rx = <<>> \/ Len(rx) \in {1, 2}
        BY QueueFacts
      <4> QED BY <3>1, <3>2, <3>3, <4>1
  <2> QED BY <2>1, <2>2, EmptySeq DEF BanksTracked
<1>5. CASE UNCHANGED <<rx, hwNext, bank>>
  BY <1>5 DEF BanksTracked
<1> QED
  BY <1>1, <1>2, <1>3, <1>4, <1>5 DEF Next, Hardware, Isr, Requests, Thread, HostStalled, BusReset,
    IsrStall, IsrReset, EpFree, AbortJob, EnableClass, HaltSet, ClearHalt, RunJob,
    WaitStallClear, RunCheck, RunClaim, RunSetup, RunStart, vars, fifo, job, hist

(* Until the bus is reset, the driver never mistakes the bank to           *)
(* acknowledge, and all variables keep their types.                        *)
THEOREM BanksSafe == Spec => [](TypeOK /\ BankInSyncUntilReset)
<1>1. Init => BankInv
  BY InitTypes, EmptySeq DEF Init, BankInv, BanksTracked
<1>2. BankInv => TypeOK /\ BankInSyncUntilReset
  <2> SUFFICES ASSUME TypeOK, BanksTracked, Len(rx) = 2 PROVE bank = rx[1].bank
    BY DEF BankInv, BankInSyncUntilReset, BankInSync
  <2>1. rx # <<>>
    BY EmptySeq
  <2> QED BY <2>1, QueueFacts DEF BanksTracked, TypeOK
<1> QED BY <1>1, <1>2, BankStep, PTL DEF Spec

(* The part of it about types: the buffer never holds more than its size   *)
(* and the banks never more packets than there are.                        *)
THEOREM OutTypes == Spec => []TypeOK
  BY BanksSafe, PTL

-----------------------------------------------------------------------------
(* The interrupt of a running transfer.                                    *)

(* A transfer that the main thread is not setting up right now is masked   *)
(* only from the reset of the bus to its service, when nothing is enabled. *)
ListenInv ==
  /\ busy /\ cb = "trans" /\ pc \in {"idle", "checked"} => irqOn \/ resetPending
  /\ resetPending => ~enabled

LEMMA ListenStep == TypeOK /\ ListenInv /\ [Next]_vars => ListenInv'
<1> SUFFICES ASSUME TypeOK, ListenInv, [Next]_vars PROVE ListenInv'
  OBVIOUS
<1>1. CASE HostSend \/ HostStalled \/ BusReset
  BY <1>1 DEF HostSend, HostStalled, BusReset, ListenInv, csr, job, ctx
<1>2. CASE IsrOut
  <2>1. pc' = pc /\ resetPending' = resetPending /\ enabled' = enabled /\ cb' = cb
    BY <1>2 DEF IsrOut, ctx
  <2>2. CASE \E again \in BOOLEAN : FinishOut(again)
    BY <2>1, <2>2 DEF FinishOut, ListenInv
  <2>3. CASE UNCHANGED <<irqOn, busy, given>>
    BY <2>1, <2>3 DEF ListenInv
  <2> QED BY <1>2, <2>2, <2>3 DEF IsrOut
<1>3. CASE IsrStall \/ IsrReset \/ EpFree
  BY <1>3 DEF IsrStall, IsrReset, EpFree, AbortJob, ListenInv, fifo, job, ctx, hist
<1>4. CASE EpAlloc \/ EnableClass
  BY <1>4 DEF EpAlloc, EnableClass, InIsr, RunJob, ListenInv, fifo, job, hist
<1>5. CASE HaltAbort \/ HaltSet
  BY <1>5 DEF HaltAbort, HaltSet, ListenInv, fifo, job, hist
<1>6. CASE ClearHalt \/ WaitStallClear
  BY <1>6 DEF ClearHalt, WaitStallClear, RunJob, ListenInv, csr, fifo, ctx, hist
<1>7. CASE RunCheck \/ RunSetup \/ RunStart
  BY <1>7 DEF RunCheck, RunSetup, RunStart, ListenInv, csr, fifo, job, hist
<1>8. CASE RunClaim
  BY <1>8 DEF RunClaim, ListenInv, TypeOK, JobTypeOK, csr, fifo, hist
<1>9. CASE UNCHANGED vars
  BY <1>9 DEF ListenInv, vars, csr, job, ctx
<1> QED
  BY <1>1, <1>2, <1>3, <1>4, <1>5, <1>6, <1>7, <1>8, <1>9
     DEF Next, Hardware, Isr, Requests, Thread

(* No interleaving of the interrupt routine, the main thread and the host  *)
(* leaves a running transfer with its interrupt masked.                    *)
THEOREM TransfersListen == Spec => []ArmedJobListens
<1>1. Init => TypeOK /\ ListenInv
  BY InitTypes DEF Init, ListenInv
<1>2. ListenInv => ArmedJobListens
  BY DEF ListenInv, ArmedJobListens
<1> QED BY <1>1, <1>2, TypeStep, ListenStep, PTL DEF Spec

-----------------------------------------------------------------------------
(* As long as the main thread runs no transfer.                            *)

(* A buffer is given only to a job that is on and has a callback, and a    *)
(* job on a halted endpoint, or one about to be halted, is no transfer.    *)
JobsInOrder ==
  /\ pc = "idle"
  /\ given => busy /\ cb # "null"
  /\ isr = "halt" => ~busy
  /\ force /\ busy => cb = "nohalt"

JobInv == ~threaded => JobsInOrder

LEMMA JobStep == TypeOK /\ JobInv /\ [Next]_vars => JobInv'
<1>a. [Next]_vars /\ ~threaded' => ~threaded
  BY DEF Next, Hardware, Isr, Requests, Thread, HostSend, HostStalled, BusReset,
    IsrOut, IsrStall, IsrReset, EpFree, EpAlloc, EnableClass, HaltAbort, HaltSet,
    ClearHalt, WaitStallClear, RunCheck, RunClaim, RunSetup, RunStart, vars, hist
<1> SUFFICES ASSUME TypeOK, JobsInOrder, [Next]_vars, ~threaded' PROVE JobsInOrder'
  BY <1>a DEF JobInv
<1>1. CASE HostSend \/ HostStalled \/ BusReset
  BY <1>1 DEF HostSend, HostStalled, BusReset, JobsInOrder, csr, job, ctx, hist
<1>2. CASE IsrOut
  <2>1. pc' = pc /\ isr' = isr /\ isr = "none" /\ force' = force /\ cb' = cb
    BY <1>2 DEF IsrOut, InIsr, ctx
  <2>2. CASE /\ ~force
             /\ \E again \in BOOLEAN :
                  (again => busy /\ cb = "trans" /\ enabled) /\ FinishOut(again)
    BY <2>1, <2>2 DEF FinishOut, JobsInOrder
  <2>3. CASE UNCHANGED <<irqOn, busy, given>>
    BY <2>1, <2>3 DEF JobsInOrder
  <2> QED BY <1>2, <2>2, <2>3 DEF IsrOut
<1>3. CASE IsrReset \/ EpFree
  <2>1. AbortJob /\ force' = force /\ pc' = pc /\ (isr' = isr \/ isr' = "none")
    BY <1>3 DEF IsrReset, EpFree, ctx
  <2>2. busy' = FALSE /\ ~given' BY <2>1 DEF AbortJob, JobsInOrder
  <2> QED BY <2>1, <2>2 DEF JobsInOrder
<1>s. CASE IsrStall
  BY <1>s DEF IsrStall, JobsInOrder, fifo, job, ctx, hist
<1>4. CASE EpAlloc \/ EnableClass
  BY <1>4 DEF EpAlloc, EnableClass, InIsr, RunJob, JobsInOrder, fifo, job, hist
<1>5. CASE HaltAbort \/ HaltSet
  <2>1. CASE HaltSet BY <2>1 DEF HaltSet, JobsInOrder, fifo, job, hist
  <2>2. CASE HaltAbort
    <3>1. busy' = FALSE /\ ~given' BY <2>2 DEF HaltAbort, JobsInOrder
    <3>2. pc' = pc /\ force' = force BY <2>2 DEF HaltAbort
    <3> QED BY <3>1, <3>2 DEF JobsInOrder
  <2> QED BY <1>5, <2>1, <2>2
<1>6. CASE ClearHalt \/ WaitStallClear
  BY <1>6 DEF ClearHalt, WaitStallClear, InIsr, RunJob, JobsInOrder, csr, fifo, ctx, hist
<1>7. CASE UNCHANGED vars
  BY <1>7 DEF JobsInOrder, vars, csr, job, ctx, hist
<1> QED
  BY <1>1, <1>2, <1>3, <1>s, <1>4, <1>5, <1>6, <1>7 DEF Next, Hardware, Isr, Requests, Thread,
    RunCheck, RunClaim, RunSetup, RunStart, JobsInOrder

(* As long as all transfers are run from the interrupt routine, as the     *)
(* firmware's display interface does, every buffer comes back and no       *)
(* transfer waits on a halted endpoint.                                    *)
THEOREM IsrRunsAnswered == Spec => [](IsrRunIsAnswered /\ HaltedJobAwaitsClear)
<1>1. Init => TypeOK /\ JobInv
  BY InitTypes DEF Init, JobInv, JobsInOrder
<1>2. TypeOK /\ JobInv /\ [Next]_vars => TypeOK' /\ JobInv'
  BY TypeStep, JobStep
<1>3. JobInv => IsrRunIsAnswered /\ HaltedJobAwaitsClear
  BY DEF JobInv, JobsInOrder, IsrRunIsAnswered, EveryRunIsAnswered, HaltedJobAwaitsClear
<1> QED BY <1>1, <1>2, <1>3, PTL DEF Spec
=============================================================================
