------------------------- MODULE UdpInEndpointProofs -------------------------
(***************************************************************************)
(* What is proved of UdpInEndpoint: of an endpoint whose transfers are run *)
(* by the interrupt routine alone and not by the callback of an aborted    *)
(* one (the data endpoint of the CDC class), for packets and buffers of    *)
(* any size and one or two banks, the host gets every packet of every job  *)
(* once and in order.  The invariant says that the packets in the FIFO     *)
(* lead from what the host wants to what the driver loads next.            *)
(***************************************************************************)
EXTENDS UdpInEndpoint, SequenceTheorems, TLAPS

USE SizesAssumption

FromIsr == ~Reconfigure /\ \A u \in Uses : ~u.thread /\ ~u.rerun

Positions == [job : {0, 1}, off : 0 .. MaxSize]

Endpoints ==
  [use : Use, enabled : BOOLEAN, force : BOOLEAN, stallSent : BOOLEAN,
   irq : BOOLEAN, txrdy : BOOLEAN, txcomp : BOOLEAN, fifo : Seq(Packets),
   busy : BOOLEAN, cb : {"null", "trans", "nohalt"}, job : {0, 1},
   size : 0 .. MaxSize, cnt : 0 .. MaxSize, short : BOOLEAN,
   end : BOOLEAN, stall : BOOLEAN, bank : 0 .. 255, given : BOOLEAN]

Pos(p) == [job |-> p.job, off |-> p.off]

(* The packets q lead from position w to position n. *)
Linked(q, w, n) ==
  /\ q = <<>> => w = n
  /\ Len(q) >= 1 => w = Pos(q[1])
  /\ Len(q) = 1 => After(q[1]) = n
  /\ Len(q) = 2 => After(q[1]) = Pos(q[2]) /\ After(q[2]) = n

(* The position of the packet that is loaded next. *)
NextPos(s) ==
  IF s.busy /\ s.cb = "trans" /\ ~AllLoaded(s) THEN [job |-> s.job, off |-> s.cnt]
  ELSE [job |-> 1 - s.job, off |-> 0]

(* An endpoint at work, whose count of banks is n more than the FIFO's.    *)
Open(s, w, n) ==
  /\ s \in Endpoints /\ s.cnt <= s.size /\ w \in Positions
  /\ s.enabled /\ ~s.force /\ ~s.stall
  /\ s.bank = Len(s.fifo) + n /\ s.bank <= s.use.banks
  /\ s.busy => s.cb = "trans"
  /\ s.txrdy => s.fifo # <<>>
  /\ Linked(s.fifo, w, NextPos(s))

(* A job that is over was loaded, and one marked as ended is on.           *)
Settled(s) == (~s.busy => AllLoaded(s)) /\ (s.end => s.busy /\ AllLoaded(s))

Working(s, w) ==
  /\ Open(s, w, IF s.txcomp THEN 1 ELSE 0)
  /\ ~(s.txrdy /\ s.txcomp)
  /\ s.txcomp \/ s.fifo # <<>> => Settled(s)

-----------------------------------------------------------------------------
(* The packets in the FIFO.                                                *)

LEMMA Small ==
  /\ \A n \in Nat : n <= 1 => n = 0 \/ n = 1
  /\ \A n \in Nat : n <= 2 /\ n # 0 => n = 1 \/ n = 2
OBVIOUS

LEMMA LinkedAppend ==
  ASSUME NEW q \in Seq(Packets), NEW p \in Packets, NEW w, Len(q) <= 1, Linked(q, w, Pos(p))
  PROVE  /\ Append(q, p) \in Seq(Packets) /\ Append(q, p) # <<>>
         /\ Len(Append(q, p)) = Len(q) + 1
         /\ Linked(Append(q, p), w, After(p))
<1> DEFINE a == Append(q, p)
<1>1. a \in Seq(Packets) /\ Len(a) = Len(q) + 1 /\ a[Len(q) + 1] = p
      /\ \A i \in 1 .. Len(q) : a[i] = q[i]
  OBVIOUS
<1>2. Len(q) \in Nat /\ Len(<<>>) = 0 OBVIOUS
<1>3. a # <<>> BY <1>1, <1>2
<1>4. CASE Len(q) = 0
  <2>1. q = <<>> BY <1>4, EmptySeq
  <2>2. Len(a) = 1 /\ a[1] = p BY <1>1, <1>4
  <2> QED BY <1>1, <1>3, <2>1, <2>2 DEF Linked
<1>5. CASE Len(q) = 1
  <2>1. Len(a) = 2 /\ a[1] = q[1] /\ a[2] = p BY <1>1, <1>5
  <2>2. w = Pos(q[1]) /\ After(q[1]) = Pos(p) BY <1>5 DEF Linked
  <2> HIDE DEF a
  <2>3. Linked(a, w, After(p)) BY <1>3, <2>1, <2>2 DEF Linked
  <2> QED BY <1>1, <1>3, <2>3 DEF a
<1>6. Len(q) = 0 \/ Len(q) = 1 BY <1>2, Small
<1> QED BY <1>4, <1>5, <1>6

LEMMA LinkedTail ==
  ASSUME NEW q \in Seq(Packets), NEW w, NEW n, q # <<>>, Len(q) <= 2, Linked(q, w, n)
  PROVE  /\ Tail(q) \in Seq(Packets) /\ Len(Tail(q)) = Len(q) - 1
         /\ Head(q) \in Packets /\ w = Pos(Head(q))
         /\ Linked(Tail(q), After(Head(q)), n)
<1>0. Len(q) # 0 BY EmptySeq
<1>1. Len(q) = 1 \/ Len(q) = 2
  <2>1. Len(q) \in Nat OBVIOUS
  <2> QED BY <1>0, <2>1, Small
<1>2. Head(q) = q[1] /\ q[1] \in Packets /\ Tail(q) \in Seq(Packets) /\ Len(Tail(q)) = Len(q) - 1
  BY <1>1
<1>3. CASE Len(q) = 1
  <2>1. Len(Tail(q)) = 0 BY <1>2, <1>3
  <2>2. Tail(q) = <<>> BY <1>2, <2>1, EmptySeq
  <2>3. After(q[1]) = n /\ w = Pos(q[1]) BY <1>3 DEF Linked
  <2> QED BY <1>2, <2>1, <2>2, <2>3 DEF Linked
<1>4. CASE Len(q) = 2
  <2>1. Len(Tail(q)) = 1 /\ Tail(q)[1] = q[2] BY <1>2, <1>4
  <2>2. Tail(q) # <<>>
    <3>1. Len(<<>>) # 1 OBVIOUS
    <3> QED BY <2>1, <3>1, Zenon
  <2>3. w = Pos(q[1]) /\ After(q[1]) = Pos(q[2]) /\ After(q[2]) = n BY <1>4 DEF Linked
  <2> QED BY <1>2, <2>1, <2>2, <2>3 DEF Linked
<1> QED BY <1>1, <1>3, <1>4
-----------------------------------------------------------------------------
(* Loading a bank.                                                         *)

LEMMA Lengths ==
  ASSUME NEW s \in Endpoints, s.cnt <= s.size, ~AllLoaded(s)
  PROVE  /\ PktLen(s) \in 0 .. PktSize /\ s.cnt + PktLen(s) \in 0 .. s.size
         /\ IsShort(s) => s.cnt + PktLen(s) = s.size
<1>1. s.cnt \in Nat /\ s.size \in 0 .. MaxSize BY DEF Endpoints
<1> QED BY <1>1 DEF PktLen, IsShort

LEMMA LoadTyped ==
  ASSUME NEW s \in Endpoints, NEW c \in 0 .. MaxSize, NEW b \in 0 .. 255, NEW short \in BOOLEAN,
         NEW q \in Seq(Packets), NEW rdy \in BOOLEAN, NEW end \in BOOLEAN
  PROVE  [s EXCEPT !.cnt = c, !.bank = b, !.short = short, !.fifo = q, !.txrdy = rdy,
                   !.end = end] \in Endpoints
BY DEF Endpoints

LEMMA LoadFacts ==
  ASSUME NEW s, NEW w, Open(s, w, 0), Settled(s), MayLoad(s), NEW tx \in BOOLEAN
  PROVE  LET t == InSent(s, tx) IN
         /\ Open(t, w, 0) /\ Settled(t) /\ t.txrdy = (s.txrdy \/ tx)
         /\ t.txcomp = s.txcomp /\ t.use = s.use /\ t.fifo # <<>>
         /\ ~AllLoaded(WriteFifo(s)) => ~AllLoaded(t) /\ ~t.end
<1> DEFINE len == PktLen(s)
           short == s.short /\ ~IsShort(s)
           all == s.cnt + len >= s.size /\ ~short
           p == [job |-> s.job, off |-> s.cnt, len |-> len, last |-> all]
           t == [s EXCEPT !.cnt = s.cnt + len, !.bank = s.bank + 1, !.short = short,
                          !.fifo = Append(s.fifo, p), !.txrdy = s.txrdy \/ tx,
                          !.end = s.end \/ all]
<1>1. /\ s \in Endpoints /\ s.cnt <= s.size /\ ~AllLoaded(s) /\ s.bank < s.use.banks
      /\ s.busy /\ s.cb = "trans" /\ s.use.banks \in {1, 2} /\ s.bank = Len(s.fifo)
      /\ ~s.end
  BY DEF Open, Settled, MayLoad, Endpoints, Use
<1>2. len \in 0 .. PktSize /\ s.cnt + len \in 0 .. s.size /\ short \in BOOLEAN /\ all \in BOOLEAN
  BY <1>1, Lengths
<1>3. p \in Packets BY <1>1, <1>2 DEF Packets, Endpoints
<1>4. NextPos(s) = Pos(p) BY <1>1 DEF NextPos, Pos
<1>5. /\ Linked(s.fifo, w, Pos(p)) /\ Len(s.fifo) <= 1 /\ s.fifo \in Seq(Packets)
      /\ Len(s.fifo) \in Nat
  <2>1. s.fifo \in Seq(Packets) BY <1>1 DEF Endpoints
  <2>2. Linked(s.fifo, w, NextPos(s)) BY DEF Open
  <2>3. Len(s.fifo) \in Nat BY <2>1
  <2>4. Len(s.fifo) <= 1 BY <1>1, <2>3
  <2> QED BY <1>4, <2>1, <2>2, <2>3, <2>4
<1>6. /\ Append(s.fifo, p) \in Seq(Packets) /\ Append(s.fifo, p) # <<>>
      /\ Len(Append(s.fifo, p)) = Len(s.fifo) + 1
      /\ Linked(Append(s.fifo, p), w, After(p))
  BY <1>3, <1>5, LinkedAppend
<1>7. InSent(s, tx) = t
  BY <1>1 DEF InSent, MayLoad, WriteFifo, AllLoaded, Endpoints
<1>8. AllLoaded(WriteFifo(s)) = all
  BY <1>1 DEF WriteFifo, AllLoaded, Endpoints
<1> HIDE DEF len, short, all, p
<1>9. /\ t.cnt = s.cnt + len /\ t.size = s.size /\ t.short = short /\ t.end = (s.end \/ all)
      /\ t.busy = s.busy /\ t.cb = s.cb /\ t.job = s.job /\ t.use = s.use
      /\ t.fifo = Append(s.fifo, p) /\ t.bank = s.bank + 1 /\ t.txrdy = (s.txrdy \/ tx)
      /\ t.txcomp = s.txcomp /\ t.enabled = s.enabled /\ t.force = s.force
      /\ t.stall = s.stall
  BY <1>1 DEF Endpoints
<1>10. t \in Endpoints
  <2>1. s.size \in 0 .. MaxSize /\ s.bank \in 0 .. 255 
        /\ s.use.banks \in {1, 2}
    BY <1>1 DEF Endpoints, Use
  <2>2. s.cnt + len \in 0 .. MaxSize BY <1>2, <2>1
  <2>3. s.bank + 1 \in 0 .. 255
    <3>1. \A b \in 0 .. 255, k \in {1, 2} : b < k => b + 1 \in 0 .. 255 OBVIOUS
    <3>2. s.bank < s.use.banks BY DEF MayLoad
    <3> QED BY <2>1, <3>1, <3>2
  <2>4. (s.txrdy \/ tx) \in BOOLEAN /\ (s.end \/ all) \in BOOLEAN OBVIOUS
  <2>5. s \in Endpoints /\ short \in BOOLEAN /\ Append(s.fifo, p) \in Seq(Packets)
    BY <1>1, <1>2, <1>6
  <2>6. \A c \in 0 .. MaxSize, b \in 0 .. 255, h \in BOOLEAN, q \in Seq(Packets),
           y \in BOOLEAN, d \in BOOLEAN :
          [s EXCEPT !.cnt = c, !.bank = b, !.short = h, !.fifo = q, !.txrdy = y, !.end = d]
            \in Endpoints
    BY <2>5, LoadTyped
  <2> QED BY <2>2, <2>3, <2>4, <2>5, <2>6 DEF t
<1> HIDE DEF t
<1>11. AllLoaded(t) = all BY <1>9 DEF AllLoaded, all, len, short
<1>12. After(p) = NextPos(t)
  BY <1>1, <1>9, <1>11 DEF After, NextPos, p
<1>13. Open(t, w, 0)
  BY <1>1, <1>2, <1>5, <1>6, <1>9, <1>10, <1>12 DEF Open
<1>14. Settled(t) BY <1>1, <1>9, <1>11 DEF Settled
<1> QED BY <1>1, <1>6, <1>7, <1>8, <1>9, <1>11, <1>13, <1>14

(* udd_ep_in_sent, which loads a bank or does nothing.                     *)
LEMMA InSentFacts ==
  ASSUME NEW s, NEW w, Open(s, w, 0), Settled(s), NEW tx \in BOOLEAN
  PROVE  LET t == InSent(s, tx) IN
         /\ Open(t, w, 0) /\ Settled(t)
         /\ t.txcomp = s.txcomp /\ t.use = s.use
         /\ tx /\ ~MayLoad(s) => t.txrdy = s.txrdy
<1>1. CASE MayLoad(s) BY <1>1, LoadFacts
<1>2. CASE ~MayLoad(s) BY <1>2 DEF InSent
<1> QED BY <1>1, <1>2

-----------------------------------------------------------------------------
(* Running a job.                                                          *)

Filled(s, b) ==
  [s EXCEPT !.busy = TRUE, !.job = 1 - s.job, !.size = b.size, !.cnt = 0, !.cb = "trans",
            !.short = b.short \/ b.size = 0, !.end = FALSE, !.given = TRUE]

LEMMA FilledTyped ==
  ASSUME NEW s \in Endpoints, NEW job \in {0, 1}, NEW size \in 0 .. MaxSize, NEW short \in BOOLEAN
  PROVE  [s EXCEPT !.busy = TRUE, !.job = job, !.size = size, !.cnt = 0, !.cb = "trans",
                   !.short = short, !.end = FALSE, !.given = TRUE] \in Endpoints
<1>1. 0 \in 0 .. MaxSize OBVIOUS
<1> QED BY <1>1 DEF Endpoints

(* A job that is filled in is what the host wants after the one before.    *)
LEMMA FilledFacts ==
  ASSUME NEW s, NEW w, NEW n \in {0, 1}, Open(s, w, n), ~s.busy, NEW b \in Bufs
  PROVE  LET r == Filled(s, b) IN
         /\ Open(r, w, n) /\ Settled(r)
         /\ r.txcomp = s.txcomp /\ r.txrdy = s.txrdy /\ r.use = s.use
<1> DEFINE r == Filled(s, b)
<1>1. s \in Endpoints /\ s.job \in {0, 1} /\ b.size \in 0 .. MaxSize /\ b.short \in BOOLEAN
  BY DEF Open, Endpoints, Bufs
<1>2. r \in Endpoints
  <2>1. 1 - s.job \in {0, 1} BY <1>1
  <2>2. (b.short \/ b.size = 0) \in BOOLEAN OBVIOUS
  <2> QED BY <1>1, <2>1, <2>2, FilledTyped DEF Filled
<1>3. /\ r.busy /\ r.cb = "trans" /\ r.job = 1 - s.job /\ r.size = b.size /\ r.cnt = 0
      /\ r.short = (b.short \/ b.size = 0) /\ ~r.end /\ r.use = s.use /\ r.fifo = s.fifo
      /\ r.bank = s.bank /\ r.txrdy = s.txrdy /\ r.txcomp = s.txcomp
      /\ r.enabled = s.enabled /\ r.force = s.force /\ r.stall = s.stall
  BY <1>1 DEF Filled, Endpoints
<1> HIDE DEF r
<1>4. ~AllLoaded(r)
  <2>1. CASE b.size = 0
    <3>1. r.short BY <1>3, <2>1
    <3> QED BY <3>1 DEF AllLoaded
  <2>2. CASE b.size # 0
    <3>1. ~(r.cnt >= r.size) BY <1>1, <1>3, <2>2
    <3> QED BY <3>1 DEF AllLoaded
  <2> QED BY <2>1, <2>2
<1>5. NextPos(r) = NextPos(s) BY <1>3, <1>4 DEF NextPos
<1>6. Open(r, w, n) BY <1>1, <1>2, <1>3, <1>5 DEF Open
<1>7. Settled(r) BY <1>3 DEF Settled
<1> QED BY <1>3, <1>6, <1>7 DEF r

(* Fields that nothing proved here depends on.                             *)
LEMMA Irrelevant ==
  ASSUME NEW s, NEW w, NEW n, Open(s, w, n), NEW irq \in BOOLEAN
  PROVE  LET t == [s EXCEPT !.irq = irq] IN
         /\ Open(t, w, n) /\ t.txcomp = s.txcomp /\ t.txrdy = s.txrdy /\ t.use = s.use
         /\ t.busy = s.busy /\ t.end = s.end /\ AllLoaded(t) = AllLoaded(s)
         /\ Settled(s) => Settled(t)
<1> DEFINE t == [s EXCEPT !.irq = irq]
<1>1. s \in Endpoints BY DEF Open
<1>2. /\ t \in Endpoints /\ t.cnt = s.cnt /\ t.size = s.size /\ t.enabled = s.enabled
      /\ t.force = s.force /\ t.stall = s.stall /\ t.bank = s.bank /\ t.fifo = s.fifo
      /\ t.use = s.use /\ t.busy = s.busy /\ t.cb = s.cb /\ t.txrdy = s.txrdy
      /\ t.txcomp = s.txcomp /\ t.job = s.job /\ t.short = s.short /\ t.end = s.end
  BY <1>1 DEF Endpoints
<1> HIDE DEF t
<1>3. AllLoaded(t) = AllLoaded(s) BY <1>2 DEF AllLoaded
<1>4. NextPos(t) = NextPos(s) BY <1>2, <1>3 DEF NextPos
<1> QED BY <1>2, <1>3, <1>4 DEF Open, Settled, t

(* udd_ep_run after the job is filled in, with n as before.                *)
LEMMA StartFacts ==
  ASSUME NEW s, NEW w, NEW n \in {0, 1}, Open(s, w, n), Settled(s),
         ~s.txcomp => n = 0
  PROVE  LET t == StartJob(s) IN
         /\ Open(t, w, n) /\ Settled(t) /\ t.txcomp = s.txcomp /\ t.use = s.use
         /\ s.txcomp => t.txrdy = s.txrdy
<1> DEFINE t == [s EXCEPT !.irq = TRUE]
<1>1. /\ Open(t, w, n) /\ Settled(t) /\ t.txcomp = s.txcomp /\ t.txrdy = s.txrdy /\ t.use = s.use
  BY Irrelevant
<1> HIDE DEF t
<1>2. CASE s.txrdy \/ s.txcomp
  <2>1. StartJob(s) = t BY <1>2 DEF StartJob, t
  <2> QED BY <1>1, <2>1
<1>3. CASE ~(s.txrdy \/ s.txcomp)
  <2>1. Open(t, w, 0) /\ n = 0 BY <1>1, <1>3
  <2> DEFINE u == InSent(t, TRUE)
  <2>2. Open(u, w, 0) /\ Settled(u) /\ u.txcomp = t.txcomp /\ u.use = t.use
    BY <1>1, <2>1, InSentFacts
  <2> HIDE DEF u
  <2>3. LET v == InSent(u, FALSE) IN
        Open(v, w, 0) /\ Settled(v) /\ v.txcomp = u.txcomp /\ v.use = u.use
    BY <2>2, InSentFacts
  <2>4. StartJob(s) \in {u, InSent(u, FALSE)} BY <1>3 DEF StartJob, t, u
  <2> QED BY <1>1, <1>3, <2>1, <2>2, <2>3, <2>4
<1> QED BY <1>2, <1>3

LEMMA RunFacts ==
  ASSUME NEW s, NEW w, NEW n \in {0, 1}, Open(s, w, n), NEW b \in Bufs,
         ~s.txcomp => n = 0
  PROVE  LET t == Run(s, b) IN
         \/ t = s
         \/ /\ Open(t, w, n) /\ Settled(t) /\ t.txcomp = s.txcomp /\ t.use = s.use
            /\ s.txcomp => t.txrdy = s.txrdy
<1>1. CASE ~Accepts(s) BY <1>1 DEF Run
<1>2. CASE Accepts(s)
  <2> DEFINE r == Filled(s, b)
  <2>1. ~s.busy BY <1>2 DEF Accepts
  <2>2. /\ Open(r, w, n) /\ Settled(r)
        /\ r.txcomp = s.txcomp /\ r.txrdy = s.txrdy /\ r.use = s.use
    BY <2>1, FilledFacts
  <2>3. s \in Endpoints BY DEF Open
  <2>4. Run(s, b) = StartJob(r) BY <1>2, <2>3 DEF Run, Filled
  <2> HIDE DEF r
  <2>5. LET t == StartJob(r) IN
        /\ Open(t, w, n) /\ Settled(t) /\ t.txcomp = r.txcomp /\ t.use = r.use
        /\ r.txcomp => t.txrdy = r.txrdy
    BY <2>2, StartFacts
  <2> QED BY <2>2, <2>4, <2>5
<1> QED BY <1>1, <1>2

LEMMA OverTyped ==
  ASSUME NEW s \in Endpoints, NEW g \in BOOLEAN
  PROVE  [s EXCEPT !.busy = FALSE, !.given = g] \in Endpoints
BY DEF Endpoints

(* A transfer that was loaded to its end is over, and its callback may run *)
(* the next.                                                               *)
LEMMA FinishFacts ==
  ASSUME NEW s, NEW w, Open(s, w, 0), AllLoaded(s), ~s.end, s.txcomp, NEW v \in Finish(s)
  PROVE  Open(v, w, 0) /\ Settled(v) /\ v.txcomp /\ v.use = s.use /\ v.txrdy = s.txrdy
<1>0. s \in Endpoints BY DEF Open
<1>1. CASE ~s.busy
  <2>1. v = s BY <1>1 DEF Finish
  <2> QED BY <1>1, <2>1 DEF Settled
<1>2. CASE s.busy
  <2> DEFINE g == s.given /\ s.cb = "null"
             t == [s EXCEPT !.busy = FALSE, !.given = g]
  <2>0. g \in BOOLEAN OBVIOUS
  <2> HIDE DEF g
  <2>1. /\ t \in Endpoints /\ t.cnt = s.cnt /\ t.size = s.size /\ t.enabled = s.enabled
        /\ t.force = s.force /\ t.stall = s.stall /\ t.bank = s.bank /\ t.fifo = s.fifo
        /\ t.use = s.use /\ ~t.busy /\ t.cb = s.cb /\ t.txrdy = s.txrdy
        /\ t.txcomp = s.txcomp /\ t.job = s.job /\ t.short = s.short /\ t.end = s.end
    <3>1. t \in Endpoints BY <1>0, <2>0, OverTyped
    <3> QED BY <1>0, <3>1 DEF Endpoints
  <2>2. v = t \/ \E b \in Bufs : v = Run(t, b) BY <1>0, <1>2 DEF Finish, g, Endpoints
  <2> HIDE DEF t
  <2>3. AllLoaded(t) BY <2>1 DEF AllLoaded
  <2>4. NextPos(t) = NextPos(s) BY <2>1, <2>3 DEF NextPos
  <2>5. Open(t, w, 0) /\ Settled(t) /\ t.txcomp BY <2>1, <2>3, <2>4 DEF Open, Settled
  <2>6. CASE v = t BY <2>1, <2>5, <2>6
  <2>7. ASSUME NEW b \in Bufs, v = Run(t, b)
        PROVE  Open(v, w, 0) /\ Settled(v) /\ v.txcomp /\ v.use = s.use /\ v.txrdy = s.txrdy
    BY <2>1, <2>5, <2>7, RunFacts
  <2> QED BY <2>2, <2>6, <2>7
<1> QED BY <1>1, <1>2

LEMMA SeenTyped ==
  ASSUME NEW s \in Endpoints, NEW n \in 0 .. MaxSize
  PROVE  [s EXCEPT !.end = FALSE, !.size = n] \in Endpoints
BY DEF Endpoints

(* The end of a job that was loaded is noted.                              *)
LEMMA SeenFacts ==
  ASSUME NEW s, NEW w, Open(s, w, 0), AllLoaded(s)
  PROVE  LET u == [s EXCEPT !.end = FALSE, !.size = s.cnt] IN
         /\ Open(u, w, 0) /\ AllLoaded(u) /\ ~u.end /\ u.txcomp = s.txcomp
         /\ u.use = s.use /\ u.txrdy = s.txrdy
<1> DEFINE u == [s EXCEPT !.end = FALSE, !.size = s.cnt]
<1>1. s \in Endpoints BY DEF Open
<1>2. s.cnt \in 0 .. MaxSize /\ s.size \in 0 .. MaxSize BY <1>1 DEF Endpoints
<1>3. /\ u \in Endpoints /\ u.cnt = s.cnt /\ u.size = s.cnt /\ u.enabled = s.enabled
      /\ u.force = s.force /\ u.stall = s.stall /\ u.bank = s.bank /\ u.fifo = s.fifo
      /\ u.use = s.use /\ u.busy = s.busy /\ u.cb = s.cb /\ u.txrdy = s.txrdy
      /\ u.txcomp = s.txcomp /\ u.job = s.job /\ u.short = s.short /\ ~u.end
  <2>1. u \in Endpoints BY <1>1, <1>2, SeenTyped
  <2> QED BY <1>1, <2>1 DEF Endpoints
<1> HIDE DEF u
<1>4. AllLoaded(u) BY <1>2, <1>3 DEF AllLoaded
<1>5. NextPos(u) = NextPos(s) BY <1>3, <1>4 DEF NextPos
<1>6. Open(u, w, 0) BY <1>2, <1>3, <1>5 DEF Open
<1> QED BY <1>3, <1>4, <1>6 DEF u

LEMMA EndReachedFacts ==
  ASSUME NEW s, NEW w, Open(s, w, 0), Settled(s), s.txcomp, NEW v \in EndReached(s)
  PROVE  Open(v, w, 0) /\ Settled(v) /\ v.txcomp /\ v.use = s.use /\ v.txrdy = s.txrdy
<1>1. CASE ~s.end BY <1>1 DEF EndReached
<1>2. CASE s.end
  <2> DEFINE u == [s EXCEPT !.end = FALSE, !.size = s.cnt]
  <2>1. AllLoaded(s) BY <1>2 DEF Settled
  <2>2. /\ Open(u, w, 0) /\ AllLoaded(u) /\ ~u.end /\ u.txcomp
        /\ u.use = s.use /\ u.txrdy = s.txrdy
    BY <2>1, SeenFacts
  <2>3. v \in Finish(u) BY <1>2 DEF EndReached
  <2> HIDE DEF u
  <2> QED BY <2>2, <2>3, FinishFacts
<1> QED BY <1>1, <1>2

(* The flag of the packet that was sent is acknowledged.                   *)
LEMMA AckFacts ==
  ASSUME NEW s, NEW w, NEW n, Open(s, w, n), Settled(s)
  PROVE  LET t == Ack(s) IN
         /\ Open(t, w, n) /\ Settled(t) /\ ~t.txcomp /\ t.use = s.use /\ t.txrdy = s.txrdy
<1> DEFINE t == Ack(s)
<1>1. s \in Endpoints BY DEF Open
<1>2. /\ t \in Endpoints /\ t.cnt = s.cnt /\ t.size = s.size /\ t.enabled = s.enabled
      /\ t.force = s.force /\ t.stall = s.stall /\ t.bank = s.bank /\ t.fifo = s.fifo
      /\ t.use = s.use /\ t.busy = s.busy /\ t.cb = s.cb /\ t.txrdy = s.txrdy
      /\ ~t.txcomp /\ t.job = s.job /\ t.short = s.short /\ t.end = s.end
  BY <1>1 DEF Ack, Endpoints
<1> HIDE DEF t
<1>3. AllLoaded(t) = AllLoaded(s) BY <1>2 DEF AllLoaded
<1>4. NextPos(t) = NextPos(s) BY <1>2, <1>3 DEF NextPos
<1> QED BY <1>2, <1>3, <1>4 DEF Open, Settled, t

(* The other bank is sent.                                                 *)
LEMMA SendFacts ==
  ASSUME NEW s, NEW w, NEW n, Open(s, w, n), Settled(s), s.fifo # <<>>
  PROVE  LET t == [s EXCEPT !.txrdy = TRUE] IN
         Open(t, w, n) /\ Settled(t) /\ t.use = s.use
<1> DEFINE t == [s EXCEPT !.txrdy = TRUE]
<1>1. s \in Endpoints BY DEF Open
<1>2. /\ t \in Endpoints /\ t.cnt = s.cnt /\ t.size = s.size /\ t.enabled = s.enabled
      /\ t.force = s.force /\ t.stall = s.stall /\ t.bank = s.bank /\ t.fifo = s.fifo
      /\ t.use = s.use /\ t.busy = s.busy /\ t.cb = s.cb
      /\ t.job = s.job /\ t.short = s.short /\ t.end = s.end
  BY <1>1 DEF Endpoints
<1> HIDE DEF t
<1>3. AllLoaded(t) = AllLoaded(s) BY <1>2 DEF AllLoaded
<1>4. NextPos(t) = NextPos(s) BY <1>2, <1>3 DEF NextPos
<1> QED BY <1>2, <1>3, <1>4 DEF Open, Settled, t

LEMMA AckInSent ==
  ASSUME NEW s, NEW w, Open(s, w, 0), Settled(s)
  PROVE  LET v == InSent(Ack(s), FALSE) IN Working(v, w) /\ v.use = s.use
<1> DEFINE a == Ack(s)
<1>1. Open(a, w, 0) /\ Settled(a) /\ ~a.txcomp /\ a.use = s.use BY AckFacts
<1> HIDE DEF a
<1>2. LET v == InSent(a, FALSE) IN
      Open(v, w, 0) /\ Settled(v) /\ v.txcomp = a.txcomp /\ v.use = a.use
  BY <1>1, InSentFacts
<1> QED BY <1>1, <1>2 DEF Working, a

LEMMA RefillFacts ==
  ASSUME NEW s, NEW w, Open(s, w, 0), Settled(s), s.txcomp, NEW v \in Refill(s)
  PROVE  Working(v, w) /\ v.use = s.use
<1>0. /\ s \in Endpoints /\ s.bank = Len(s.fifo) /\ s.bank \in Nat /\ s.use.banks \in {1, 2}
  BY DEF Open, Endpoints, Use
<1>1. CASE AllLoaded(s) /\ s.bank = 0
  <2> DEFINE t == [s EXCEPT !.irq = FALSE]
  <2>1. Open(t, w, 0) /\ Settled(t) /\ t.use = s.use BY Irrelevant
  <2>2. v = Ack(t) BY <1>1 DEF Refill
  <2> HIDE DEF t
  <2> QED BY <2>1, <2>2, AckFacts DEF Working
<1>2. CASE ~(AllLoaded(s) /\ s.bank = 0) /\ s.use.banks = 1
  <2> DEFINE t == InSent(s, TRUE)
  <2>1. Open(t, w, 0) /\ Settled(t) /\ t.use = s.use BY InSentFacts
  <2>2. v = Ack(t) BY <1>2 DEF Refill
  <2> HIDE DEF t
  <2> QED BY <2>1, <2>2, AckFacts DEF Working
<1>3. CASE s.use.banks # 1 /\ s.bank > 0
  <2> DEFINE t == [s EXCEPT !.txrdy = TRUE]
  <2>1. s.fifo # <<>>
    <3>1. Len(<<>>) = 0 OBVIOUS
    <3> QED BY <1>0, <1>3, <3>1
  <2>2. Open(t, w, 0) /\ Settled(t) /\ t.use = s.use BY <2>1, SendFacts
  <2>3. v = InSent(Ack(t), FALSE)
    <3>1. s.bank # 0 BY <1>0, <1>3
    <3> QED BY <1>3, <3>1, Zenon DEF Refill
  <2> HIDE DEF t
  <2> QED BY <2>2, <2>3, AckInSent
<1>4. CASE s.use.banks # 1 /\ s.bank = 0 /\ ~AllLoaded(s)
  <2> DEFINE t == InSent(s, TRUE)
             u == [t EXCEPT !.end = FALSE, !.size = t.cnt]
  <2>1. MayLoad(s) /\ ~(s.bank >= s.use.banks) BY <1>0, <1>4 DEF MayLoad
  <2>2. /\ Open(t, w, 0) /\ Settled(t) /\ t.txcomp /\ t.use = s.use
    BY <2>1, LoadFacts
  <2>3. ~Pending(s) => AllLoaded(t)
    BY <2>1 DEF Pending, InSent, AllLoaded, WriteFifo, Open, Endpoints
  <2>4. /\ ~(AllLoaded(s) /\ s.bank = 0) /\ s.use.banks # 1 /\ ~(s.bank > 0)
    BY <1>4
  <2>5. v \in {InSent(Ack(x), FALSE) : x \in IF Pending(s) THEN {t} ELSE Finish(u)}
    BY <2>4 DEF Refill
  <2> HIDE DEF t
  <2>6. PICK x \in (IF Pending(s) THEN {t} ELSE Finish(u)) : v = InSent(Ack(x), FALSE)
    BY <2>5
  <2>7. Open(x, w, 0) /\ Settled(x) /\ x.use = s.use
    <3>1. CASE Pending(s) BY <2>2, <2>6, <3>1
    <3>2. CASE ~Pending(s)
      <4>1. AllLoaded(t) BY <2>3, <3>2
      <4>2. Open(u, w, 0) /\ AllLoaded(u) /\ ~u.end /\ u.txcomp /\ u.use = t.use
        BY <2>2, <4>1, SeenFacts
      <4>3. x \in Finish(u) BY <2>6, <3>2
      <4> HIDE DEF u
      <4> QED BY <2>2, <4>2, <4>3, FinishFacts
    <3> QED BY <3>1, <3>2
  <2> QED BY <2>6, <2>7, AckInSent
<1> QED BY <1>0, <1>1, <1>2, <1>3, <1>4

LEMMA BankTyped ==
  ASSUME NEW s \in Endpoints, NEW n \in 0 .. 255
  PROVE  [s EXCEPT !.bank = n] \in Endpoints
BY DEF Endpoints

LEMMA TakenTyped ==
  ASSUME NEW s \in Endpoints, NEW q \in Seq(Packets)
  PROVE  [s EXCEPT !.txrdy = FALSE, !.txcomp = TRUE, !.fifo = q] \in Endpoints
BY DEF Endpoints

(* A packet was sent: the interrupt routine notes the end of a job that    *)
(* was loaded, tells the client, and loads and sends what it can.          *)
LEMMA IsrSentFacts ==
  ASSUME NEW s, NEW w, Working(s, w), s.txcomp, NEW v \in IsrSent(s)
  PROVE  Working(v, w) /\ v.use = s.use
<1> DEFINE t == BankSent(s)
<1>1. /\ Open(s, w, 1) /\ Settled(s) /\ s \in Endpoints /\ ~s.stall
  BY DEF Working, Open
<1>2. /\ s.bank = Len(s.fifo) + 1 /\ s.bank <= s.use.banks /\ s.use.banks \in {1, 2}
      /\ Len(s.fifo) \in Nat
  BY <1>1 DEF Open, Endpoints, Use
<1>3. (s.bank + 255) % 256 = Len(s.fifo) /\ Len(s.fifo) \in 0 .. 1
  <2>1. \A n \in Nat, k \in {1, 2} : n + 1 <= k => n = 0 \/ n = 1 OBVIOUS
  <2>2. Len(s.fifo) = 0 \/ Len(s.fifo) = 1 BY <1>2, <2>1
  <2>3. (0 + 1 + 255) % 256 = 0 /\ (1 + 1 + 255) % 256 = 1 OBVIOUS
  <2>4. CASE Len(s.fifo) = 0 BY <1>2, <2>3, <2>4
  <2>5. CASE Len(s.fifo) = 1 BY <1>2, <2>3, <2>5
  <2> QED BY <2>2, <2>4, <2>5
<1>4. t = [s EXCEPT !.bank = Len(s.fifo)] BY <1>1, <1>3 DEF BankSent, Endpoints
<1>5. /\ t \in Endpoints /\ t.cnt = s.cnt /\ t.size = s.size /\ t.enabled = s.enabled
      /\ t.force = s.force /\ t.stall = s.stall /\ t.bank = Len(s.fifo) /\ t.fifo = s.fifo
      /\ t.use = s.use /\ t.busy = s.busy /\ t.cb = s.cb /\ t.txrdy = s.txrdy
      /\ t.txcomp /\ t.job = s.job /\ t.short = s.short /\ t.end = s.end
  <2>1. Len(s.fifo) \in 0 .. 255 BY <1>3
  <2>2. t \in Endpoints BY <1>1, <1>4, <2>1, BankTyped
  <2> HIDE DEF t
  <2> QED BY <1>1, <1>4, <2>2 DEF Endpoints
<1> HIDE DEF t
<1>6. AllLoaded(t) = AllLoaded(s) BY <1>5 DEF AllLoaded
<1>7. NextPos(t) = NextPos(s) BY <1>5, <1>6 DEF NextPos
<1>8. t.bank = Len(t.fifo) + 0 /\ t.bank <= t.use.banks
  <2>1. \A n \in Nat : n + 0 = n OBVIOUS
  <2>2. \A n \in Nat, k \in {1, 2} : n + 1 <= k => n <= k OBVIOUS
  <2> QED BY <1>2, <1>5, <2>1, <2>2
<1>9. Open(t, w, 0) BY <1>1, <1>5, <1>7, <1>8 DEF Open
<1>10. Settled(t) BY <1>1, <1>5, <1>6 DEF Settled
<1>11. v \in UNION {Refill(u) : u \in EndReached(t)} BY <1>1, <1>5 DEF IsrSent, t
<1>12. PICK u \in EndReached(t) : v \in Refill(u) BY <1>11
<1>13. Open(u, w, 0) /\ Settled(u) /\ u.txcomp /\ u.use = t.use
  BY <1>5, <1>9, <1>10, EndReachedFacts
<1> QED BY <1>5, <1>12, <1>13, RefillFacts

(* The host takes the packet that is ready.                                *)
LEMMA TakeFacts ==
  ASSUME NEW s, NEW w, Working(s, w), s.txrdy
  PROVE  LET t == [s EXCEPT !.txrdy = FALSE, !.txcomp = TRUE, !.fifo = Tail(s.fifo)] IN
         s.fifo # <<>> /\ Working(t, After(Head(s.fifo))) /\ t.use = s.use
<1> DEFINE t == [s EXCEPT !.txrdy = FALSE, !.txcomp = TRUE, !.fifo = Tail(s.fifo)]
           n == NextPos(s)
<1>1. /\ Open(s, w, 0) /\ Settled(s) /\ s \in Endpoints /\ ~s.stall /\ s.fifo # <<>>
  BY DEF Working, Open
<1>2. /\ s.bank = Len(s.fifo) /\ s.bank <= s.use.banks /\ s.use.banks \in {1, 2}
      /\ s.fifo \in Seq(Packets) /\ Linked(s.fifo, w, n)
  <2>1. s.fifo \in Seq(Packets) /\ s.use.banks \in {1, 2} BY <1>1 DEF Endpoints, Use
  <2>2. s.bank = Len(s.fifo) + 0 /\ s.bank <= s.use.banks /\ Linked(s.fifo, w, n)
    BY <1>1 DEF Open
  <2>3. Len(s.fifo) + 0 = Len(s.fifo) BY <2>1
  <2> QED BY <2>1, <2>2, <2>3
<1>3. Len(s.fifo) <= 2
  <2>1. \A m \in Nat, k \in {1, 2} : m <= k => m <= 2 OBVIOUS
  <2>2. Len(s.fifo) \in Nat BY <1>2
  <2> QED BY <1>2, <2>1, <2>2
<1>4. /\ Tail(s.fifo) \in Seq(Packets) /\ Len(Tail(s.fifo)) = Len(s.fifo) - 1
      /\ Linked(Tail(s.fifo), After(Head(s.fifo)), n)
  BY <1>1, <1>2, <1>3, LinkedTail
<1>5. n \in Positions BY <1>1 DEF NextPos, Positions, Endpoints
<1>6. After(Head(s.fifo)) \in Positions
  <2> DEFINE q == Tail(s.fifo)
  <2>1. CASE q = <<>> BY <1>4, <1>5, <2>1 DEF Linked
  <2>2. CASE q # <<>>
    <3>1. Len(q) \in Nat /\ Len(q) # 0 BY <1>4, <2>2, EmptySeq
    <3>2. Len(q) >= 1 BY <3>1
    <3>3. q[1] \in Packets BY <1>4, <3>2
    <3>4. After(Head(s.fifo)) = Pos(q[1]) BY <1>4, <3>2 DEF Linked
    <3>5. \A p \in Packets : Pos(p) \in Positions BY DEF Pos, Positions, Packets
    <3> QED BY <3>3, <3>4, <3>5
  <2> QED BY <2>1, <2>2
<1>7. /\ t \in Endpoints /\ t.cnt = s.cnt /\ t.size = s.size /\ t.enabled = s.enabled
      /\ t.force = s.force /\ t.stall = s.stall /\ t.bank = s.bank /\ t.fifo = Tail(s.fifo)
      /\ t.use = s.use /\ t.busy = s.busy /\ t.cb = s.cb /\ ~t.txrdy
      /\ t.txcomp /\ t.job = s.job /\ t.short = s.short /\ t.end = s.end
  <2>1. t \in Endpoints BY <1>1, <1>4, TakenTyped
  <2> QED BY <1>1, <1>4, <2>1 DEF Endpoints
<1> HIDE DEF t, n
<1>8. AllLoaded(t) = AllLoaded(s) BY <1>7 DEF AllLoaded
<1>9. NextPos(t) = n BY <1>7, <1>8 DEF NextPos, n
<1>10. t.bank = Len(t.fifo) + 1
  <2>1. Len(s.fifo) \in Nat BY <1>2
  <2>2. \A m \in Nat : m = (m - 1) + 1 OBVIOUS
  <2> QED BY <1>2, <1>4, <1>7, <2>1, <2>2
<1>11. Open(t, After(Head(s.fifo)), 1)
  BY <1>1, <1>2, <1>4, <1>6, <1>7, <1>9, <1>10 DEF Open
<1>12. Settled(t) BY <1>1, <1>7, <1>8 DEF Settled
<1> QED BY <1>1, <1>7, <1>11, <1>12 DEF Working, t
-----------------------------------------------------------------------------
(* The invariant.                                                          *)

Quiet(s) == ~s.enabled \/ s.force

(* What is the case of endpoint s, with w wanted, i the routine and p      *)
(* whether a reset is pending.                                             *)
Good(s, w, i, p) ==
  /\ s \in Endpoints /\ s.use \in Uses /\ s.cnt <= s.size /\ ~s.stall
  /\ w \in Positions /\ i \in {"none", "halt"} /\ p \in BOOLEAN
  /\ p => ~s.enabled
  /\ i = "halt" => ~s.busy /\ s.bank = 0
  /\ ~s.enabled /\ ~p => ~s.busy
  /\ Quiet(s) \/ i = "halt" =>
       /\ s.fifo = <<>> /\ ~s.txcomp /\ ~s.txrdy /\ (s.enabled => s.bank = 0)
       /\ ~p => w = [job |-> 1 - s.job, off |-> 0]
  /\ ~Quiet(s) /\ i = "none" => Working(s, w)

Inv == pc = "idle" /\ Good(e, want, isr, resetPending)

(* Whatever can be made of a working endpoint is good.                     *)
LEMMA WorkingIsGood ==
  ASSUME NEW s, NEW w, Working(s, w), s.use \in Uses
  PROVE  Good(s, w, "none", FALSE) /\ ~Quiet(s) /\ s \in Endpoints
BY DEF Working, Open, Good, Quiet

LEMMA NothingBuffered ==
  ASSUME NEW s \in Endpoints, NEW w, w = [job |-> 1 - s.job, off |-> 0], s.cnt <= s.size,
         s.enabled, ~s.force, ~s.stall, ~s.busy, s.fifo = <<>>, ~s.txcomp, ~s.txrdy, s.bank = 0
  PROVE  Working(s, w) /\ Open(s, w, 0)
<1>1. Len(<<>>) = 0 /\ 0 + 0 = 0 OBVIOUS
<1>2. s.use.banks \in {1, 2} BY DEF Endpoints, Use
<1>3. s.bank = Len(s.fifo) + 0 /\ s.bank <= s.use.banks BY <1>1, <1>2
<1>4. w \in Positions
  <2>1. s.job \in {0, 1} BY DEF Endpoints
  <2>2. 1 - s.job \in {0, 1} /\ 0 \in 0 .. MaxSize BY <2>1
  <2> QED BY <2>2 DEF Positions
<1>5. NextPos(s) = w BY DEF NextPos
<1>6. Linked(s.fifo, w, NextPos(s)) BY <1>1, <1>5 DEF Linked
<1>7. Open(s, w, 0) BY <1>3, <1>4, <1>6 DEF Open
<1> QED BY <1>7 DEF Working

LEMMA Initially == Init => Inv
<1> SUFFICES ASSUME Init PROVE Inv
  OBVIOUS
<1>1. PICK u \in Uses :
        e = [use |-> u, enabled |-> FALSE, force |-> FALSE, stallSent |-> FALSE, irq |-> FALSE,
             txrdy |-> FALSE, txcomp |-> FALSE, fifo |-> <<>>,
             busy |-> FALSE, cb |-> "null", job |-> 0, size |-> 0, cnt |-> 0,
             short |-> FALSE, end |-> FALSE, stall |-> FALSE, bank |-> 0,
             given |-> FALSE]
  BY DEF Init
<1>2. u \in Use BY UsesAssumption
<1>3. 0 \in 0 .. MaxSize /\ <<>> \in Seq(Packets) /\ 0 \in 0 .. 255 OBVIOUS
<1>4. e \in Endpoints BY <1>1, <1>2, <1>3 DEF Endpoints
<1>5. want = [job |-> 1 - e.job, off |-> 0] /\ want \in Positions
  BY <1>1, <1>3 DEF Init, Positions
<1>6. /\ e.use \in Uses /\ e.cnt <= e.size /\ ~e.stall /\ ~e.enabled /\ ~e.busy
      /\ e.fifo = <<>> /\ ~e.txcomp /\ ~e.txrdy
  BY <1>1
<1>7. pc = "idle" /\ isr = "none" /\ resetPending = FALSE BY DEF Init
<1> QED BY <1>4, <1>5, <1>6, <1>7 DEF Inv, Good, Quiet

(* The steps of the host and of the interrupt routine.                     *)
LEMMA TakeStep == Inv /\ HostTake => Inv'
<1> SUFFICES ASSUME Inv, HostTake PROVE Inv'
  OBVIOUS
<1>1. e.enabled /\ ~e.force /\ e.txrdy BY DEF HostTake
<1>2. isr = "none" /\ ~resetPending /\ Working(e, want) /\ e.use \in Uses
  BY <1>1 DEF Inv, Good, Quiet
<1> DEFINE t == [e EXCEPT !.txrdy = FALSE, !.txcomp = TRUE, !.fifo = Tail(e.fifo)]
<1>3. e.fifo # <<>> /\ Working(t, After(Head(e.fifo))) /\ t.use = e.use
  BY <1>1, <1>2, TakeFacts
<1>4. e \in Endpoints BY DEF Inv, Good
<1>5. e' = t /\ want' = After(Head(e.fifo)) /\ UNCHANGED <<isr, pc, resetPending>>
  BY <1>3, <1>4 DEF HostTake, Endpoints
<1> HIDE DEF t
<1>6. Good(t, After(Head(e.fifo)), "none", FALSE) BY <1>2, <1>3, WorkingIsGood
<1> QED BY <1>2, <1>5, <1>6 DEF Inv, Good

LEMMA SentStep == Inv /\ IsrIn => Inv'
<1> SUFFICES ASSUME Inv, IsrIn PROVE Inv'
  OBVIOUS
<1>1. isr = "none" /\ ~resetPending /\ e.txcomp BY DEF IsrIn, InIsr
<1>2. Working(e, want) /\ e.use \in Uses BY <1>1 DEF Inv, Good
<1>3. e' \in IsrSent(e) BY DEF IsrIn
<1>4. Working(e', want) /\ e'.use \in Uses BY <1>1, <1>2, <1>3, IsrSentFacts
<1>5. Good(e', want, "none", FALSE) BY <1>4, WorkingIsGood
<1> QED BY <1>1, <1>5 DEF Inv, IsrIn, Good

LEMMA RunStep == Inv /\ IsrRun => Inv'
<1> SUFFICES ASSUME Inv, IsrRun PROVE Inv'
  OBVIOUS
<1>1. isr = "none" /\ ~resetPending /\ e.enabled /\ ~e.force
  BY DEF IsrRun, InIsr, Accepts
<1>2. Working(e, want) /\ e.use \in Uses BY <1>1 DEF Inv, Good, Quiet
<1>3. PICK b \in Bufs : e' = Run(e, b) BY DEF IsrRun
<1> DEFINE n == IF e.txcomp THEN 1 ELSE 0
<1>4. n \in {0, 1} /\ (~e.txcomp => n = 0) OBVIOUS
<1>5. Open(e, want, n) BY <1>2 DEF Working
<1>6. \/ e' = e
      \/ /\ Open(e', want, n) /\ Settled(e') /\ e'.txcomp = e.txcomp /\ e'.use = e.use
         /\ e.txcomp => e'.txrdy = e.txrdy
  BY <1>3, <1>4, <1>5, RunFacts
<1>7. Working(e', want) /\ e'.use \in Uses BY <1>2, <1>6 DEF Working
<1>8. Good(e', want, "none", FALSE) BY <1>7, WorkingIsGood
<1> QED BY <1>1, <1>8 DEF Inv, IsrRun, Good
(* The answer of a stall that was sent.                                    *)
LEMMA StallFlag ==
  ASSUME NEW s, NEW w, NEW i, NEW p, Good(s, w, i, p), NEW f \in BOOLEAN
  PROVE  Good([s EXCEPT !.stallSent = f], w, i, p)
<1> DEFINE t == [s EXCEPT !.stallSent = f]
<1>1. s \in Endpoints BY DEF Good
<1>2. /\ t \in Endpoints /\ t.cnt = s.cnt /\ t.size = s.size /\ t.enabled = s.enabled
      /\ t.force = s.force /\ t.stall = s.stall /\ t.bank = s.bank /\ t.fifo = s.fifo
      /\ t.use = s.use /\ t.busy = s.busy /\ t.cb = s.cb /\ t.txrdy = s.txrdy
      /\ t.txcomp = s.txcomp /\ t.job = s.job /\ t.short = s.short /\ t.end = s.end
  BY <1>1 DEF Endpoints
<1> HIDE DEF t
<1>3. AllLoaded(t) = AllLoaded(s) BY <1>2 DEF AllLoaded
<1>4. NextPos(t) = NextPos(s) BY <1>2, <1>3 DEF NextPos
<1>5. Working(s, w) => Working(t, w) BY <1>2, <1>3, <1>4 DEF Working, Open, Settled
<1> QED BY <1>2, <1>5 DEF Good, Quiet, t

LEMMA StallSteps == Inv /\ (HostStalled \/ IsrStall) => Inv'
<1> SUFFICES ASSUME Inv, HostStalled \/ IsrStall PROVE Inv'
  OBVIOUS
<1>1. PICK f \in BOOLEAN : e' = [e EXCEPT !.stallSent = f] BY DEF HostStalled, IsrStall
<1>2. UNCHANGED <<want, isr, pc, resetPending>> BY DEF HostStalled, IsrStall
<1>3. Good(e', want, isr, resetPending) BY <1>1, StallFlag DEF Inv
<1> QED BY <1>2, <1>3 DEF Inv

LEMMA ResetTyped ==
  ASSUME NEW s \in Endpoints
  PROVE  [s EXCEPT !.enabled = FALSE, !.force = FALSE, !.stallSent = FALSE,
                   !.irq = FALSE, !.txrdy = FALSE, !.txcomp = FALSE, !.fifo = <<>>]
           \in Endpoints
<1>1. <<>> \in Seq(Packets) OBVIOUS
<1> QED BY <1>1 DEF Endpoints

(* A job that is aborted and runs no other.                                *)
LEMMA AbortFacts ==
  ASSUME NEW s \in Endpoints, ~s.use.rerun, NEW t \in Abort(s)
  PROVE  /\ t \in Endpoints /\ t.use = s.use /\ t.cnt = s.cnt /\ t.size = s.size
         /\ t.stall = s.stall /\ t.enabled = s.enabled /\ t.force = s.force /\ ~t.busy
         /\ t.fifo = s.fifo /\ t.txcomp = s.txcomp /\ t.txrdy = s.txrdy /\ t.job = s.job
         /\ t.bank = s.bank
<1> DEFINE g == s.given /\ ~(s.busy /\ s.cb # "null")
           u == [s EXCEPT !.busy = FALSE, !.given = g]
<1>1. t = u BY DEF Abort, Endpoints
<1>2. g \in BOOLEAN BY DEF Endpoints
<1> HIDE DEF g
<1>3. u \in Endpoints BY <1>2, OverTyped
<1>4. /\ u.use = s.use /\ u.cnt = s.cnt /\ u.size = s.size /\ u.bank = s.bank
      /\ u.stall = s.stall /\ u.enabled = s.enabled /\ u.force = s.force /\ ~u.busy
      /\ u.fifo = s.fifo /\ u.txcomp = s.txcomp /\ u.txrdy = s.txrdy /\ u.job = s.job
  BY DEF Endpoints
<1> QED BY <1>1, <1>3, <1>4

LEMMA NextJobTyped == e \in Endpoints => NextJob \in Positions
<1> SUFFICES ASSUME e \in Endpoints PROVE NextJob \in Positions
  OBVIOUS
<1>1. 1 - e.job \in {0, 1} /\ 0 \in 0 .. MaxSize BY DEF Endpoints
<1> QED BY <1>1 DEF Positions, NextJob

(* A bus reset, and its end that aborts the job.                           *)
LEMMA ResetSteps == Inv /\ FromIsr /\ (BusReset \/ IsrReset) => Inv'
<1> SUFFICES ASSUME Inv, FromIsr, BusReset \/ IsrReset PROVE Inv'
  OBVIOUS
<1>0. e \in Endpoints /\ e.use \in Uses /\ ~e.use.rerun BY DEF Inv, Good, FromIsr
<1>1. CASE BusReset
  <2> DEFINE t == [e EXCEPT !.enabled = FALSE, !.force = FALSE, !.stallSent = FALSE,
                   !.irq = FALSE, !.txrdy = FALSE, !.txcomp = FALSE, !.fifo = <<>>]
  <2>1. t \in Endpoints BY <1>0, ResetTyped
  <2>2. /\ t.use = e.use /\ t.cnt = e.cnt /\ t.size = e.size /\ t.stall = e.stall
        /\ ~t.enabled /\ t.busy = e.busy /\ t.bank = e.bank /\ t.fifo = <<>>
        /\ ~t.txcomp /\ ~t.txrdy /\ t.job = e.job
    BY <1>0 DEF Endpoints
  <2>3. e' = t /\ resetPending' = TRUE /\ UNCHANGED <<want, isr, pc>> BY <1>1 DEF BusReset
  <2> HIDE DEF t
  <2> QED BY <2>1, <2>2, <2>3 DEF Inv, Good, Quiet
<1>2. CASE IsrReset
  <2> DEFINE d == [e EXCEPT !.enabled = FALSE]
  <2>1. /\ d \in Endpoints /\ d.use = e.use /\ d.cnt = e.cnt /\ d.size = e.size
        /\ d.stall = e.stall /\ ~d.enabled /\ d.fifo = e.fifo /\ d.txcomp = e.txcomp
        /\ d.txrdy = e.txrdy /\ d.job = e.job
    BY <1>0 DEF Endpoints
  <2>2. e' \in Abort(d) /\ UNCHANGED <<isr, pc>> /\ resetPending' = FALSE /\ isr = "none"
        /\ want' = [job |-> 1 - e.job, off |-> 0] /\ resetPending
    BY <1>2 DEF IsrReset, NextJob
  <2> HIDE DEF d
  <2>3. /\ e' \in Endpoints /\ e'.use = d.use /\ e'.cnt = d.cnt /\ e'.size = d.size
        /\ e'.stall = d.stall /\ e'.enabled = d.enabled /\ ~e'.busy /\ e'.fifo = d.fifo
        /\ e'.txcomp = d.txcomp /\ e'.txrdy = d.txrdy /\ e'.job = d.job
    BY <1>0, <2>1, <2>2, AbortFacts
  <2>7. want' \in Positions BY <1>0, <2>2, NextJobTyped DEF NextJob
  <2> QED BY <2>1, <2>2, <2>3, <2>7 DEF Inv, Good, Quiet
<1> QED BY <1>1, <1>2

(* The requests that free, halt and resume the endpoint.                   *)
LEMMA FreeStep == Inv /\ FromIsr /\ EpFree => Inv'
<1> SUFFICES ASSUME Inv, FromIsr, EpFree PROVE Inv'
  OBVIOUS
<1> DEFINE d == [e EXCEPT !.enabled = FALSE]
<1>1. /\ e \in Endpoints /\ e.use \in Uses /\ ~e.use.rerun /\ e.cnt <= e.size /\ ~e.stall
      /\ e.enabled /\ isr = "none" /\ ~resetPending /\ e.fifo = <<>> /\ ~e.txcomp
      /\ e' \in Abort(d) /\ want' = NextJob /\ UNCHANGED <<isr, pc, resetPending>>
  BY DEF Inv, Good, FromIsr, EpFree, InIsr
<1>2. /\ d \in Endpoints /\ d.use = e.use /\ d.cnt = e.cnt /\ d.size = e.size
      /\ d.stall = e.stall /\ ~d.enabled /\ d.fifo = e.fifo /\ d.txcomp = e.txcomp
      /\ d.txrdy = e.txrdy /\ d.job = e.job
  <2>1. e \in Endpoints BY <1>1
  <2>2. d \in Endpoints BY <2>1 DEF Endpoints
  <2> QED BY <2>1, <2>2 DEF Endpoints
<1> HIDE DEF d
<1>3. /\ e' \in Endpoints /\ e'.use = d.use /\ e'.cnt = d.cnt /\ e'.size = d.size
      /\ e'.stall = d.stall /\ e'.enabled = d.enabled /\ ~e'.busy /\ e'.fifo = d.fifo
      /\ e'.txcomp = d.txcomp /\ e'.txrdy = d.txrdy /\ e'.job = d.job
  BY <1>1, <1>2, AbortFacts
<1>4. ~e.txrdy
  <2>1. CASE e.force BY <2>1 DEF Inv, Good, Quiet
  <2>2. CASE ~e.force
    <3>1. Working(e, want) BY <1>1, <2>2 DEF Inv, Good, Quiet
    <3> QED BY <1>1, <3>1 DEF Working, Open
  <2> QED BY <2>1, <2>2
<1>5. want' \in Positions BY <1>1, NextJobTyped
<1> QED BY <1>1, <1>2, <1>3, <1>4, <1>5 DEF Inv, Good, Quiet, NextJob

LEMMA AllocTyped ==
  ASSUME NEW s \in Endpoints
  PROVE  [s EXCEPT !.enabled = TRUE, !.end = FALSE, !.stall = FALSE, !.bank = 0,
                   !.fifo = <<>>] \in Endpoints
<1>1. <<>> \in Seq(Packets) /\ 0 \in 0 .. 255 OBVIOUS
<1> QED BY <1>1 DEF Endpoints

LEMMA AllocStep == Inv /\ EpAlloc => Inv'
<1> SUFFICES ASSUME Inv, EpAlloc PROVE Inv'
  OBVIOUS
<1> DEFINE t == [e EXCEPT !.enabled = TRUE, !.end = FALSE, !.stall = FALSE, !.bank = 0,
                          !.fifo = <<>>]
<1>1. /\ e \in Endpoints /\ e.use \in Uses /\ e.cnt <= e.size
      /\ ~e.enabled /\ isr = "none" /\ ~resetPending /\ ~e.busy /\ ~e.txcomp /\ ~e.txrdy
      /\ want = [job |-> 1 - e.job, off |-> 0] /\ want \in Positions
      /\ e' = t /\ UNCHANGED <<want, isr, pc, resetPending>>
  BY DEF Inv, Good, EpAlloc, InIsr, Quiet
<1>0. e \in Endpoints BY <1>1
<1>2. t \in Endpoints BY <1>0, AllocTyped
<1>3. /\ t.use = e.use /\ t.cnt = e.cnt /\ t.size = e.size /\ ~t.stall /\ t.enabled
      /\ t.force = e.force /\ ~t.busy /\ t.bank = 0 /\ t.fifo = <<>> /\ t.txcomp = e.txcomp
      /\ t.txrdy = e.txrdy /\ t.job = e.job
  <2>1. t.use = e.use /\ t.cnt = e.cnt /\ t.size = e.size /\ t.force = e.force
        /\ t.busy = e.busy /\ t.txcomp = e.txcomp /\ t.txrdy = e.txrdy /\ t.job = e.job
    BY <1>0 DEF Endpoints
  <2>2. t.stall = FALSE /\ t.enabled = TRUE /\ t.bank = 0 /\ t.fifo = <<>>
    BY <1>0 DEF Endpoints
  <2> HIDE DEF t
  <2> QED BY <1>1, <2>1, <2>2
<1> HIDE DEF t
<1>4. ~t.force => Working(t, want) BY <1>1, <1>2, <1>3, NothingBuffered
<1> QED BY <1>1, <1>2, <1>3, <1>4 DEF Inv, Good, Quiet

LEMMA HaltStep == Inv /\ FromIsr /\ HaltAbort => Inv'
<1> SUFFICES ASSUME Inv, FromIsr, HaltAbort PROVE Inv'
  OBVIOUS
<1> DEFINE d == Killed(e)
<1>1. /\ e \in Endpoints /\ e.use \in Uses /\ ~e.use.rerun /\ e.cnt <= e.size /\ ~e.stall
      /\ e.enabled /\ ~resetPending /\ isr' = "halt"
      /\ e' \in Abort(d) /\ want' = NextJob /\ UNCHANGED <<pc, resetPending>>
  BY DEF Inv, Good, FromIsr, HaltAbort, InIsr
<1>2. /\ d \in Endpoints /\ d.use = e.use /\ d.cnt = e.cnt /\ d.size = e.size
      /\ d.stall = e.stall /\ d.enabled /\ d.fifo = <<>> /\ ~d.txcomp
      /\ ~d.txrdy /\ d.job = e.job /\ d.bank = 0
  <2>1. <<>> \in Seq(Packets) /\ 0 \in 0 .. 255 OBVIOUS
  <2>2. d \in Endpoints BY <1>1, <2>1 DEF Killed, Endpoints
  <2> QED BY <1>1, <2>2 DEF Killed, Endpoints
<1> HIDE DEF d
<1>3. /\ e' \in Endpoints /\ e'.use = d.use /\ e'.cnt = d.cnt /\ e'.size = d.size
      /\ e'.stall = d.stall /\ e'.enabled = d.enabled /\ ~e'.busy /\ e'.fifo = d.fifo
      /\ e'.txcomp = d.txcomp /\ e'.txrdy = d.txrdy /\ e'.job = d.job /\ e'.bank = d.bank
  BY <1>1, <1>2, AbortFacts
<1>4. want' \in Positions BY <1>1, NextJobTyped
<1> QED BY <1>1, <1>2, <1>3, <1>4 DEF Inv, Good, Quiet, NextJob
LEMMA HaltSetStep == Inv /\ HaltSet => Inv'
<1> SUFFICES ASSUME Inv, HaltSet PROVE Inv'
  OBVIOUS
<1> DEFINE t == [e EXCEPT !.force = TRUE, !.irq = TRUE]
<1>1. /\ e \in Endpoints /\ e.use \in Uses /\ e.cnt <= e.size /\ ~e.stall /\ ~e.txrdy
      /\ ~e.txcomp /\ e.fifo = <<>> /\ ~e.busy /\ e.bank = 0
      /\ (resetPending => ~e.enabled) /\ resetPending \in BOOLEAN
      /\ (~resetPending => want = [job |-> 1 - e.job, off |-> 0]) /\ want \in Positions
      /\ isr' = "none" /\ UNCHANGED <<want, pc, resetPending>>
  BY DEF Inv, Good, HaltSet
<1>2. e' = t
  <2>1. ~(e.bank > 1) BY <1>1
  <2> QED BY <1>1, <2>1, Zenon DEF HaltSet
<1>0. e \in Endpoints BY <1>1
<1>3. /\ t \in Endpoints /\ t.use = e.use /\ t.cnt = e.cnt /\ t.size = e.size
      /\ t.stall = e.stall /\ t.enabled = e.enabled /\ t.force /\ t.busy = e.busy
      /\ t.bank = e.bank /\ t.fifo = e.fifo /\ t.txcomp = e.txcomp /\ t.txrdy = e.txrdy
      /\ t.job = e.job
  BY <1>0 DEF Endpoints
<1> HIDE DEF t
<1> QED BY <1>1, <1>2, <1>3 DEF Inv, Good, Quiet

LEMMA ResumedTyped ==
  ASSUME NEW s \in Endpoints, NEW g \in BOOLEAN
  PROVE  [s EXCEPT !.stall = FALSE, !.force = FALSE, !.stallSent = FALSE, !.fifo = <<>>,
                   !.busy = FALSE, !.given = g] \in Endpoints
<1>1. <<>> \in Seq(Packets) OBVIOUS
<1> QED BY <1>1 DEF Endpoints

LEMMA ClearStep == Inv /\ ClearHalt => Inv'
<1> SUFFICES ASSUME Inv, ClearHalt PROVE Inv'
  OBVIOUS
<1> DEFINE g == e.given /\ ~e.busy
           t == [e EXCEPT !.stall = FALSE, !.force = FALSE, !.stallSent = FALSE,
                          !.fifo = <<>>, !.busy = FALSE, !.given = g]
<1>1. /\ e \in Endpoints /\ e.use \in Uses /\ e.cnt <= e.size /\ ~e.stall /\ e.force
      /\ ~resetPending /\ isr = "none" /\ (~e.enabled => ~e.busy)
      /\ e.fifo = <<>> /\ ~e.txcomp /\ ~e.txrdy /\ (e.enabled => e.bank = 0)
      /\ want = [job |-> 1 - e.job, off |-> 0] /\ want \in Positions
      /\ UNCHANGED <<want, isr, pc, resetPending>>
  BY DEF Inv, Good, ClearHalt, InIsr, Quiet
<1>0. e \in Endpoints BY <1>1
<1>2. e' = t \/ (e.busy /\ \E b \in Bufs : e' = Run(t, b))
  BY <1>1 DEF ClearHalt, Endpoints
<1>3. g \in BOOLEAN BY <1>0 DEF Endpoints
<1> HIDE DEF g
<1>4. t \in Endpoints BY <1>0, <1>3, ResumedTyped
<1>5. /\ t.use = e.use /\ t.cnt = e.cnt /\ t.size = e.size /\ ~t.stall
      /\ t.enabled = e.enabled /\ ~t.force /\ ~t.busy /\ t.bank = e.bank /\ t.fifo = <<>>
      /\ t.txcomp = e.txcomp /\ t.txrdy = e.txrdy /\ t.job = e.job
  BY <1>0 DEF Endpoints
<1> HIDE DEF t
<1>6. CASE ~e.enabled BY <1>1, <1>2, <1>4, <1>5, <1>6 DEF Inv, Good, Quiet
<1>7. CASE e.enabled
  <2>1. Working(t, want) /\ Open(t, want, 0)
    BY <1>1, <1>4, <1>5, <1>7, NothingBuffered
  <2>2. Working(e', want) /\ e'.use \in Uses
    <3>1. CASE e' = t BY <1>1, <1>5, <2>1, <3>1
    <3>2. ASSUME NEW b \in Bufs, e' = Run(t, b) PROVE Working(e', want) /\ e'.use \in Uses
      <4>1. \/ e' = t
            \/ Open(e', want, 0) /\ Settled(e') /\ e'.txcomp = t.txcomp /\ e'.use = t.use
        BY <2>1, <3>2, RunFacts
      <4> QED BY <1>1, <1>5, <2>1, <4>1 DEF Working
    <3> QED BY <1>2, <3>1, <3>2
  <2>3. Good(e', want, "none", FALSE) BY <2>2, WorkingIsGood
  <2> QED BY <1>1, <2>3 DEF Inv, Good
<1> QED BY <1>6, <1>7

LEMMA WaitStep == Inv /\ WaitStallClear => Inv'
<1> SUFFICES ASSUME Inv, WaitStallClear PROVE Inv'
  OBVIOUS
<1> DEFINE t == [e EXCEPT !.busy = TRUE, !.cb = "nohalt"]
<1>1. /\ e \in Endpoints /\ e.use \in Uses /\ e.cnt <= e.size /\ ~e.stall /\ e.force
      /\ ~resetPending /\ isr = "none" /\ e.enabled
      /\ e.fifo = <<>> /\ ~e.txcomp /\ ~e.txrdy /\ e.bank = 0
      /\ want = [job |-> 1 - e.job, off |-> 0] /\ want \in Positions
      /\ e' = t /\ UNCHANGED <<want, isr, pc, resetPending>>
  BY DEF Inv, Good, WaitStallClear, InIsr, Quiet
<1>0. e \in Endpoints BY <1>1
<1>2. /\ t \in Endpoints /\ t.use = e.use /\ t.cnt = e.cnt /\ t.size = e.size
      /\ t.stall = e.stall /\ t.enabled = e.enabled /\ t.force = e.force
      /\ t.bank = e.bank /\ t.fifo = e.fifo /\ t.txcomp = e.txcomp /\ t.txrdy = e.txrdy
      /\ t.job = e.job
  BY <1>0 DEF Endpoints
<1> HIDE DEF t
<1> QED BY <1>1, <1>2 DEF Inv, Good, Quiet

LEMMA Inductive == Inv /\ FromIsr /\ [Next]_vars => Inv'
<1> SUFFICES ASSUME Inv, FromIsr, [Next]_vars PROVE Inv'
  OBVIOUS
<1>1. CASE Hardware BY <1>1, TakeStep, StallSteps, ResetSteps DEF Hardware
<1>2. CASE Isr BY <1>2, SentStep, StallSteps, ResetSteps, RunStep DEF Isr
<1>3. CASE Requests
  BY <1>3, FreeStep, AllocStep, HaltStep, HaltSetStep, ClearStep, WaitStep DEF Requests
<1>4. ~Thread
  <2>1. e.use \in Uses /\ pc = "idle" BY DEF Inv, Good
  <2>2. ~e.use.thread BY <2>1 DEF FromIsr
  <2> QED BY <2>2 DEF Thread, RunCheck, RunClaim, RunSize, RunSetup, RunStart, InThread
<1>5. CASE UNCHANGED vars
  BY <1>5, Zenon DEF vars, Inv, Good
<1> QED BY <1>1, <1>2, <1>3, <1>4, <1>5 DEF Next

LEMMA Holds == FromIsr => (Spec => []Inv)
<1> SUFFICES ASSUME FromIsr PROVE Spec => []Inv
  OBVIOUS
<1>1. Inv /\ [Next]_vars => Inv' BY Inductive
<1> QED BY <1>1, Initially, PTL DEF Spec

(* What the host gets next and what is in the FIFO.                        *)
LEMMA Buffered ==
  ASSUME Inv
  PROVE  /\ e.fifo \in Seq(Packets) /\ Len(e.fifo) <= e.use.banks /\ Len(e.fifo) <= 2
         /\ Len(e.fifo) \in Nat
<1>1. e \in Endpoints /\ e.fifo \in Seq(Packets) /\ e.use.banks \in {1, 2}
  BY DEF Inv, Good, Endpoints, Use
<1>2. Len(e.fifo) \in Nat BY <1>1
<1>3. CASE e.fifo = <<>>
  <2>1. Len(<<>>) = 0 OBVIOUS
  <2> QED BY <1>1, <1>3, <2>1
<1>4. CASE e.fifo # <<>>
  <2>1. Working(e, want) BY <1>4 DEF Inv, Good, Quiet
  <2>2. PICK n \in {0, 1} : e.bank = Len(e.fifo) + n /\ e.bank <= e.use.banks
    BY <2>1 DEF Working, Open
  <2>3. \A m \in Nat, k \in {1, 2} : \A x \in {0, 1} : m + x <= k => m <= k /\ m <= 2
    OBVIOUS
  <2> QED BY <1>1, <1>2, <2>2, <2>3
<1> QED BY <1>3, <1>4, <1>1

(* Under the assumption that the transfers of the endpoint are run by the  *)
(* interrupt routine, and not by the callback of an abort, the driver's    *)
(* count of the buffered banks is right whatever the sizes of packets and  *)
(* buffers, through appended jobs, empty last packets, halts and resets.   *)
THEOREM BanksAreCounted == FromIsr => (Spec => []BankCounts)
<1>1. Inv => BankCounts
  <2> SUFFICES ASSUME Inv, e.enabled
               PROVE  e.bank = Len(e.fifo) + (IF e.txcomp THEN 1 ELSE 0)
    BY DEF BankCounts
  <2>1. CASE Quiet(e) \/ isr = "halt"
    <3>1. e.fifo = <<>> /\ ~e.txcomp /\ e.bank = 0 BY <2>1 DEF Inv, Good
    <3>2. Len(<<>>) = 0 /\ 0 + 0 = 0 OBVIOUS
    <3> QED BY <3>1, <3>2
  <2>2. CASE ~Quiet(e) /\ isr = "none"
    BY <2>2 DEF Inv, Good, Working, Open
  <2> QED BY <2>1, <2>2 DEF Inv, Good
<1> QED BY <1>1, Holds, PTL

(* Under the same assumption the host gets every packet of every job once  *)
(* and in order: what is ready to be sent is what it wants next.           *)
THEOREM HostGetsTheStream == FromIsr => (Spec => []StreamInOrder)
<1>1. Inv => StreamInOrder
  <2> SUFFICES ASSUME Inv, e.txrdy
               PROVE  /\ e.fifo # <<>>
                      /\ want = [job |-> Head(e.fifo).job, off |-> Head(e.fifo).off]
    BY DEF StreamInOrder
  <2>1. Working(e, want) BY DEF Inv, Good, Quiet
  <2>2. e.fifo # <<>> /\ Linked(e.fifo, want, NextPos(e)) BY <2>1 DEF Working, Open
  <2>3. want = Pos(Head(e.fifo)) BY <2>2, Buffered, LinkedTail
  <2> QED BY <2>2, <2>3 DEF Pos
<1> QED BY <1>1, Holds, PTL

(* Under the same assumption every variable keeps its type, and no more    *)
(* packets are buffered than the endpoint has banks.                       *)
THEOREM InTypes == FromIsr => (Spec => []TypeOK)
<1>1. Inv => TypeOK
  <2> SUFFICES ASSUME Inv PROVE TypeOK
    OBVIOUS
  <2>1. e \in Endpoints /\ e.use \in Uses /\ pc = "idle" /\ want \in Positions
        /\ isr \in {"none", "halt"} /\ resetPending \in BOOLEAN
    BY DEF Inv, Good
  <2>2. Len(e.fifo) \in 0 .. 2 /\ Len(e.fifo) <= e.use.banks
    <3>1. \A n \in Nat : n <= 2 => n \in 0 .. 2 OBVIOUS
    <3> QED BY <3>1, Buffered
  <2>3. e.fifo \in [1 .. Len(e.fifo) -> Packets] BY Buffered
  <2>4. e.fifo \in UNION {[1 .. n -> Packets] : n \in 0 .. 2} BY <2>2, <2>3
  <2> QED BY <2>1, <2>2, <2>4 DEF TypeOK, Endpoints, Positions
<1> QED BY <1>1, Holds, PTL
=============================================================================
