------------------------------- MODULE UdiProofs -------------------------------
(***************************************************************************)
(* Proofs about the two device classes, udi_hid_kbd.c and udi_cdc.c.       *)
(*                                                                         *)
(*   - The classes that send through an interrupt IN endpoint, for every   *)
(*     set of keys and every number of slots: what the keyboard reports    *)
(*     and when it waits, and that the serial port tells of an error once, *)
(*     even if a message is over before the call that sent it has stored   *)
(*     that it is under way.                                               *)
(*   - The two halves of the serial port, for buffers, writes and reads of *)
(*     every size: each implements ByteStream step by step, so that bytes  *)
(*     arrive once and in order, and neither forgets a transfer.           *)
(***************************************************************************)
EXTENDS MCInterruptIn, MCUdiCdcTx, MCUdiCdcRx, SequenceTheorems, WellFoundedInduction, TLAPS

(***************************************************************************)
(* The keyboard.  Its loops stop at the first slot that is free or holds   *)
(* the key; that there is a first one is what Min needs.                   *)
(***************************************************************************)
Below == {p \in Nat \X Nat : p[1] < p[2]}

LEMMA BelowIsWellFounded == IsWellFoundedOn(Below, Nat)
BY NatLessThanWellFounded DEF OpToRel, Below

LEMMA MinIsLeast ==
  ASSUME NEW S, S \subseteq Nat, S # {}
  PROVE  Min(S) \in S /\ \A y \in S : Min(S) <= y
<1>1. PICK x \in S : \A y \in S : <<y, x>> \notin Below
  BY BelowIsWellFounded, WFMin
<1>2. ASSUME NEW y \in S PROVE x <= y
  <2>1. <<y, x>> \in Nat \X Nat /\ ~ (<<y, x>>[1] < <<y, x>>[2]) BY <1>1 DEF Below
  <2>2. x \in Nat /\ y \in Nat /\ ~(y < x) BY <2>1
  <2> QED BY <2>2
<1>3. \E z \in S : \A y \in S : z <= y BY <1>2
<1> QED BY <1>3 DEF Min

LEMMA StopsAtFirst ==
  ASSUME NEW k \in Keys, Stops(k) # {}
  PROVE  LET i == Min(Stops(k))
         IN /\ i \in 1 .. Slots /\ report.keys[i] \in {0, k}
            /\ \A j \in 1 .. Slots : j < i => report.keys[j] \notin {0, k}
<1>1. Stops(k) \subseteq Nat BY DEF Stops
<1>2. Min(Stops(k)) \in Stops(k) /\ \A y \in Stops(k) : Min(Stops(k)) <= y
  BY <1>1, MinIsLeast
<1> QED BY <1>2, KeysAssumption DEF Stops

(* Taking a key out of a packed report leaves a packed one, and so does    *)
(* adding one in the first free slot, unless it is there already.          *)
LEMMA RemovedIsPacked ==
  ASSUME NEW keys, Packed(keys), NEW i \in 1 .. Slots
  PROVE  Packed(Removed(keys, i))
<1> DEFINE r == Removed(keys, i)
<1>1. Slots \in Nat /\ keys \in [1 .. Slots -> Keys \cup {0}]
  BY KeysAssumption DEF Packed
<1>2. \A j \in 1 .. Slots : /\ j < i => r[j] = keys[j]
                            /\ j = Slots => r[j] = 0
                            /\ i <= j /\ j < Slots => r[j] = keys[j + 1] /\ j + 1 \in 1 .. Slots
  BY <1>1 DEF Removed
<1>3. r \in [1 .. Slots -> Keys \cup {0}]
  <2>1. DOMAIN r = 1 .. Slots /\ r = [j \in 1 .. Slots |-> r[j]] BY DEF Removed
  <2>2. ASSUME NEW j \in 1 .. Slots PROVE r[j] \in Keys \cup {0}
    <3> HIDE DEF r
    <3>1. j < i \/ j = Slots \/ (i <= j /\ j < Slots) BY <1>1
    <3> QED BY <1>1, <1>2, <3>1
  <2> HIDE DEF r
  <2> QED BY <2>1, <2>2
<1> HIDE DEF r
<1>4. ASSUME NEW a \in 1 .. Slots, NEW b \in 1 .. Slots, a < b, r[b] # 0
      PROVE  r[a] \notin {0, r[b]}
  <2>1. b < Slots /\ a < Slots BY <1>1, <1>2, <1>4
  <2>2. PICK m \in 1 .. Slots : r[b] = keys[m] /\ m = IF b < i THEN b ELSE b + 1
    BY <1>1, <1>2, <2>1
  <2>3. PICK l \in 1 .. Slots : r[a] = keys[l] /\ l = IF a < i THEN a ELSE a + 1
    BY <1>1, <1>2, <2>1
  <2>4. l < m BY <1>4, <2>2, <2>3
  <2> QED BY <1>4, <2>2, <2>3, <2>4 DEF Packed
<1> QED BY <1>3, <1>4 DEF Packed, r

LEMMA AddedIsPacked ==
  ASSUME NEW keys, Packed(keys), NEW i \in 1 .. Slots, NEW k \in Keys, keys[i] = 0,
         \A j \in 1 .. Slots : j < i => keys[j] \notin {0, k}
  PROVE  Packed([keys EXCEPT ![i] = k])
<1> DEFINE r == [keys EXCEPT ![i] = k]
<1>1. Slots \in Nat /\ keys \in [1 .. Slots -> Keys \cup {0}] /\ k # 0
  BY KeysAssumption DEF Packed
<1>2. r \in [1 .. Slots -> Keys \cup {0}] /\ \A j \in 1 .. Slots : r[j] = IF j = i THEN k ELSE keys[j]
  BY <1>1
<1> HIDE DEF r
<1>3. \A j \in 1 .. Slots : i < j => keys[j] = 0 BY DEF Packed
<1>4. ASSUME NEW a \in 1 .. Slots, NEW b \in 1 .. Slots, a < b
      PROVE  r[b] = 0 \/ r[a] \notin {0, r[b]}
  <2>1. CASE b = i BY <1>1, <1>2, <1>4, <2>1
  <2>2. CASE i < b BY <1>1, <1>2, <1>3, <2>2
  <2>3. CASE b < i BY <1>1, <1>2, <1>4, <2>3 DEF Packed
  <2> QED BY <2>1, <2>2, <2>3, <1>1
<1> QED BY <1>2, <1>4 DEF Packed, r

-----------------------------------------------------------------------------
KbdEndpoint ==
  [enabled : BOOLEAN, halted : BOOLEAN, stallRequested : BOOLEAN,
   job : [state : {"none", "sent", "taken", "held"}, data : Reports]]

(* The inductive invariant: a disabled endpoint has no transfer, for       *)
(* udi_hid_kbd_enable clears ongoing without a look at it.                 *)
KbdInv == TypeOK /\ (ep.job.state # "none" => ep.enabled)

(* What KbdInv says of the transfer, for an endpoint e.                    *)
Matches(e) ==
  /\ e \in KbdEndpoint /\ (e.job.state # "none" => e.enabled)
  /\ valid' \in BOOLEAN /\ ongoing' \in BOOLEAN /\ lost' \in BOOLEAN
  /\ valid' => ongoing'
  /\ ongoing' <=> e.job.state # "none"

LEMMA MatchesInv ==
  ASSUME Matches(ep'), report' \in Reports, host' \in Reports
  PROVE  KbdInv'
BY DEF Matches, KbdInv, TypeOK, KbdEndpoint

LEMMA ReleasedTyped ==
  Released \in Reports /\ NoJob = [state |-> "none", data |-> Released]
<1>1. \A i, j \in 1 .. Slots : Released.keys[i] = 0 /\ Released.keys[j] = 0 BY DEF Released
<1>2. Released.keys \in [1 .. Slots -> Keys \cup {0}] BY DEF Released
<1>3. Packed(Released.keys) BY <1>1, <1>2 DEF Packed
<1> QED BY <1>2, <1>3 DEF Reports, Released, NoJob

(* An endpoint without a job, and what sending a report makes of it.       *)
LEMMA SendMatches ==
  ASSUME NEW e \in KbdEndpoint, NEW r \in Reports, NEW busy \in BOOLEAN,
         busy => e.job.state # "none" /\ e.enabled, ~busy => e.job.state = "none",
         lost \in BOOLEAN, Send(r, busy, e)
  PROVE  Matches(ep')
<1>1. CASE busy BY <1>1 DEF Send, Matches
<1>2. CASE ~busy /\ Accepts(e)
  <2>1. /\ ep' = [e EXCEPT !.job = [state |-> "sent", data |-> r]]
        /\ valid' = FALSE /\ ongoing' = TRUE /\ lost' = FALSE /\ e.enabled
    BY <1>2 DEF Send, Accepts
  <2> QED BY <2>1 DEF Matches, KbdEndpoint
<1>3. CASE ~busy /\ ~Accepts(e)
  <2>1. ep' = e /\ valid' = FALSE /\ ongoing' = FALSE /\ lost' = TRUE
    BY <1>3 DEF Send, Accepts
  <2> QED BY <1>3, <2>1 DEF Matches
<1> QED BY <1>1, <1>2, <1>3

LEMMA ReportSentMatches ==
  ASSUME TypeOK, NEW e \in KbdEndpoint, e.job.state = "none", NEW gone \in BOOLEAN,
         ReportSent(e, gone)
  PROVE  Matches(ep')
<1>1. CASE valid BY <1>1, SendMatches DEF ReportSent, TypeOK
<1>2. CASE ~valid
  <2>1. valid' = valid /\ ongoing' = FALSE /\ ep' = e /\ lost' = (lost \/ gone)
    BY <1>2 DEF ReportSent
  <2>2. lost' \in BOOLEAN /\ valid' \in BOOLEAN BY <2>1 DEF TypeOK
  <2> QED BY <1>2, <2>1, <2>2 DEF Matches
<1> QED BY <1>1, <1>2

LEMMA AbortMatches ==
  ASSUME KbdInv, NEW e \in KbdEndpoint, e.job = ep.job, Abort(e)
  PROVE  Matches(ep')
<1>1. CASE e.job.state = "none"
  BY <1>1 DEF Abort, KbdInv, TypeOK, Matches
<1>2. CASE e.job.state # "none"
  <2> DEFINE f == [e EXCEPT !.job = NoJob]
  <2>1. f \in KbdEndpoint /\ f.job.state = "none" BY ReleasedTyped DEF KbdEndpoint
  <2>2. ReportSent(f, e.job.state = "sent") BY <1>2 DEF Abort
  <2> HIDE DEF f
  <2> QED BY <2>1, <2>2, ReportSentMatches DEF KbdInv
<1> QED BY <1>1, <1>2

-----------------------------------------------------------------------------
LEMMA KbdInitInv == Init => KbdInv
<1> SUFFICES ASSUME Init PROVE KbdInv OBVIOUS
<1>1. ep \in KbdEndpoint /\ ep.job.state = "none"
  <2>1. NoJob \in [state : {"none", "sent", "taken", "held"}, data : Reports]
        /\ NoJob.state = "none"
    BY ReleasedTyped
  <2>2. ep = [enabled |-> FALSE, halted |-> FALSE, stallRequested |-> FALSE, job |-> NoJob]
    BY DEF Init
  <2> QED BY <2>1, <2>2 DEF KbdEndpoint
<1> QED BY <1>1, ReleasedTyped DEF Init, KbdInv, TypeOK, KbdEndpoint

LEMMA ChangeInv ==
  ASSUME KbdInv, NEW r \in Reports, Change(r)
  PROVE  KbdInv'
<1>1. ep \in KbdEndpoint BY DEF KbdInv, TypeOK, KbdEndpoint
<1>2. Matches(ep') BY <1>1, SendMatches DEF Change, KbdInv, TypeOK
<1> QED BY <1>2, MatchesInv DEF Change, KbdInv, TypeOK

LEMMA ApplicationInv == ASSUME KbdInv, Application PROVE KbdInv'
<1>0. report \in Reports /\ Packed(report.keys) /\ report.mods \in SUBSET Modifiers
      /\ report = [mods |-> report.mods, keys |-> report.keys]
  BY DEF KbdInv, TypeOK, Reports
<1>r. ASSUME NEW q, Packed(q)
      PROVE  [report EXCEPT !.keys = q] \in Reports
  BY <1>0, <1>r DEF Reports, Packed
<1>1. ASSUME NEW k \in Keys, Up(k) PROVE KbdInv'
  <2>1. Min(Stops(k)) \in 1 .. Slots BY <1>1, StopsAtFirst DEF Up
  <2>2. Packed(Removed(report.keys, Min(Stops(k)))) BY <1>0, <2>1, RemovedIsPacked
  <2>3. [report EXCEPT !.keys = Removed(report.keys, Min(Stops(k)))] \in Reports
    BY <1>r, <2>2
  <2> QED BY <1>1, <2>3, ChangeInv DEF Up
<1>2. ASSUME NEW k \in Keys, Down(k) PROVE KbdInv'
  <2> DEFINE i == Min(Stops(k))
  <2>1. /\ i \in 1 .. Slots /\ report.keys[i] = 0
        /\ \A j \in 1 .. Slots : j < i => report.keys[j] \notin {0, k}
    BY <1>2, StopsAtFirst DEF Down
  <2>2. Change([report EXCEPT !.keys[i] = k]) BY <1>2 DEF Down
  <2> HIDE DEF i
  <2>3. Packed([report.keys EXCEPT ![i] = k]) BY <1>0, <2>1, AddedIsPacked
  <2>4. [report EXCEPT !.keys[i] = k] = [report EXCEPT !.keys = [report.keys EXCEPT ![i] = k]]
    BY <1>0
  <2>5. [report EXCEPT !.keys[i] = k] \in Reports BY <1>r, <2>3, <2>4
  <2> QED BY <2>2, <2>5, ChangeInv
<1>3. ASSUME NEW m \in Modifiers, ModifierUp(m) \/ ModifierDown(m) PROVE KbdInv'
  <2>1. /\ [report EXCEPT !.mods = @ \ {m}] \in Reports
        /\ [report EXCEPT !.mods = @ \cup {m}] \in Reports
    BY <1>0 DEF Reports
  <2> QED BY <1>3, <2>1, ChangeInv DEF ModifierUp, ModifierDown
<1> QED BY <1>1, <1>2, <1>3 DEF Application

LEMMA KbdIsrInv == ASSUME KbdInv, IsrSent PROVE KbdInv'
<1>0. ep \in KbdEndpoint /\ report' \in Reports /\ host' \in Reports
  BY DEF IsrSent, KbdInv, TypeOK, KbdEndpoint
<1>1. CASE ep.stallRequested
  <2>1. /\ ep' = [ep EXCEPT !.stallRequested = FALSE, !.halted = TRUE, !.job.state = "held"]
        /\ UNCHANGED <<valid, ongoing, lost>> /\ ep.job.state = "taken"
    BY <1>1 DEF IsrSent
  <2>2. ep' \in KbdEndpoint /\ ep'.job.state = "held" /\ ep'.enabled = ep.enabled
    BY <1>0, <2>1 DEF KbdEndpoint
  <2>3. Matches(ep') BY <2>1, <2>2 DEF Matches, KbdInv, TypeOK
  <2> QED BY <1>0, <2>3, MatchesInv
<1>2. CASE ~ep.stallRequested
  <2> DEFINE f == [ep EXCEPT !.job = NoJob]
  <2>1. f \in KbdEndpoint /\ f.job.state = "none"
    BY <1>0, ReleasedTyped DEF KbdEndpoint
  <2>2. ReportSent(f, FALSE) BY <1>2 DEF IsrSent
  <2> HIDE DEF f
  <2>3. Matches(ep') BY <2>1, <2>2, ReportSentMatches DEF KbdInv
  <2> QED BY <1>0, <2>3, MatchesInv
<1> QED BY <1>1, <1>2

LEMMA KbdRequestsInv == ASSUME KbdInv, Requests PROVE KbdInv'
<1>0. ep \in KbdEndpoint /\ report \in Reports /\ host \in Reports
      /\ ep.enabled \in BOOLEAN /\ ep.halted \in BOOLEAN
  BY DEF KbdInv, TypeOK, KbdEndpoint
<1>1. CASE Enable
  <2>1. ep.job.state = "none" BY <1>1 DEF Enable, KbdInv
  <2>2. Matches(ep') BY <1>0, <1>1, <2>1 DEF Enable, Matches, KbdEndpoint
  <2> QED BY <1>1, <2>2, ReleasedTyped, MatchesInv DEF Enable
<1>2. CASE Disable
  <2>1. PICK h \in {ep.halted, FALSE} : Abort([ep EXCEPT !.enabled = FALSE, !.halted = h])
    BY <1>2 DEF Disable
  <2>2. [ep EXCEPT !.enabled = FALSE, !.halted = h] \in KbdEndpoint
    BY <1>0 DEF KbdEndpoint
  <2>3. [ep EXCEPT !.enabled = FALSE, !.halted = h].job = ep.job
    BY <1>0 DEF KbdEndpoint
  <2>4. Matches(ep') BY <2>1, <2>2, <2>3, AbortMatches
  <2> QED BY <1>0, <1>2, <2>4, MatchesInv DEF Disable
<1>3. CASE Halt
  <2>1. CASE HaltNow
    <3>1. /\ [ep EXCEPT !.halted = TRUE] \in KbdEndpoint
          /\ [ep EXCEPT !.halted = TRUE].job = ep.job
      BY <1>0 DEF KbdEndpoint
    <3>2. Matches(ep') BY <2>1, <3>1, AbortMatches DEF HaltNow
    <3> QED BY <1>0, <1>3, <3>2, MatchesInv DEF Halt
  <2>2. CASE HaltAfterNext
    <3>1. ep' \in KbdEndpoint /\ ep'.job.state = "sent" /\ ep'.enabled = ep.enabled
      BY <1>0, <2>2 DEF HaltAfterNext, KbdEndpoint
    <3>2. Matches(ep') BY <1>3, <2>2, <3>1 DEF Halt, HaltAfterNext, Matches
    <3> QED BY <1>0, <1>3, <3>2, MatchesInv DEF Halt
  <2> QED BY <1>3, <2>1, <2>2 DEF Halt
<1>4. CASE ClearHalt
  <2>1. CASE ep' = [ep EXCEPT !.stallRequested = FALSE] /\ UNCHANGED <<valid, ongoing, lost>>
    <3>1. ep' \in KbdEndpoint /\ ep'.job = ep.job /\ ep'.enabled = ep.enabled
      BY <1>0, <2>1 DEF KbdEndpoint
    <3>2. Matches(ep') BY <2>1, <3>1 DEF Matches, KbdInv, TypeOK
    <3> QED BY <1>0, <1>4, <3>2, MatchesInv DEF ClearHalt
  <2>2. CASE Abort([ep EXCEPT !.halted = FALSE])
    <3>1. /\ [ep EXCEPT !.halted = FALSE] \in KbdEndpoint
          /\ [ep EXCEPT !.halted = FALSE].job = ep.job
      BY <1>0 DEF KbdEndpoint
    <3>2. Matches(ep') BY <2>2, <3>1, AbortMatches
    <3> QED BY <1>0, <1>4, <3>2, MatchesInv DEF ClearHalt
  <2> QED BY <1>4, <2>1, <2>2 DEF ClearHalt
<1> QED BY <1>1, <1>2, <1>3, <1>4 DEF Requests

LEMMA KbdNextInv == ASSUME KbdInv, [Next]_vars PROVE KbdInv'
<1>1. CASE HostTakes
  <2>1. ep' \in KbdEndpoint /\ ep'.job.state = "taken" /\ ep'.enabled = ep.enabled
        /\ host' \in Reports
    BY <1>1 DEF HostTakes, KbdInv, TypeOK, KbdEndpoint
  <2>2. Matches(ep') BY <1>1, <2>1 DEF HostTakes, Matches, KbdInv, TypeOK
  <2> QED BY <1>1, <2>1, <2>2, MatchesInv DEF HostTakes, KbdInv, TypeOK
<1>2. CASE UNCHANGED vars
  BY <1>2 DEF vars, KbdInv, TypeOK
<1> QED BY <1>1, <1>2, ApplicationInv, KbdIsrInv, KbdRequestsInv DEF Next

-----------------------------------------------------------------------------
(***************************************************************************)
(* The serial state.  The invariant says where errors the host knows of    *)
(* may still be: in the state, until the callback of the message that told *)
(* of them.                                                                *)
(***************************************************************************)
CdcEndpoint ==
  [enabled : BOOLEAN, halted : BOOLEAN, stallRequested : BOOLEAN,
   job : [state : {"none", "sent", "taken", "held", "astray"}, data : SUBSET Cdc!Signals]]

CdcTypes ==
  /\ state \subseteq Cdc!Signals /\ msg \subseteq Cdc!Signals /\ cdcOngoing \in BOOLEAN
  /\ call \in [at : {"none", "test", "fill", "run", "store"}, ok : BOOLEAN]
  /\ cdcEp \in CdcEndpoint
  /\ cdcHost \subseteq Cdc!Lines /\ fresh \subseteq Cdc!Errors /\ cdcLost \in BOOLEAN

(* A message is filled and handed over only while none is under way.       *)
OneMessage ==
  /\ Cdc!HasJob(cdcEp) => cdcEp.enabled
  /\ cdcEp.job.state # "none" =>
       /\ call.at \notin {"fill", "run"}
       /\ IF call.at = "store" THEN call.ok ELSE cdcOngoing

(* Errors that the host has not been told of.                              *)
NotTold ==
  /\ cdcEp.job.state \in {"none", "sent"} => state \intersect Cdc!Errors \subseteq fresh
  /\ call.at = "run" => msg \intersect Cdc!Errors \subseteq fresh

CdcInv == CdcTypes /\ OneMessage /\ NotTold /\ Cdc!ErrorsToldOnce

-----------------------------------------------------------------------------
LEMMA ReportedHasNoError ==
  \A s \in SUBSET Cdc!Signals :
    Cdc!Reported(s) \subseteq Cdc!Signals /\ Cdc!Reported(s) \intersect Cdc!Errors = {}
BY DEF Cdc!Reported

LEMMA CdcNoJobTyped ==
  Cdc!NoJob \in [state : {"none", "sent", "taken", "held", "astray"}, data : SUBSET Cdc!Signals]
BY DEF Cdc!NoJob

(* The endpoints that the interrupt routine may hand to the callback, and  *)
(* the interface after it: nothing there tells of an error.                *)
LEMMA CdcSentInv ==
  ASSUME CdcTypes, OneMessage, cdcEp.job.state # "none",
         NEW e, NEW gone \in BOOLEAN,
         e \in CdcEndpoint,
         e.job = Cdc!NoJob, Cdc!MessageSent(e, gone), UNCHANGED <<call, cdcHost, fresh>>
  PROVE  CdcInv'
<1>0. e.job.state = "none" /\ e.job.data = {} BY DEF Cdc!NoJob
<1>1. call.at \notin {"fill", "run"} BY DEF OneMessage
<1>2. /\ state' \subseteq Cdc!Signals /\ state' \intersect Cdc!Errors = {}
      /\ msg' \subseteq Cdc!Signals /\ msg' \intersect Cdc!Errors = {}
  BY ReportedHasNoError DEF Cdc!MessageSent, CdcTypes, CdcEndpoint
<1>3. /\ cdcEp' \in CdcEndpoint
      /\ cdcEp'.job.state \in {"none", "sent"} /\ cdcEp'.job.data \intersect Cdc!Errors = {}
      /\ cdcOngoing' \in BOOLEAN /\ cdcLost' \in BOOLEAN
      /\ cdcEp'.job.state # "none" => cdcEp'.enabled /\ cdcOngoing'
  <2>1. CASE cdcEp' = e /\ cdcOngoing' = FALSE /\ cdcLost' = (cdcLost \/ gone)
    <3>1. cdcLost' \in BOOLEAN BY <2>1 DEF CdcTypes, CdcEndpoint
    <3> QED BY <1>0, <2>1, <3>1
  <2>2. CASE cdcOngoing' = Cdc!Accepts(e) /\ Cdc!Run(e, Cdc!Reported(state))
    <3>1. e.job.state = "none" /\ Cdc!Accepts(e) \in BOOLEAN BY DEF Cdc!NoJob, Cdc!Accepts
    <3>2. /\ Cdc!Reported(state) \subseteq Cdc!Signals
          /\ Cdc!Reported(state) \intersect Cdc!Errors = {}
      BY ReportedHasNoError DEF CdcTypes, CdcEndpoint
    <3>3. CASE Cdc!Accepts(e)
      <4>1. /\ cdcEp' = [e EXCEPT !.job = [state |-> "sent", data |-> Cdc!Reported(state)]]
            /\ ~cdcLost'
        BY <2>2, <3>3 DEF Cdc!Run
      <4>2. e.enabled BY <3>3 DEF Cdc!Accepts
      <4> QED BY <2>2, <3>1, <3>2, <3>3, <4>1, <4>2 DEF Cdc!Run, CdcEndpoint
    <3>4. CASE ~Cdc!Accepts(e)
      <4>1. cdcEp' = e /\ cdcLost' = TRUE /\ cdcOngoing' = FALSE BY <2>2, <3>1, <3>4 DEF Cdc!Run
      <4> QED BY <1>0, <4>1
    <3> QED BY <3>3, <3>4
  <2> QED BY <2>1, <2>2 DEF Cdc!MessageSent
<1>4. OneMessage' BY <1>1, <1>3 DEF OneMessage, CdcTypes, CdcEndpoint, Cdc!HasJob
<1>5. CdcTypes' BY <1>2, <1>3 DEF CdcTypes, CdcEndpoint
<1>6. NotTold' BY <1>1, <1>2 DEF NotTold
<1>7. Cdc!ErrorsToldOnce' BY <1>3 DEF Cdc!ErrorsToldOnce
<1> QED BY <1>4, <1>5, <1>6, <1>7 DEF CdcInv

(* The same when the next message, if any, goes to another endpoint.       *)
LEMMA CdcAstrayInv ==
  ASSUME CdcTypes, OneMessage, cdcEp.job.state # "none", NEW e \in CdcEndpoint, NEW told,
         e.job = Cdc!NoJob, Cdc!MessageAstray(e, told), UNCHANGED <<call, cdcHost, fresh>>
  PROVE  CdcInv'
<1>1. call.at \notin {"fill", "run"} BY DEF OneMessage
<1>2. /\ state' \subseteq Cdc!Signals /\ state' \intersect Cdc!Errors = {}
      /\ msg' \subseteq Cdc!Signals /\ cdcLost' = TRUE
  BY ReportedHasNoError DEF Cdc!MessageAstray, CdcTypes
<1>3. /\ cdcEp' \in CdcEndpoint /\ cdcOngoing' \in BOOLEAN
      /\ cdcEp'.job.state \in {"none", "astray"}
      /\ cdcEp'.job.state # "none" => cdcOngoing'
  <2>1. CASE cdcOngoing' = FALSE /\ cdcEp' = e
    <3>1. e.job.state = "none" BY DEF Cdc!NoJob
    <3> QED BY <2>1, <3>1
  <2>2. CASE /\ cdcOngoing' = TRUE
             /\ cdcEp' = [e EXCEPT !.job = [state |-> "astray", data |-> {}]]
    BY <2>2 DEF CdcEndpoint
  <2> QED BY <2>1, <2>2 DEF Cdc!MessageAstray
<1>4. OneMessage' BY <1>1, <1>3 DEF OneMessage, CdcTypes, CdcEndpoint, Cdc!HasJob
<1>5. CdcTypes' BY <1>2, <1>3 DEF CdcTypes, CdcEndpoint
<1>6. NotTold' /\ Cdc!ErrorsToldOnce' BY <1>1, <1>2, <1>3 DEF NotTold, Cdc!ErrorsToldOnce
<1> QED BY <1>4, <1>5, <1>6 DEF CdcInv

(* Aborting what the endpoint has, when its other fields become those of e.*)
LEMMA CdcAbortInv ==
  ASSUME CdcInv, NEW e, e \in CdcEndpoint,
         e.job = cdcEp.job, Cdc!Abort(e), UNCHANGED <<call, cdcHost, fresh>>
  PROVE  CdcInv'
<1>1. CASE ~Cdc!HasJob(e)
  <2>1. cdcEp' = e /\ UNCHANGED <<state, msg, cdcOngoing, cdcLost>> BY <1>1 DEF Cdc!Abort
  <2> QED BY <1>1, <2>1
      DEF CdcInv, CdcTypes, CdcEndpoint, OneMessage, NotTold, Cdc!ErrorsToldOnce, Cdc!HasJob
<1>2. CASE Cdc!HasJob(e)
  <2>1. Cdc!MessageSent([e EXCEPT !.job = Cdc!NoJob], e.job.state = "sent") BY <1>2
      DEF Cdc!Abort
  <2>2. e.job.state # "none" BY <1>2 DEF Cdc!HasJob
  <2> QED BY <2>1, <2>2, CdcNoJobTyped, CdcSentInv DEF CdcInv, CdcEndpoint
<1> QED BY <1>1, <1>2

-----------------------------------------------------------------------------
LEMMA CdcInitInv == Cdc!Init => CdcInv
<1> SUFFICES ASSUME Cdc!Init PROVE CdcInv
  OBVIOUS
<1>1. /\ cdcEp \in CdcEndpoint
      /\ cdcEp.job.state = "none"
  <2>1. cdcEp = [enabled |-> FALSE, halted |-> FALSE, stallRequested |-> FALSE, job |-> Cdc!NoJob]
    BY DEF Cdc!Init
  <2>2. Cdc!NoJob.state = "none" BY DEF Cdc!NoJob
  <2> QED BY <2>1, <2>2, CdcNoJobTyped DEF CdcEndpoint
<1>2. CdcTypes BY <1>1 DEF Cdc!Init, CdcTypes, CdcEndpoint
<1>3. OneMessage /\ NotTold /\ Cdc!ErrorsToldOnce
  BY <1>1 DEF Cdc!Init, OneMessage, NotTold, Cdc!ErrorsToldOnce, Cdc!HasJob
<1> QED BY <1>2, <1>3 DEF CdcInv

(* The application and the four steps of its call.                         *)
LEMMA CallInv ==
  ASSUME CdcInv,
         \/ \E l \in Cdc!Lines : Cdc!SignalLine(l)
         \/ \E x \in Cdc!Errors : Cdc!SignalError(x)
         \/ Cdc!Notify
  PROVE  CdcInv'
<1> USE DEF CdcInv, CdcTypes, CdcEndpoint, OneMessage, NotTold, Cdc!ErrorsToldOnce, Cdc!HasJob
<1>1. ASSUME NEW l \in Cdc!Lines, Cdc!SignalLine(l) PROVE CdcInv'
  <2>1. l \in Cdc!Signals \ Cdc!Errors BY DEF Cdc!Lines, Cdc!Errors, Cdc!Signals
  <2> QED BY <1>1, <2>1 DEF Cdc!SignalLine, Cdc!Changed, Cdc!Goto, Cdc!usb
<1>2. ASSUME NEW x \in Cdc!Errors, Cdc!SignalError(x) PROVE CdcInv'
  <2>1. x \in Cdc!Signals BY DEF Cdc!Signals
  <2> QED BY <1>2, <2>1 DEF Cdc!SignalError, Cdc!Changed, Cdc!Goto, Cdc!usb
<1>3. CASE Cdc!Test BY <1>3 DEF Cdc!Test, Cdc!Goto, Cdc!usb
<1>4. CASE Cdc!Fill BY <1>4 DEF Cdc!Fill, Cdc!Goto, Cdc!usb
<1>5. CASE Cdc!RunMessage
  <2>1. call.at = "run" /\ cdcEp.job.state = "none" BY <1>5 DEF Cdc!RunMessage
  <2>2. CASE Cdc!Accepts(cdcEp)
    <3>1. /\ cdcEp' = [cdcEp EXCEPT !.job = [state |-> "sent", data |-> msg]]
          /\ cdcLost' = FALSE /\ call' = [at |-> "store", ok |-> TRUE] /\ cdcEp.enabled
      BY <1>5, <2>2 DEF Cdc!RunMessage, Cdc!Run, Cdc!Accepts
    <3>2. /\ cdcEp'.job.state = "sent" /\ cdcEp'.job.data = msg /\ cdcEp'.enabled
          /\ cdcEp' \in CdcEndpoint
      BY <3>1
    <3>3. call'.at = "store" /\ call'.ok = TRUE BY <3>1
    <3>4. UNCHANGED <<state, msg, cdcOngoing, cdcHost, fresh>> BY <1>5 DEF Cdc!RunMessage
    <3> QED BY <2>1, <3>1, <3>2, <3>3, <3>4
  <2>3. CASE ~Cdc!Accepts(cdcEp)
    <3>1. cdcEp' = cdcEp /\ cdcLost' = TRUE /\ call' = [at |-> "store", ok |-> FALSE]
      BY <1>5, <2>3 DEF Cdc!RunMessage, Cdc!Run, Cdc!Accepts
    <3>2. call'.at = "store" /\ call'.ok = FALSE BY <3>1
    <3>3. UNCHANGED <<state, msg, cdcOngoing, cdcHost, fresh>> BY <1>5 DEF Cdc!RunMessage
    <3> QED BY <2>1, <3>1, <3>2, <3>3
  <2> QED BY <2>2, <2>3
<1>6. CASE Cdc!Store BY <1>6 DEF Cdc!Store, Cdc!Goto
<1> QED BY <1>1, <1>2, <1>3, <1>4, <1>5, <1>6 DEF Cdc!Notify

(* The interrupt routine.                                                  *)
LEMMA CdcIsrInv ==
  ASSUME CdcInv, Cdc!IsrSent \/ Cdc!IsrAstray \/ Cdc!Requests
  PROVE  CdcInv'
<1>1. CASE Cdc!IsrSent
  <2>1. CASE cdcEp.stallRequested
    <3>1. /\ cdcEp' = [cdcEp EXCEPT !.stallRequested = FALSE, !.halted = TRUE, !.job.state = "held"]
          /\ UNCHANGED <<state, msg, cdcOngoing, cdcLost, call, cdcHost, fresh>>
          /\ cdcEp.job.state = "taken"
      BY <1>1, <2>1 DEF Cdc!IsrSent, Cdc!Interrupt
    <3>2. /\ cdcEp' \in CdcEndpoint
          /\ cdcEp'.job.state = "held" /\ cdcEp'.enabled = cdcEp.enabled
      BY <3>1 DEF CdcInv, CdcTypes, CdcEndpoint
    <3> QED BY <3>1, <3>2
        DEF CdcInv, CdcTypes, CdcEndpoint, OneMessage, NotTold, Cdc!ErrorsToldOnce, Cdc!HasJob
  <2>2. CASE ~cdcEp.stallRequested
    <3>1. Cdc!MessageSent([cdcEp EXCEPT !.job = Cdc!NoJob], FALSE) /\ cdcEp.job.state # "none"
      BY <1>1, <2>2 DEF Cdc!IsrSent
    <3> QED BY <1>1, <3>1, CdcNoJobTyped, CdcSentInv
        DEF Cdc!IsrSent, Cdc!Interrupt, CdcInv, CdcTypes, CdcEndpoint
  <2> QED BY <2>1, <2>2
<1>2. CASE Cdc!Enable
  BY <1>2 DEF Cdc!Enable, CdcInv, CdcTypes, CdcEndpoint, OneMessage, NotTold, Cdc!ErrorsToldOnce, Cdc!HasJob
<1>3. CASE Cdc!Disable
  <2>1. PICK halted \in {cdcEp.halted, FALSE} :
          Cdc!Abort([cdcEp EXCEPT !.enabled = FALSE, !.halted = halted])
    BY <1>3 DEF Cdc!Disable
  <2> QED BY <1>3, <2>1, CdcAbortInv
      DEF Cdc!Disable, Cdc!Interrupt, CdcInv, CdcTypes, CdcEndpoint
<1>4. CASE Cdc!Halt
  <2>1. CASE Cdc!Abort([cdcEp EXCEPT !.halted = TRUE])
    BY <1>4, <2>1, CdcAbortInv DEF Cdc!Halt, Cdc!Interrupt, CdcInv, CdcTypes, CdcEndpoint
  <2>2. CASE /\ Cdc!SendsNext
             /\ state' = Cdc!Reported(state) /\ msg' = Cdc!Reported(state) /\ cdcOngoing' = TRUE
             /\ cdcEp' = [cdcEp EXCEPT !.stallRequested = TRUE,
                                 !.job = [state |-> "sent", data |-> Cdc!Reported(state)]]
             /\ cdcLost' = FALSE
    <3>1. /\ Cdc!Reported(state) \subseteq Cdc!Signals
          /\ Cdc!Reported(state) \intersect Cdc!Errors = {}
      BY ReportedHasNoError DEF CdcInv, CdcTypes, CdcEndpoint
    <3>2. cdcEp.job.state # "none" BY <2>2 DEF Cdc!SendsNext, Cdc!HasJob
    <3>3. UNCHANGED <<call, cdcHost, fresh>> BY <1>4 DEF Cdc!Halt, Cdc!Interrupt
    <3> DEFINE sending == Cdc!Reported(state)
               job == [state |-> "sent", data |-> sending]
    <3>4. /\ state' = sending /\ msg' = sending /\ cdcOngoing' = TRUE /\ cdcLost' = FALSE
          /\ cdcEp' = [cdcEp EXCEPT !.stallRequested = TRUE, !.job = job]
      BY <2>2
    <3>5. job.state = "sent" /\ job.data = sending OBVIOUS
    <3> HIDE DEF sending
    <3>6. cdcEp.enabled /\ call.at \notin {"fill", "run"} /\ (call.at = "store" => call.ok)
      BY <3>2, <2>2 DEF CdcInv, OneMessage, Cdc!SendsNext, Cdc!HasJob
    <3>7. /\ cdcEp' \in CdcEndpoint /\ cdcEp'.enabled /\ cdcEp'.job = job
      BY <3>1, <3>4, <3>6 DEF CdcInv, CdcTypes, CdcEndpoint, sending
    <3>8. CdcTypes' BY <3>1, <3>3, <3>4, <3>7 DEF CdcInv, CdcTypes, sending
    <3>9. OneMessage' BY <3>3, <3>4, <3>6, <3>7 DEF OneMessage
    <3>a. NotTold' BY <3>1, <3>3, <3>4, <3>6 DEF NotTold, sending
    <3>b. Cdc!ErrorsToldOnce' BY <3>1, <3>5, <3>7 DEF Cdc!ErrorsToldOnce, sending
    <3> QED BY <3>8, <3>9, <3>a, <3>b DEF CdcInv
  <2> QED BY <1>4, <2>1, <2>2 DEF Cdc!Halt
<1>5. CASE Cdc!ClearHalt
  <2>1. CASE /\ cdcEp' = [cdcEp EXCEPT !.stallRequested = FALSE]
             /\ UNCHANGED <<state, msg, cdcOngoing, cdcLost>>
    BY <1>5, <2>1
      DEF Cdc!ClearHalt, Cdc!Interrupt, CdcInv, CdcTypes, CdcEndpoint, OneMessage, NotTold,
          Cdc!ErrorsToldOnce, Cdc!HasJob
  <2>2. CASE Cdc!Abort([cdcEp EXCEPT !.halted = FALSE])
    BY <1>5, <2>2, CdcAbortInv DEF Cdc!ClearHalt, Cdc!Interrupt, CdcInv, CdcTypes, CdcEndpoint
  <2>3. ASSUME Cdc!HasJob(cdcEp),
               Cdc!MessageAstray([cdcEp EXCEPT !.halted = FALSE, !.job = Cdc!NoJob],
                                 Cdc!Reported(msg))
        PROVE  CdcInv'
    <3>1. /\ [cdcEp EXCEPT !.halted = FALSE, !.job = Cdc!NoJob] \in CdcEndpoint
          /\ [cdcEp EXCEPT !.halted = FALSE, !.job = Cdc!NoJob].job = Cdc!NoJob
      BY CdcNoJobTyped DEF CdcInv, CdcTypes, CdcEndpoint
    <3>2. cdcEp.job.state # "none" BY <2>3 DEF Cdc!HasJob
    <3> QED BY <1>5, <2>3, <3>1, <3>2, CdcAstrayInv DEF Cdc!ClearHalt, Cdc!Interrupt, CdcInv
  <2> QED BY <1>5, <2>1, <2>2, <2>3 DEF Cdc!ClearHalt
<1>6. CASE Cdc!IsrAstray
  <2>1. PICK told \in SUBSET Cdc!Lines :
          Cdc!MessageAstray([cdcEp EXCEPT !.job = Cdc!NoJob], told)
    BY <1>6 DEF Cdc!IsrAstray
  <2>2. /\ [cdcEp EXCEPT !.job = Cdc!NoJob] \in CdcEndpoint
        /\ [cdcEp EXCEPT !.job = Cdc!NoJob].job = Cdc!NoJob
    BY CdcNoJobTyped DEF CdcInv, CdcTypes, CdcEndpoint
  <2> QED BY <1>6, <2>1, <2>2, CdcAstrayInv DEF Cdc!IsrAstray, Cdc!Interrupt, CdcInv
<1> QED BY <1>1, <1>2, <1>3, <1>4, <1>5, <1>6 DEF Cdc!Requests

LEMMA CdcHostInv ==
  ASSUME CdcInv, Cdc!HostTakes
  PROVE  CdcInv'
BY
  DEF Cdc!HostTakes, CdcInv, CdcTypes, CdcEndpoint, OneMessage, NotTold, Cdc!ErrorsToldOnce, 
      Cdc!Lines, Cdc!HasJob

LEMMA CdcNextInv ==
  ASSUME CdcInv, [Cdc!Next]_(Cdc!vars)
  PROVE  CdcInv'
<1>1. CASE UNCHANGED Cdc!vars
  BY <1>1
    DEF Cdc!vars, Cdc!usb, CdcInv, CdcTypes, CdcEndpoint, OneMessage, NotTold,
        Cdc!ErrorsToldOnce, Cdc!HasJob
<1> QED BY <1>1, CallInv, CdcIsrInv, CdcHostInv DEF Cdc!Next

(* Without the race a message is marked as under way only while one is.    *)
Marked ==
  /\ call.at = "store" => (call.ok = TRUE => cdcEp.job.state # "none")
  /\ call.at # "store" => (cdcOngoing = TRUE => cdcEp.job.state # "none")

LEMMA SentMarked ==
  ASSUME call.at # "store", UNCHANGED call, NEW e \in CdcEndpoint, NEW gone,
         Cdc!MessageSent(e, gone)
  PROVE  Marked'
<1>1. CASE cdcOngoing' = FALSE BY <1>1 DEF Marked
<1>2. CASE cdcOngoing' = Cdc!Accepts(e) /\ Cdc!Run(e, Cdc!Reported(state))
  <2>1. CASE Cdc!Accepts(e)
    <3>1. cdcEp' = [e EXCEPT !.job = [state |-> "sent", data |-> Cdc!Reported(state)]]
      BY <1>2, <2>1 DEF Cdc!Run
    <3>3. cdcEp'.job.state = "sent" BY <3>1 DEF CdcEndpoint
    <3> QED BY <3>3 DEF Marked
  <2>2. CASE ~Cdc!Accepts(e) BY <1>2, <2>2 DEF Marked
  <2> QED BY <2>1, <2>2
<1> QED BY <1>1, <1>2 DEF Cdc!MessageSent

LEMMA AbortMarked ==
  ASSUME Marked, CdcInv, call.at # "store", UNCHANGED call,
         NEW e \in CdcEndpoint, e.job = cdcEp.job, Cdc!Abort(e)
  PROVE  Marked'
<1>1. CASE ~Cdc!HasJob(e) BY <1>1 DEF Cdc!Abort, Marked
<1>2. CASE Cdc!HasJob(e)
  <2>1. [e EXCEPT !.job = Cdc!NoJob] \in CdcEndpoint BY CdcNoJobTyped DEF CdcEndpoint
  <2> QED BY <1>2, <2>1, SentMarked DEF Cdc!Abort
<1> QED BY <1>1, <1>2

LEMMA AstrayMarked ==
  ASSUME call.at # "store", UNCHANGED call, NEW e \in CdcEndpoint, NEW told,
         Cdc!MessageAstray(e, told)
  PROVE  Marked'
<1>1. CASE cdcOngoing' = FALSE BY <1>1 DEF Marked
<1>2. CASE cdcEp' = [e EXCEPT !.job = [state |-> "astray", data |-> {}]]
  <2>1. cdcEp'.job.state = "astray" BY <1>2 DEF CdcEndpoint
  <2> QED BY <2>1 DEF Marked
<1> QED BY <1>1, <1>2 DEF Cdc!MessageAstray

LEMMA MarkedNext ==
  ASSUME Deviations = {}, CdcInv, Marked, [Cdc!Next]_(Cdc!vars)
  PROVE  Marked'
<1>0. /\ cdcEp \in CdcEndpoint
      /\ call \in [at : {"none", "test", "fill", "run", "store"}, ok : BOOLEAN]
  BY DEF CdcInv, CdcTypes
<1>1. CASE UNCHANGED <<call, cdcOngoing, cdcEp>> BY <1>1 DEF Marked
<1>2. ASSUME NEW s, Cdc!Changed(s) PROVE Marked'
  BY <1>0, <1>2 DEF Cdc!Changed, Cdc!Goto, Cdc!usb, Marked
<1>3. CASE Cdc!Test \/ Cdc!Fill
  BY <1>0, <1>3 DEF Cdc!Test, Cdc!Fill, Cdc!Goto, Cdc!usb, Marked
<1>4. CASE Cdc!RunMessage
  <2>1. CASE Cdc!Accepts(cdcEp)
    <3>1. cdcEp' = [cdcEp EXCEPT !.job = [state |-> "sent", data |-> msg]]
          /\ call' = [at |-> "store", ok |-> Cdc!Accepts(cdcEp)]
      BY <1>4, <2>1 DEF Cdc!RunMessage, Cdc!Run
    <3>2. cdcEp'.job.state = "sent" /\ call'.at = "store"
      BY <1>0, <3>1 DEF CdcEndpoint
    <3> QED BY <3>2 DEF Marked
  <2>2. CASE ~Cdc!Accepts(cdcEp)
    <3>1. call' = [at |-> "store", ok |-> FALSE]
      BY <1>4, <2>2 DEF Cdc!RunMessage, Cdc!Accepts
    <3> QED BY <3>1 DEF Marked
  <2> QED BY <2>1, <2>2
<1>5. CASE Cdc!Store BY <1>0, <1>5 DEF Cdc!Store, Cdc!Goto, Marked
<1>6. CASE Cdc!HostTakes
  <2>1. cdcEp'.job.state = "taken" BY <1>0, <1>6 DEF Cdc!HostTakes, CdcEndpoint
  <2> QED BY <2>1 DEF Marked
<1>7. ASSUME Cdc!Interrupt PROVE call.at # "store" /\ UNCHANGED call
  BY <1>7 DEF Cdc!Interrupt, Cdc!MayInterrupt
<1>8. CASE Cdc!IsrSent
  <2>1. CASE cdcEp.stallRequested
    <3>1. cdcEp' = [cdcEp EXCEPT !.stallRequested = FALSE, !.halted = TRUE, !.job.state = "held"]
      BY <1>8, <2>1 DEF Cdc!IsrSent
    <3>2. cdcEp'.job.state = "held" BY <1>0, <3>1 DEF CdcEndpoint
    <3> QED BY <3>2 DEF Marked
  <2>2. CASE ~cdcEp.stallRequested
    <3>1. [cdcEp EXCEPT !.job = Cdc!NoJob] \in CdcEndpoint
      BY <1>0, CdcNoJobTyped DEF CdcEndpoint
    <3> QED BY <1>7, <1>8, <2>2, <3>1, SentMarked DEF Cdc!IsrSent
  <2> QED BY <2>1, <2>2
<1>9. CASE Cdc!Enable
  <2>1. UNCHANGED <<call, cdcOngoing>> /\ cdcEp'.job = cdcEp.job
    BY <1>0, <1>9 DEF Cdc!Enable, CdcEndpoint
  <2> QED BY <2>1 DEF Marked
<1>10. CASE Cdc!Disable
  <2>1. PICK h \in {cdcEp.halted, FALSE} :
          Cdc!Abort([cdcEp EXCEPT !.enabled = FALSE, !.halted = h])
    BY <1>10 DEF Cdc!Disable
  <2> DEFINE e == [cdcEp EXCEPT !.enabled = FALSE, !.halted = h]
  <2>2. e \in CdcEndpoint /\ e.job = cdcEp.job BY <1>0 DEF CdcEndpoint
  <2> HIDE DEF e
  <2>3. Cdc!Abort(e) BY <2>1 DEF e
  <2> QED BY <1>7, <1>10, <2>2, <2>3, AbortMarked DEF Cdc!Disable
<1>11. CASE Cdc!Halt
  <2>1. CASE Cdc!Abort([cdcEp EXCEPT !.halted = TRUE])
    <3>1. /\ [cdcEp EXCEPT !.halted = TRUE] \in CdcEndpoint
          /\ [cdcEp EXCEPT !.halted = TRUE].job = cdcEp.job
      BY <1>0 DEF CdcEndpoint
    <3> QED BY <1>7, <1>11, <2>1, <3>1, AbortMarked DEF Cdc!Halt
  <2>2. CASE cdcEp' = [cdcEp EXCEPT !.stallRequested = TRUE,
                         !.job = [state |-> "sent", data |-> Cdc!Reported(state)]]
    <3>1. cdcEp'.job.state = "sent" BY <1>0, <2>2 DEF CdcEndpoint
    <3> QED BY <1>7, <1>11, <3>1 DEF Cdc!Halt, Marked
  <2> QED BY <1>11, <2>1, <2>2 DEF Cdc!Halt
<1>12. CASE Cdc!ClearHalt
  <2>1. CASE cdcEp' = [cdcEp EXCEPT !.stallRequested = FALSE] /\ UNCHANGED cdcOngoing
    <3>1. cdcEp'.job = cdcEp.job BY <1>0, <2>1 DEF CdcEndpoint
    <3> QED BY <1>7, <1>12, <2>1, <3>1 DEF Cdc!ClearHalt, Marked
  <2>2. CASE Cdc!Abort([cdcEp EXCEPT !.halted = FALSE])
    <3>1. /\ [cdcEp EXCEPT !.halted = FALSE] \in CdcEndpoint
          /\ [cdcEp EXCEPT !.halted = FALSE].job = cdcEp.job
      BY <1>0 DEF CdcEndpoint
    <3> QED BY <1>7, <1>12, <2>2, <3>1, AbortMarked DEF Cdc!ClearHalt
  <2>3. CASE Cdc!MessageAstray([cdcEp EXCEPT !.halted = FALSE, !.job = Cdc!NoJob],
                               Cdc!Reported(msg))
    <3>1. [cdcEp EXCEPT !.halted = FALSE, !.job = Cdc!NoJob] \in CdcEndpoint
      BY <1>0, CdcNoJobTyped DEF CdcEndpoint
    <3> QED BY <1>7, <1>12, <2>3, <3>1, AstrayMarked DEF Cdc!ClearHalt
  <2> QED BY <1>12, <2>1, <2>2, <2>3 DEF Cdc!ClearHalt
<1>13. (\E l \in Cdc!Lines : Cdc!SignalLine(l)) \/ (\E x \in Cdc!Errors : Cdc!SignalError(x))
       => Marked'
  BY <1>2 DEF Cdc!SignalLine, Cdc!SignalError
<1>14. CASE Cdc!IsrAstray
  <2>1. [cdcEp EXCEPT !.job = Cdc!NoJob] \in CdcEndpoint
    BY <1>0, CdcNoJobTyped DEF CdcEndpoint
  <2> QED BY <1>7, <1>14, <2>1, AstrayMarked DEF Cdc!IsrAstray
<1>15. Cdc!Next => Marked'
  BY <1>3, <1>4, <1>5, <1>6, <1>8, <1>9, <1>10, <1>11, <1>12, <1>13, <1>14
     DEF Cdc!Next, Cdc!Notify, Cdc!Requests
<1> QED BY <1>1, <1>15 DEF Cdc!vars, Cdc!usb

(***************************************************************************)
(* The two of them, in whichever of them a behaviour is: the other one     *)
(* keeps its state, and with it its invariant.                             *)
(***************************************************************************)
LEMMA InitBoth == MCInit => KbdInv /\ CdcInv /\ Marked
<1>1. Init => KbdInv BY KbdInitInv
<1>2. Cdc!Init => CdcInv BY CdcInitInv
<1>3. Cdc!Init => Marked BY DEF Cdc!Init, Marked
<1> QED BY <1>1, <1>2, <1>3 DEF MCInit

LEMMA NextBoth ==
  ASSUME [MCNext]_<<class, vars, cdcVars>>
  PROVE  [Next]_vars /\ [Cdc!Next]_(Cdc!vars)
<1>1. UNCHANGED cdcVars => UNCHANGED Cdc!vars BY DEF cdcVars, Cdc!vars, Cdc!usb
<1> QED BY <1>1 DEF MCNext

LEMMA KbdInvHolds == MCSpec => []KbdInv
<1>1. KbdInv /\ [MCNext]_<<class, vars, cdcVars>> => KbdInv' BY NextBoth, KbdNextInv
<1> QED BY <1>1, InitBoth, PTL DEF MCSpec

LEMMA CdcInvHolds == MCSpec => []CdcInv
<1>1. CdcInv /\ [MCNext]_<<class, vars, cdcVars>> => CdcInv' BY NextBoth, CdcNextInv
<1> QED BY <1>1, InitBoth, PTL DEF MCSpec

(* What the keyboard reports has no key twice and no gap, whatever is      *)
(* pressed, with any number of keys and slots, and a report that waits     *)
(* waits for one that is being sent: udi_hid_kbd_b_report_valid is set     *)
(* only while udi_hid_kbd_b_report_trans_ongoing is, and that is set       *)
(* exactly while the endpoint has a transfer.                              *)
THEOREM KeyboardTypes == MCSpec => []TypeOK
<1>1. KbdInv => TypeOK BY DEF KbdInv
<1> QED BY <1>1, KbdInvHolds, PTL

(* The host is told of an error only if it occurred since it was told      *)
(* last, whatever else changes while messages are sent, aborted, refused   *)
(* and sent again, and with the race of the flag or without.               *)
THEOREM TellsErrorsOnce == MCSpec => []Cdc!ErrorsToldOnce
<1>1. CdcInv => Cdc!ErrorsToldOnce BY DEF CdcInv
<1> QED BY <1>1, CdcInvHolds, PTL

(* Without the race, udi_cdc_serial_state_msg_ongoing also says exactly    *)
(* when a message is under way, outside of the call that is to store it.   *)
THEOREM MarkedErrorsToldOnce ==
  ASSUME Deviations = {}
  PROVE  MCSpec => []ErrorsToldOnce
<1>1. CdcInv /\ Marked /\ [MCNext]_<<class, vars, cdcVars>> => Marked'
  BY NextBoth, MarkedNext
<1>2. CdcInv /\ Marked => ErrorsToldOnce
  BY DEF CdcInv, CdcTypes, CdcEndpoint, OneMessage, Marked, ErrorsToldOnce, Cdc!TypeOK
<1> QED BY <1>1, <1>2, InitBoth, CdcInvHolds, PTL DEF MCSpec

-----------------------------------------------------------------------------
(***************************************************************************)
(* The two halves of the serial port.                                      *)
(***************************************************************************)

(* A concatenation is taken apart into its two parts. *)
LEMMA SplitAgain ==
  ASSUME NEW d \in Seq(Nat), NEW r \in Seq(Nat)
  PROVE  /\ SubSeq(d \o r, 1, Len(d)) = d
         /\ SubSeq(d \o r, Len(d) + 1, Len(d \o r)) = r
<1>1. Len(d) \in Nat /\ Len(r) \in Nat /\ Len(d \o r) = Len(d) + Len(r)
  BY LenProperties, ConcatProperties
<1>2. CASE Len(d) = 0
  <2>1. d = <<>> BY <1>1, <1>2, EmptySeq
  <2>2. d \o r = r BY <2>1, ConcatEmptySeq
  <2>3. SubSeq(r, 1, 0) = <<>> BY SubSeqEmpty
  <2>4. SubSeq(r, 1, Len(r)) = r BY SubSeqFull
  <2> QED BY <1>1, <1>2, <2>1, <2>2, <2>3, <2>4
<1>3. CASE Len(d) # 0
  <2>1. 1 \in 1 .. Len(d) /\ Len(d) \in 1 .. Len(d) BY <1>1, <1>3
  <2>2. SubSeq(d \o r, 1, Len(d)) = SubSeq(d, 1, Len(d)) BY <2>1, SubSeqOfConcat1, Zenon
  <2>3. SubSeq(d, 1, Len(d)) = d BY SubSeqFull
  <2>4. SubSeq(d \o r, Len(d) + 1, Len(d \o r)) = r
    <3>1. CASE Len(r) = 0
      <4>1. r = <<>> BY <1>1, <3>1, EmptySeq
      <4>2. Len(d \o r) = Len(d) /\ Len(d) + 1 \in Int /\ Len(d) \in Int /\ Len(d) < Len(d) + 1
        BY <1>1, <3>1
      <4>3. SubSeq(d \o r, Len(d) + 1, Len(d)) = <<>> BY <4>2, SubSeqEmpty, Zenon
      <4> QED BY <4>1, <4>2, <4>3
    <3>2. CASE Len(r) # 0
      <4> DEFINE m == Len(d) + 1
                 n == Len(d) + Len(r)
      <4>1. /\ m \in Len(d) + 1 .. Len(d) + Len(r) /\ n \in Len(d) + 1 .. Len(d) + Len(r)
            /\ m - Len(d) = 1 /\ n - Len(d) = Len(r)
        BY <1>1, <3>2
      <4> HIDE DEF m, n
      <4>2. SubSeq(d \o r, m, n) = SubSeq(r, m - Len(d), n - Len(d))
        BY <4>1, SubSeqOfConcat2, Zenon
      <4>3. SubSeq(r, 1, Len(r)) = r BY SubSeqFull
      <4> QED BY <1>1, <4>1, <4>2, <4>3 DEF m, n
    <3> QED BY <3>1, <3>2
  <2> QED BY <2>2, <2>3, <2>4
<1> QED BY <1>2, <1>3

LEMMA Regrouped ==
  ASSUME NEW s \in Seq(Nat), NEW t \in Seq(Nat), NEW u \in Seq(Nat)
  PROVE  (s \o t) \o u = s \o (t \o u)
BY ConcatAssociative

(* What is left when a middle part is lost. *)
LEMMA MiddleLost ==
  ASSUME NEW a \in Seq(Nat), NEW b \in Seq(Nat), NEW c \in Seq(Nat)
  PROVE  a \o c \in Tx!Stream!Remains((a \o b) \o c)
<1> DEFINE s == (a \o b) \o c
           n == Len(a) + Len(c)
           from == [i \in 1 .. n |-> IF i <= Len(a) THEN i ELSE i + Len(b)]
<1>1. /\ Len(a) \in Nat /\ Len(b) \in Nat /\ Len(c) \in Nat
      /\ s \in Seq(Nat) /\ Len(s) = Len(a) + Len(b) + Len(c)
      /\ a \o c \in Seq(Nat) /\ Len(a \o c) = n
  BY ConcatProperties, LenProperties
<1>2. n \in 0 .. Len(s) BY <1>1
<1>3. from \in Tx!Stream!Kept(n, Len(s))
  <2>1. \A i \in 1 .. n : from[i] \in 1 .. Len(s) BY <1>1
  <2>2. from \in [1 .. n -> 1 .. Len(s)] BY <2>1
  <2>3. \A i, j \in 1 .. n : i < j => from[i] < from[j] BY <1>1
  <2> HIDE DEF from, s, n
  <2> QED BY <2>2, <2>3 DEF Tx!Stream!Kept
<1>4. ASSUME NEW i \in 1 .. n PROVE (a \o c)[i] = s[from[i]]
  <2>1. (a \o c)[i] = IF i <= Len(a) THEN a[i] ELSE c[i - Len(a)]
    BY <1>1, ConcatProperties
  <2>2. a \o b \in Seq(Nat) /\ Len(a \o b) = Len(a) + Len(b) BY ConcatProperties
  <2>3. \A k \in 1 .. Len(s) :
          s[k] = IF k <= Len(a) + Len(b) THEN (a \o b)[k] ELSE c[k - (Len(a) + Len(b))]
    BY <1>1, <2>2, ConcatProperties
  <2>4. \A k \in 1 .. Len(a) : (a \o b)[k] = a[k]
    BY <1>1, <2>2, ConcatProperties
  <2>5. i \in Nat /\ i >= 1 /\ i <= n BY <1>1
  <2>6. CASE i <= Len(a)
    <3>1. from[i] = i /\ i \in 1 .. Len(s) /\ i <= Len(a) + Len(b) /\ i \in 1 .. Len(a)
      BY <2>5, <2>6, <1>1
    <3> HIDE DEF from, s, n
    <3> QED BY <2>1, <2>3, <2>4, <2>6, <3>1
  <2>7. CASE ~(i <= Len(a))
    <3>1. /\ from[i] = i + Len(b) /\ i + Len(b) \in 1 .. Len(s)
          /\ ~(i + Len(b) <= Len(a) + Len(b))
          /\ (i + Len(b)) - (Len(a) + Len(b)) = i - Len(a)
      BY <2>5, <2>7, <1>1
    <3> HIDE DEF from, s, n
    <3> QED BY <2>1, <2>3, <2>7, <3>1
  <2> QED BY <2>6, <2>7
<1>5. a \o c = [i \in 1 .. n |-> s[from[i]]]
  <2>1. a \o c = [i \in 1 .. n |-> (a \o c)[i]]
    <3> DEFINE t == a \o c
    <3>1. t \in [1 .. Len(t) -> Nat] BY <1>1, LenProperties
    <3> HIDE DEF n, t
    <3>2. t = [i \in 1 .. Len(t) |-> t[i]] BY <3>1
    <3>3. Len(t) = n BY <1>1 DEF t
    <3> QED BY <3>2, <3>3 DEF t
  <2> HIDE DEF from, s, n
  <2> QED BY <2>1, <1>4
<1> HIDE DEF from, s, n
<1>6. a \o c \in {[i \in 1 .. n |-> s[f[i]]] : f \in Tx!Stream!Kept(n, Len(s))}
  BY <1>3, <1>5
<1>7. a \o c \in Tx!Stream!Remains(s)
  <2> DEFINE W(k) == {[i \in 1 .. k |-> s[f[i]]] : f \in Tx!Stream!Kept(k, Len(s))}
  <2>1. a \o c \in W(n) BY <1>6
  <2> HIDE DEF W
  <2>2. a \o c \in UNION {W(k) : k \in 0 .. Len(s)} BY <1>2, <2>1, Zenon
  <2> QED BY <2>2, Zenon DEF W, Tx!Stream!Remains
<1> QED BY <1>7 DEF s

LEMMA AllLost ==
  ASSUME NEW s \in Seq(Nat)
  PROVE  <<>> \in Tx!Stream!Remains(s)
<1>1. <<>> \in Seq(Nat) BY EmptySeq
<1>2. <<>> \o <<>> = <<>> /\ <<>> \o s = s /\ s \o <<>> = s BY <1>1, ConcatEmptySeq
<1>3. <<>> \o <<>> \in Tx!Stream!Remains((<<>> \o s) \o <<>>) BY <1>1, MiddleLost
<1> QED BY <1>2, <1>3

LEMMA NoneLost ==
  ASSUME NEW s \in Seq(Nat)
  PROVE  s \in Tx!Stream!Remains(s)
<1>1. <<>> \in Seq(Nat) BY EmptySeq
<1>2. s \o <<>> = s BY <1>1, ConcatEmptySeq
<1>3. s \o <<>> \in Tx!Stream!Remains((s \o <<>>) \o <<>>) BY <1>1, MiddleLost
<1> QED BY <1>2, <1>3

LEMMA FrontLost ==
  ASSUME NEW s \in Seq(Nat), NEW t \in Seq(Nat)
  PROVE  t \in Tx!Stream!Remains(s \o t)
<1>1. <<>> \in Seq(Nat) BY EmptySeq
<1>2. <<>> \o s = s /\ <<>> \o t = t BY <1>1, ConcatEmptySeq
<1>3. <<>> \o t \in Tx!Stream!Remains((<<>> \o s) \o t) BY <1>1, MiddleLost
<1> QED BY <1>2, <1>3

(* Both halves lose bytes in the same ways. *)
LEMMA SameRemains ==
  ASSUME NEW s
  PROVE  Rx!Stream!Remains(s) = Tx!Stream!Remains(s)
BY DEF Rx!Stream!Remains, Tx!Stream!Remains, Rx!Stream!Kept, Tx!Stream!Kept

-----------------------------------------------------------------------------
(* The sending half. *)
(* The flags and buffers x and the endpoint e are well-formed. *)
TxRecord == [mem : [{0, 1} -> Seq(Nat)], sel : {0, 1}, both : BOOLEAN,
             ongoing : BOOLEAN, sofNum : Nat, zlp : Nat]
TxEndpoint == [enabled : BOOLEAN, halted : BOOLEAN,
               job : [state : {"none", "sent", "taken"}, data : Seq(Nat)]]

TxUp(x, e) == e.enabled /\ ~e.halted /\ (x.ongoing => e.job.state # "none")

TxOut(x, e) ==
  IF e.job.state = "sent" THEN e.job.data
  ELSE IF ~x.ongoing /\ x.both THEN x.mem[1 - x.sel] ELSE <<>>

TxWay(x, e) == TxOut(x, e) \o x.mem[x.sel]

TxGood(x, e) ==
  /\ x \in TxRecord /\ e \in TxEndpoint
  /\ e.job.state # "none" => x.ongoing /\ e.enabled /\ ~e.halted
  /\ ~x.ongoing /\ ~x.both => x.mem[1 - x.sel] = <<>>
  /\ Len(x.mem[0]) <= TxBufSize /\ Len(x.mem[1]) <= TxBufSize

LEMMA TxMapping ==
  /\ Tx!Link = TxUp(tx, txEp)
  /\ Tx!Outgoing = TxOut(tx, txEp)
  /\ Tx!Outgoing \o tx.mem[tx.sel] = TxWay(tx, txEp)
<1>1. Tx!Link = TxUp(tx, txEp) BY DEF Tx!Link, TxUp
<1>2. Tx!Outgoing = TxOut(tx, txEp)
  BY DEF Tx!Outgoing, TxOut, Tx!Other
<1> QED BY <1>1, <1>2 DEF TxWay

LEMMA TxMem ==
  ASSUME NEW x, NEW e, TxGood(x, e)
  PROVE  /\ x.sel \in {0, 1} /\ 1 - x.sel \in {0, 1} /\ 1 - (1 - x.sel) = x.sel
         /\ x.mem[x.sel] \in Seq(Nat) /\ x.mem[1 - x.sel] \in Seq(Nat)
         /\ TxOut(x, e) \in Seq(Nat) /\ TxWay(x, e) \in Seq(Nat)
<1>1. x \in TxRecord /\ e \in TxEndpoint BY DEF TxGood
<1>2. /\ x.sel \in {0, 1} /\ 1 - x.sel \in {0, 1} /\ 1 - (1 - x.sel) = x.sel
      /\ x.mem[x.sel] \in Seq(Nat) /\ x.mem[1 - x.sel] \in Seq(Nat)
  BY <1>1 DEF TxRecord
<1>3. e.job.data \in Seq(Nat) BY <1>1 DEF TxEndpoint
<1>4. TxOut(x, e) \in Seq(Nat) BY <1>2, <1>3 DEF TxOut
<1> QED BY <1>2, <1>4, ConcatProperties DEF TxWay

(* What a call of udi_cdc_tx_send does to a port in order. *)
LEMMA TxSendKeeps ==
  ASSUME TxBufSize \in Nat, frame \in Nat, NEW x, NEW e, TxGood(x, e)
  PROVE  LET x2 == Tx!TxSend(x, e)[1]
             e2 == Tx!TxSend(x, e)[2]
         IN /\ TxGood(x2, e2)
            /\ e2.enabled = e.enabled /\ e2.halted = e.halted
            /\ \/ TxUp(x2, e2) = TxUp(x, e) /\ TxWay(x2, e2) = TxWay(x, e)
               \/ /\ ~TxUp(x2, e2) /\ (~e.enabled \/ e.halted)
                  /\ TxWay(x2, e2) \in {<<>>, x.mem[x.sel]}
<1> DEFINE p == Tx!TxSend(x, e)
           b == Tx!Leaving(x)
<1>t. x \in TxRecord /\ e \in TxEndpoint BY DEF TxGood
<1>m. /\ x.sel \in {0, 1} /\ 1 - x.sel \in {0, 1} /\ 1 - (1 - x.sel) = x.sel
      /\ x.mem[x.sel] \in Seq(Nat) /\ x.mem[1 - x.sel] \in Seq(Nat)
  BY TxMem
<1>1. CASE Tx!MustWait(x)
  <2>1. p = <<x, e>> BY <1>1 DEF Tx!TxSend
  <2> QED BY <2>1
<1>2. CASE ~Tx!MustWait(x) /\ Tx!NothingYet(x)
  <2> DEFINE y == [x EXCEPT !.zlp = @ + 1]
  <2>1. p = <<y, e>> BY <1>2 DEF Tx!TxSend
  <2>2. /\ y \in TxRecord /\ y.mem = x.mem /\ y.sel = x.sel /\ y.both = x.both
        /\ y.ongoing = x.ongoing
    <3>1. x.zlp + 1 \in Nat /\ y = [x EXCEPT !.zlp = x.zlp + 1] BY <1>t DEF TxRecord
    <3> DEFINE z == x.zlp + 1
    <3> HIDE DEF z, y
    <3>2. z \in Nat /\ y = [x EXCEPT !.zlp = z] BY <3>1 DEF z
    <3> QED BY <1>t, <3>2 DEF TxRecord
  <2>3. p[1] = y /\ p[2] = e BY <2>1
  <2> HIDE DEF y
  <2>4. TxGood(y, e) BY <2>2 DEF TxGood
  <2>5. TxUp(y, e) = TxUp(x, e) BY <2>2 DEF TxUp
  <2>6. TxWay(y, e) = TxWay(x, e) BY <2>2 DEF TxWay, TxOut
  <2> QED BY <2>3, <2>4, <2>5, <2>6
<1>3. CASE ~Tx!MustWait(x) /\ ~Tx!NothingYet(x)
  <2> DEFINE full == Len(x.mem[b]) = TxBufSize
             y == [x EXCEPT !.zlp = 0, !.sel = Tx!Other(b), !.ongoing = TRUE,
                            !.sofNum = IF full THEN 0 ELSE frame]
             f == [e EXCEPT !.job = Tx!Run(e, x.mem[b])]
  <2>1. p = <<y, f>> BY <1>3 DEF Tx!TxSend
  <2>2. b \in {0, 1} /\ Tx!Other(b) = 1 - b /\ 1 - b \in {0, 1} /\ 1 - (1 - b) = b
        /\ b = (IF x.both THEN 1 - x.sel ELSE x.sel)
    BY <1>m DEF Tx!Leaving, Tx!Other
  <2>3. /\ y \in TxRecord /\ y.mem = x.mem /\ y.sel = 1 - b /\ y.both = x.both
        /\ y.ongoing = TRUE
    <3>1. 0 \in Nat /\ (IF full THEN 0 ELSE frame) \in Nat OBVIOUS
    <3> HIDE DEF full, b
    <3> QED BY <1>t, <2>2, <3>1 DEF TxRecord
  <2>4. x.ongoing = FALSE
    BY <1>3, <1>t DEF Tx!MustWait, TxRecord
  <2>5. e.job.state = "none"
    BY <2>4, <1>t DEF TxGood, TxEndpoint
  <2>6. p[1] = y /\ p[2] = f BY <2>1
  <2>7. x.mem[b] \in Seq(Nat) /\ x.mem[1 - b] \in Seq(Nat) BY <1>m, <2>2
  <2>8. /\ f \in TxEndpoint /\ f.enabled = e.enabled /\ f.halted = e.halted
        /\ f.job = Tx!Run(e, x.mem[b])
    <3>1. Tx!Run(e, x.mem[b]) \in [state : {"none", "sent", "taken"}, data : Seq(Nat)]
      <4>1. Tx!NoTransfer \in [state : {"none", "sent", "taken"}, data : Seq(Nat)]
        BY DEF Tx!NoTransfer
      <4>2. [state |-> "sent", data |-> x.mem[b]]
              \in [state : {"none", "sent", "taken"}, data : Seq(Nat)]
        BY <2>7
      <4> QED BY <4>1, <4>2 DEF Tx!Run
    <3> HIDE DEF b
    <3> QED BY <1>t, <3>1 DEF TxEndpoint
  <2>9. Len(x.mem[0]) <= TxBufSize /\ Len(x.mem[1]) <= TxBufSize BY DEF TxGood
  <2>a. ~x.both => x.mem[1 - b] = <<>> BY <2>2, <2>4 DEF TxGood
  <2>b. TxWay(x, e) = IF x.both THEN x.mem[b] \o x.mem[1 - b] ELSE <<>> \o x.mem[b]
    <3>1. TxOut(x, e) = IF x.both THEN x.mem[1 - x.sel] ELSE <<>>
      BY <2>4, <2>5 DEF TxOut
    <3>2. x.both => x.mem[1 - x.sel] = x.mem[b] /\ x.mem[x.sel] = x.mem[1 - b]
      BY <2>2, <1>m
    <3>3. ~x.both => x.mem[x.sel] = x.mem[b] BY <2>2
    <3> HIDE DEF b
    <3> QED BY <3>1, <3>2, <3>3 DEF TxWay
  <2>c. x.both => x.mem[1 - b] = x.mem[x.sel] BY <2>2, <1>m
  <2> HIDE DEF y, f, b
  <2>d. CASE e.enabled /\ ~e.halted
    <3>1. f.job.state = "sent" /\ f.job.data = x.mem[b]
      BY <2>d, <2>8 DEF Tx!Run
    <3>2. TxGood(y, f) BY <3>1, <2>d, <2>3, <2>8, <2>9 DEF TxGood
    <3>3. TxUp(y, f) /\ TxUp(x, e)
      BY <3>1, <2>d, <2>3, <2>4, <2>8 DEF TxUp
    <3>4. TxWay(y, f) = x.mem[b] \o x.mem[1 - b] BY <3>1, <2>3 DEF TxWay, TxOut
    <3>5. TxWay(y, f) = TxWay(x, e)
      <4>1. ~x.both => x.mem[b] \o x.mem[1 - b] = x.mem[b] /\ <<>> \o x.mem[b] = x.mem[b]
        BY <2>a, <2>7, ConcatEmptySeq
      <4> QED BY <4>1, <3>4, <2>b
    <3> QED BY <2>6, <2>8, <3>2, <3>3, <3>5
  <2>e. CASE ~(e.enabled /\ ~e.halted)
    <3>1. f.job.state = "none" BY <2>e, <2>8 DEF Tx!Run, Tx!NoTransfer
    <3>2. TxGood(y, f) BY <3>1, <2>3, <2>8, <2>9 DEF TxGood
    <3>3. ~TxUp(y, f) BY <3>1, <2>3 DEF TxUp
    <3>4. TxWay(y, f) = <<>> \o x.mem[1 - b] BY <3>1, <2>3 DEF TxWay, TxOut
    <3>5. TxWay(y, f) = x.mem[1 - b] BY <3>4, <2>7, ConcatEmptySeq
    <3>6. TxWay(y, f) \in {<<>>, x.mem[x.sel]} BY <3>5, <2>a, <2>c
    <3> QED BY <2>e, <2>6, <2>8, <3>2, <3>3, <3>6
  <2> QED BY <2>d, <2>e
<1> QED BY <1>1, <1>2, <1>3

LEMMA TxMappingNext ==
  /\ Tx!Link' = TxUp(tx', txEp')
  /\ (Tx!Outgoing \o tx.mem[tx.sel])' = TxWay(tx', txEp')
<1>1. Tx!Link' = TxUp(tx', txEp') BY DEF Tx!Link, TxUp
<1>2. Tx!Outgoing' = TxOut(tx', txEp')
  BY DEF Tx!Outgoing, TxOut, Tx!Other
<1> QED BY <1>1, <1>2 DEF TxWay

(* A step that stores nothing and brings the host nothing loses nothing    *)
(* either, while the link is up.                                           *)
TxSteps ==
  /\ UNCHANGED <<stored, arrived>>
  /\ \/ TxWay(tx', txEp') = TxWay(tx, txEp)
     \/ /\ ~(TxUp(tx, txEp) /\ TxUp(tx', txEp'))
        /\ TxWay(tx', txEp') \in Tx!Stream!Remains(TxWay(tx, txEp))

(* What StaysUp says of a step. *)
TxStays ==
  TxUp(tx, txEp) \/ ~txEp.enabled
    => TxUp(tx', txEp') \/ ~txEp'.enabled \/ txEp'.halted

TxInv ==
  /\ TxGood(tx, txEp)
  /\ frame \in Nat /\ stored \in Nat /\ arrived \in Seq(Nat)
  /\ txOp \in [kind : {"putc", "write"}, left : Nat]
  /\ txPc # "idle" => txOp.left # 0

LEMMA TxStepsImplement ==
  ASSUME TxInv, TxSteps
  PROVE  Tx!Stream!Next
<1> USE TxMapping, TxMappingNext
<1> DEFINE up == TxUp(tx, txEp)
           up2 == TxUp(tx', txEp')
           w == TxWay(tx, txEp)
           w2 == TxWay(tx', txEp')
<1>1. UNCHANGED <<stored, arrived>> BY DEF TxSteps
<1>2. w \in Tx!Stream!Remains(w) BY TxMem, NoneLost DEF TxInv
<1>3. CASE up /\ up2
  <2>1. w2 = w BY <1>3 DEF TxSteps
  <2>2. Tx!Stream!Ask BY <1>1, <1>3, <2>1 DEF Tx!Stream!Ask
  <2> QED BY <2>2 DEF Tx!Stream!Next
<1>4. CASE ~(up /\ up2)
  <2>1. w2 \in Tx!Stream!Remains(w) BY <1>2 DEF TxSteps
  <2>2. CASE ~up2
    <3>1. Tx!Stream!GoDown BY <1>1, <2>1, <2>2 DEF Tx!Stream!GoDown
    <3> QED BY <3>1 DEF Tx!Stream!Next
  <2>3. CASE ~up /\ up2
    <3>1. Tx!Stream!ComeUp BY <1>1, <2>1, <2>3 DEF Tx!Stream!ComeUp
    <3> QED BY <3>1 DEF Tx!Stream!Next
  <2> QED BY <1>4, <2>2, <2>3
<1> QED BY <1>3, <1>4

TxSizes ==
  /\ TxBufSize \in Nat \ {0} /\ WriteSizes \subseteq Nat \ {0}
  /\ Frames \in Nat \ {0} /\ ~Spills

LEMMA TxInitGood ==
  ASSUME TxSizes, Tx!Init
  PROVE  TxInv /\ Tx!Stream!Init
<1> USE DEF Tx!Init, Tx!EmptyBuffers, Tx!NoTransfer
<1>1. tx.mem[0] = <<>> /\ tx.mem[1] = <<>> /\ tx.sel = 0 OBVIOUS
<1>2. tx \in TxRecord /\ txEp \in TxEndpoint
  BY EmptySeq DEF TxRecord, TxEndpoint
<1>3. <<>> \in Seq(Nat) /\ Len(<<>>) = 0 OBVIOUS
<1>4. TxGood(tx, txEp)
  BY <1>1, <1>2, <1>3 DEF TxGood, TxSizes
<1>5. TxWay(tx, txEp) = <<>> \o <<>> BY <1>1 DEF TxWay, TxOut
<1>6. ~TxUp(tx, txEp) BY DEF TxUp
<1>7. Tx!Stream!Init
  BY <1>3, <1>5, <1>6, TxMapping, ConcatEmptySeq DEF Tx!Stream!Init
<1> QED BY <1>3, <1>4, <1>7 DEF TxInv

LEMMA TxSentKept ==
  ASSUME TxSizes, TxInv, Tx!IsrSent
  PROVE  TxInv' /\ TxSteps /\ TxStays
<1> DEFINE x == Tx!Sent(tx)
           e == [txEp EXCEPT !.job = Tx!NoTransfer]
<1>1. /\ tx' = Tx!TxSend(x, e)[1] /\ txEp' = Tx!TxSend(x, e)[2]
      /\ UNCHANGED <<frame, stored, arrived, txOp, txPc>> /\ txEp.job.state = "taken"
  BY DEF Tx!IsrSent, Tx!Becomes, Tx!thread
<1>2. tx \in TxRecord /\ txEp \in TxEndpoint BY DEF TxInv, TxGood
<1>3. txEp.enabled /\ ~txEp.halted /\ tx.ongoing BY <1>1 DEF TxInv, TxGood
<1>4. /\ x \in TxRecord /\ x.sel = tx.sel /\ x.both = FALSE /\ x.ongoing = FALSE
      /\ x.mem[1 - tx.sel] = <<>> /\ x.mem[tx.sel] = tx.mem[tx.sel]
      /\ \A b \in {0, 1} : x.mem[b] \in {tx.mem[b], <<>>}
  <2> DEFINE m == [tx.mem EXCEPT ![1 - tx.sel] = <<>>]
  <2>1. x = [tx EXCEPT !.mem = m, !.both = FALSE, !.ongoing = FALSE]
    BY <1>2 DEF TxRecord, Tx!Sent, Tx!Other
  <2>2. tx.sel \in {0, 1} /\ 1 - tx.sel \in {0, 1} /\ 1 - tx.sel # tx.sel
    BY <1>2 DEF TxRecord
  <2>3. tx.mem \in [{0, 1} -> Seq(Nat)] BY <1>2 DEF TxRecord
  <2>4. /\ m \in [{0, 1} -> Seq(Nat)] /\ m[1 - tx.sel] = <<>>
        /\ m[tx.sel] = tx.mem[tx.sel] /\ \A b \in {0, 1} : m[b] \in {tx.mem[b], <<>>}
    BY <2>2, <2>3, EmptySeq
  <2> HIDE DEF m, x
  <2> QED BY <1>2, <2>1, <2>4 DEF TxRecord
<1>5. /\ e \in TxEndpoint /\ e.enabled = txEp.enabled /\ e.halted = txEp.halted
      /\ e.job.state = "none"
  BY <1>2, EmptySeq DEF TxEndpoint, Tx!NoTransfer
<1> HIDE DEF x, e
<1>6. Len(x.mem[0]) <= TxBufSize /\ Len(x.mem[1]) <= TxBufSize
  <2>1. Len(<<>>) <= TxBufSize BY DEF TxSizes
  <2> QED BY <1>4, <2>1 DEF TxInv, TxGood
<1>7. TxGood(x, e) BY <1>4, <1>5, <1>6 DEF TxGood
<1>8. TxWay(x, e) = TxWay(tx, txEp) BY <1>1, <1>3, <1>4, <1>5 DEF TxWay, TxOut
<1>9. TxUp(x, e) /\ TxUp(tx, txEp) BY <1>1, <1>3, <1>4, <1>5 DEF TxUp
<1>a. TxBufSize \in Nat /\ frame \in Nat BY DEF TxInv, TxSizes
<1>b. /\ TxGood(tx', txEp')
      /\ \/ TxUp(tx', txEp') = TxUp(x, e) /\ TxWay(tx', txEp') = TxWay(x, e)
         \/ ~e.enabled \/ e.halted
  BY <1>1, <1>7, <1>a, TxSendKeeps
<1>c. TxInv' BY <1>1, <1>b DEF TxInv
<1>d. TxUp(tx', txEp') /\ TxWay(tx', txEp') = TxWay(tx, txEp)
  BY <1>3, <1>5, <1>8, <1>9, <1>b
<1> QED BY <1>1, <1>9, <1>c, <1>d DEF TxSteps, TxStays

LEMMA TxSofKept ==
  ASSUME TxSizes, TxInv, Tx!IsrSof
  PROVE  TxInv' /\ TxSteps /\ TxStays
<1>1. /\ UNCHANGED <<frame, stored, arrived, txOp, txPc>>
      /\ IF txEp.enabled
         THEN tx' = Tx!TxSend(tx, txEp)[1] /\ txEp' = Tx!TxSend(tx, txEp)[2]
         ELSE UNCHANGED <<tx, txEp>>
  BY DEF Tx!IsrSof, Tx!Becomes, Tx!thread
<1>2. CASE ~txEp.enabled
  <2>1. UNCHANGED <<tx, txEp, frame, stored, arrived, txOp, txPc>> BY <1>1, <1>2
  <2>2. TxInv' BY <2>1 DEF TxInv
  <2> QED BY <1>2, <2>1, <2>2 DEF TxSteps, TxStays
<1>3. CASE txEp.enabled
  <2>1. TxBufSize \in Nat /\ frame \in Nat /\ TxGood(tx, txEp) BY DEF TxInv, TxSizes
  <2>2. /\ TxGood(tx', txEp')
        /\ txEp'.enabled = txEp.enabled /\ txEp'.halted = txEp.halted
        /\ \/ TxUp(tx', txEp') = TxUp(tx, txEp) /\ TxWay(tx', txEp') = TxWay(tx, txEp)
           \/ /\ ~TxUp(tx', txEp') /\ (~txEp.enabled \/ txEp.halted)
              /\ TxWay(tx', txEp') \in {<<>>, tx.mem[tx.sel]}
    BY <1>1, <1>3, <2>1, TxSendKeeps
  <2>3. TxInv' BY <1>1, <2>2 DEF TxInv
  <2>4. /\ TxOut(tx, txEp) \in Seq(Nat) /\ tx.mem[tx.sel] \in Seq(Nat)
        /\ TxWay(tx, txEp) \in Seq(Nat)
    BY <2>1, TxMem
  <2>5. /\ <<>> \in Tx!Stream!Remains(TxWay(tx, txEp))
        /\ tx.mem[tx.sel] \in Tx!Stream!Remains(TxWay(tx, txEp))
    BY <2>4, AllLost, FrontLost DEF TxWay
  <2>6. TxSteps BY <1>1, <2>2, <2>5 DEF TxSteps
  <2>7. TxStays BY <2>2, <1>3 DEF TxStays
  <2> QED BY <2>3, <2>6, <2>7
<1> QED BY <1>2, <1>3

LEMMA TxEnableKept ==
  ASSUME TxSizes, TxInv, Tx!Enable
  PROVE  TxInv' /\ TxSteps /\ TxStays
<1> DEFINE x == Tx!Cleared(tx)
           e == [txEp EXCEPT !.enabled = TRUE]
<1>1. /\ tx' = Tx!TxSend(x, e)[1] /\ txEp' = Tx!TxSend(x, e)[2]
      /\ UNCHANGED <<frame, stored, arrived, txOp, txPc>> /\ ~txEp.enabled
  BY DEF Tx!Enable, Tx!Becomes, Tx!thread
<1>2. tx \in TxRecord /\ txEp \in TxEndpoint BY DEF TxInv, TxGood
<1>3. txEp.job.state = "none" BY <1>1, <1>2 DEF TxInv, TxGood, TxEndpoint
<1>4. /\ x \in TxRecord /\ x.sel = 0 /\ x.both = FALSE /\ x.ongoing = FALSE
      /\ x.mem[0] = <<>> /\ x.mem[1] = <<>>
  BY <1>2, EmptySeq DEF TxRecord, Tx!Cleared, Tx!EmptyBuffers
<1>5. /\ e \in TxEndpoint /\ e.enabled /\ e.halted = txEp.halted
      /\ e.job.state = "none"
  BY <1>2, <1>3 DEF TxEndpoint
<1> HIDE DEF x, e
<1>6. Len(x.mem[0]) <= TxBufSize /\ Len(x.mem[1]) <= TxBufSize
  <2>1. Len(<<>>) <= TxBufSize BY DEF TxSizes
  <2> QED BY <1>4, <2>1
<1>7. TxGood(x, e)
  <2>1. x.mem[1 - x.sel] = <<>> BY <1>4
  <2> QED BY <1>4, <1>5, <1>6, <2>1 DEF TxGood
<1>8. TxWay(x, e) = <<>>
  <2>1. TxWay(x, e) = <<>> \o <<>> BY <1>4, <1>5 DEF TxWay, TxOut
  <2> QED BY <2>1, EmptySeq, ConcatEmptySeq
<1>9. TxUp(x, e) = ~e.halted /\ ~TxUp(tx, txEp) BY <1>1, <1>4, <1>5 DEF TxUp
<1>a. TxBufSize \in Nat /\ frame \in Nat BY DEF TxInv, TxSizes
<1>b. /\ TxGood(tx', txEp')
      /\ txEp'.enabled = e.enabled /\ txEp'.halted = e.halted
      /\ \/ TxUp(tx', txEp') = TxUp(x, e) /\ TxWay(tx', txEp') = TxWay(x, e)
         \/ /\ ~TxUp(tx', txEp') /\ (~e.enabled \/ e.halted)
            /\ TxWay(tx', txEp') \in {<<>>, x.mem[x.sel]}
  BY <1>1, <1>7, <1>a, TxSendKeeps
<1>c. TxInv' BY <1>1, <1>b DEF TxInv
<1>d. TxWay(tx', txEp') = <<>> BY <1>4, <1>8, <1>b
<1>e. TxUp(tx', txEp') \/ txEp'.halted BY <1>5, <1>9, <1>b
<1>f. <<>> \in Tx!Stream!Remains(TxWay(tx, txEp)) BY AllLost, TxMem DEF TxInv
<1>g. ~TxUp(tx, txEp) BY <1>1 DEF TxUp
<1> QED BY <1>1, <1>c, <1>d, <1>e, <1>f, <1>g DEF TxSteps, TxStays

(* The transfer is aborted: what it was to send is lost, unless the host   *)
(* has got it already.                                                     *)
LEMMA TxAborted ==
  ASSUME TxGood(tx, txEp), tx' = tx, UNCHANGED <<stored, arrived>>,
         txEp' \in TxEndpoint, txEp'.job = Tx!NoTransfer,
         ~txEp'.enabled \/ txEp'.halted
  PROVE  TxGood(tx', txEp') /\ TxSteps /\ TxStays
<1>1. txEp'.job.state = "none" BY DEF Tx!NoTransfer
<1>2. TxGood(tx', txEp') BY <1>1 DEF TxGood
<1>3. ~TxUp(tx', txEp') BY DEF TxUp
<1>4. /\ TxOut(tx, txEp) \in Seq(Nat) /\ tx.mem[tx.sel] \in Seq(Nat)
      /\ TxWay(tx, txEp) \in Seq(Nat)
  BY TxMem
<1>5. TxWay(tx', txEp') \in Tx!Stream!Remains(TxWay(tx, txEp))
  <2>1. CASE txEp.job.state = "sent"
    <3>1. tx.ongoing BY <2>1 DEF TxGood
    <3>2. TxWay(tx', txEp') = <<>> \o tx.mem[tx.sel] BY <1>1, <3>1 DEF TxWay, TxOut
    <3>3. TxWay(tx', txEp') = tx.mem[tx.sel] BY <3>2, <1>4, ConcatEmptySeq
    <3> QED BY <3>3, <1>4, FrontLost DEF TxWay
  <2>2. CASE txEp.job.state # "sent"
    <3>1. TxWay(tx', txEp') = TxWay(tx, txEp) BY <1>1, <2>2 DEF TxWay, TxOut
    <3> QED BY <3>1, <1>4, NoneLost
  <2> QED BY <2>1, <2>2
<1>6. TxSteps BY <1>3, <1>5 DEF TxSteps
<1>7. TxStays BY DEF TxStays
<1> QED BY <1>2, <1>6, <1>7

LEMMA TxDisableKept ==
  ASSUME TxSizes, TxInv, Tx!Disable
  PROVE  TxInv' /\ TxSteps /\ TxStays
<1>1. UNCHANGED <<tx, frame, stored, arrived, txOp, txPc>> BY DEF Tx!Disable, Tx!thread
<1>2. txEp \in TxEndpoint BY DEF TxInv, TxGood
<1>3. /\ txEp' \in TxEndpoint /\ txEp'.job = Tx!NoTransfer /\ ~txEp'.enabled
  <2>1. PICK h \in {txEp.halted, FALSE} :
          txEp' = [enabled |-> FALSE, halted |-> h, job |-> Tx!NoTransfer]
    BY DEF Tx!Disable
  <2>2. h \in BOOLEAN BY <1>2 DEF TxEndpoint
  <2>3. Tx!NoTransfer \in [state : {"none", "sent", "taken"}, data : Seq(Nat)]
    BY EmptySeq DEF Tx!NoTransfer
  <2> QED BY <2>1, <2>2, <2>3 DEF TxEndpoint
<1>4. TxGood(tx', txEp') /\ TxSteps /\ TxStays BY <1>1, <1>3, TxAborted DEF TxInv
<1> QED BY <1>1, <1>4 DEF TxInv

LEMMA TxHaltKept ==
  ASSUME TxSizes, TxInv, Tx!Halt
  PROVE  TxInv' /\ TxSteps /\ TxStays
<1>1. UNCHANGED <<tx, frame, stored, arrived, txOp, txPc>> BY DEF Tx!Halt, Tx!thread
<1>2. txEp \in TxEndpoint BY DEF TxInv, TxGood
<1>3. /\ txEp' \in TxEndpoint /\ txEp'.job = Tx!NoTransfer /\ txEp'.halted
  BY <1>2, EmptySeq DEF Tx!Halt, TxEndpoint, Tx!NoTransfer
<1>4. TxGood(tx', txEp') /\ TxSteps /\ TxStays BY <1>1, <1>3, TxAborted DEF TxInv
<1> QED BY <1>1, <1>4 DEF TxInv

LEMMA TxClearHaltKept ==
  ASSUME TxSizes, TxInv, Tx!ClearHalt
  PROVE  TxInv' /\ TxSteps /\ TxStays
<1>1. /\ UNCHANGED <<tx, frame, stored, arrived, txOp, txPc>>
      /\ txEp.enabled /\ txEp.halted /\ txEp' = [txEp EXCEPT !.halted = FALSE]
  BY DEF Tx!ClearHalt, Tx!thread
<1>2. txEp \in TxEndpoint BY DEF TxInv, TxGood
<1>3. /\ txEp' \in TxEndpoint /\ txEp'.enabled = txEp.enabled
      /\ txEp'.job = txEp.job /\ txEp.job.state = "none"
  BY <1>1, <1>2 DEF TxEndpoint, TxInv, TxGood
<1>4. TxGood(tx', txEp') BY <1>1, <1>3 DEF TxInv, TxGood
<1>5. TxWay(tx', txEp') = TxWay(tx, txEp) BY <1>1, <1>3 DEF TxWay, TxOut
<1>6. ~TxUp(tx, txEp) BY <1>1 DEF TxUp
<1>7. TxUp(tx', txEp') \in BOOLEAN /\ TxUp(tx, txEp) \in BOOLEAN
  BY <1>1, <1>2, <1>3 DEF TxUp, TxEndpoint
<1>8. TxSteps BY <1>1, <1>5, <1>6, <1>7 DEF TxSteps
<1>9. TxStays BY <1>1, <1>6 DEF TxStays
<1> QED BY <1>1, <1>4, <1>8, <1>9 DEF TxInv

LEMMA TxRestKept ==
  ASSUME TxSizes, TxInv, Tx!HostFrame \/ Tx!Call \/ Tx!Full
  PROVE  TxInv' /\ TxSteps /\ TxStays
<1>1. UNCHANGED <<tx, txEp, stored, arrived>>
  BY DEF Tx!HostFrame, Tx!Call, Tx!Full, Tx!thread
<1>2. TxSteps /\ TxStays BY <1>1 DEF TxSteps, TxStays
<1>3. frame' \in Nat
  <2>1. CASE Tx!HostFrame
    <3>1. frame' = (frame + 1) % Frames /\ frame + 1 \in Nat BY <2>1 DEF Tx!HostFrame, TxInv
    <3> DEFINE f == frame + 1
    <3> HIDE DEF f
    <3>2. f % Frames \in Nat BY <3>1 DEF TxSizes, f
    <3> QED BY <3>1, <3>2 DEF f
  <2>2. CASE Tx!Call \/ Tx!Full BY <2>2 DEF Tx!Call, Tx!Full, TxInv
  <2> QED BY <2>1, <2>2
<1>4. /\ txOp' \in [kind : {"putc", "write"}, left : Nat]
      /\ txPc' # "idle" => txOp'.left # 0
  <2>1. CASE Tx!HostFrame BY <2>1 DEF Tx!HostFrame, Tx!thread, TxInv
  <2>2. CASE Tx!Full BY <2>2 DEF Tx!Full, TxInv
  <2>3. CASE Tx!Call
    <3>1. PICK c \in Tx!Calls : txOp' = c BY <2>3 DEF Tx!Call
    <3>2. c \in [kind : {"putc", "write"}, left : Nat] /\ c.left # 0
      <4>1. CASE c \in [kind : {"putc"}, left : {1, 2}] BY <4>1
      <4>2. CASE c \in [kind : {"write"}, left : WriteSizes] BY <4>2 DEF TxSizes
      <4> QED BY <4>1, <4>2 DEF Tx!Calls
    <3> QED BY <3>1, <3>2
  <2> QED BY <2>1, <2>2, <2>3
<1> QED BY <1>1, <1>2, <1>3, <1>4 DEF TxInv

LEMMA TxReadyKept ==
  ASSUME TxSizes, TxInv, Tx!IsTxReady
  PROVE  TxInv' /\ TxSteps /\ TxStays
<1>1. /\ UNCHANGED <<txEp, frame, stored, arrived, txOp>> /\ txPc = "ready"
      /\ tx' = IF Tx!MovesOn THEN [tx EXCEPT !.both = TRUE, !.sel = Tx!Other(@)] ELSE tx
  BY DEF Tx!IsTxReady
<1>2. /\ tx \in TxRecord /\ txEp \in TxEndpoint /\ txOp.left # 0
  BY <1>1 DEF TxInv, TxGood
<1>3. TxGood(tx', txEp') /\ TxSteps /\ TxStays
  <2>1. CASE ~Tx!MovesOn BY <1>1, <2>1 DEF TxInv, TxSteps, TxStays
  <2>2. CASE Tx!MovesOn
    <3>1. /\ tx' \in TxRecord /\ tx'.mem = tx.mem /\ tx'.sel = 1 - tx.sel
          /\ tx'.both = TRUE /\ tx'.ongoing = tx.ongoing
      <4> DEFINE k == 1 - tx.sel
      <4>1. tx' = [tx EXCEPT !.both = TRUE, !.sel = k]
        BY <1>1, <1>2, <2>2 DEF TxRecord, Tx!Other
      <4>2. k \in {0, 1} BY <1>2 DEF TxRecord
      <4> HIDE DEF k
      <4>3. /\ tx' \in TxRecord /\ tx'.mem = tx.mem /\ tx'.sel = k
            /\ tx'.both = TRUE /\ tx'.ongoing = tx.ongoing
        BY <1>2, <4>1, <4>2 DEF TxRecord
      <4> QED BY <4>3 DEF k
    <3>2. /\ tx.ongoing = FALSE /\ tx.both = FALSE
      BY <2>2, <1>2 DEF Tx!MovesOn, TxRecord
    <3>3. txEp.job.state = "none" /\ tx.mem[1 - tx.sel] = <<>>
      BY <3>2, <1>2 DEF TxInv, TxGood, TxEndpoint
    <3>4. /\ 1 - (1 - tx.sel) = tx.sel /\ tx.mem[tx.sel] \in Seq(Nat)
      BY TxMem DEF TxInv
    <3>5. TxGood(tx', txEp') BY <1>1, <1>2, <3>1, <3>3 DEF TxInv, TxGood
    <3>6. TxWay(tx, txEp) = <<>> \o tx.mem[tx.sel] BY <3>2, <3>3 DEF TxWay, TxOut
    <3>7. TxWay(tx', txEp') = tx.mem[tx.sel] \o <<>>
      <4>1. TxOut(tx', txEp') = tx.mem[tx.sel]
        BY <1>1, <3>1, <3>2, <3>3, <3>4 DEF TxOut
      <4> QED BY <4>1, <3>1, <3>3 DEF TxWay
    <3>8. TxWay(tx', txEp') = TxWay(tx, txEp) BY <3>4, <3>6, <3>7, ConcatEmptySeq
    <3>9. TxUp(tx', txEp') = TxUp(tx, txEp) BY <1>1, <3>1, <3>2 DEF TxUp
    <3> QED BY <1>1, <3>5, <3>8, <3>9 DEF TxSteps, TxStays
  <2> QED BY <2>1, <2>2
<1> QED BY <1>1, <1>2, <1>3 DEF TxInv

LEMMA TxHostTakesKept ==
  ASSUME TxSizes, TxInv, Tx!HostTakes
  PROVE  TxInv' /\ Tx!Stream!Next /\ TxStays
<1>1. /\ UNCHANGED <<tx, frame, stored, txOp, txPc>> /\ txEp.job.state = "sent"
      /\ txEp' = [txEp EXCEPT !.job.state = "taken"]
      /\ arrived' = arrived \o txEp.job.data
  BY DEF Tx!HostTakes, Tx!thread
<1>2. tx \in TxRecord /\ txEp \in TxEndpoint BY DEF TxInv, TxGood
<1>3. tx.ongoing /\ txEp.enabled /\ ~txEp.halted BY <1>1 DEF TxInv, TxGood
<1>4. /\ txEp' \in TxEndpoint /\ txEp'.job.state = "taken"
      /\ txEp'.enabled = txEp.enabled /\ txEp'.halted = txEp.halted
  BY <1>1, <1>2 DEF TxEndpoint
<1>5. TxGood(tx', txEp') BY <1>1, <1>3, <1>4 DEF TxInv, TxGood
<1> DEFINE d == txEp.job.data
           r == tx.mem[tx.sel]
<1>6. d \in Seq(Nat) /\ r \in Seq(Nat) BY <1>2, TxMem DEF TxEndpoint, TxInv
<1>7. TxInv' BY <1>1, <1>5, <1>6, ConcatProperties DEF TxInv
<1>8. TxUp(tx, txEp) /\ TxUp(tx', txEp') BY <1>1, <1>3, <1>4 DEF TxUp
<1>9. TxWay(tx, txEp) = d \o r BY <1>1 DEF TxWay, TxOut
<1>a. TxWay(tx', txEp') = r
  <2>1. TxWay(tx', txEp') = <<>> \o r BY <1>1, <1>3, <1>4 DEF TxWay, TxOut
  <2> QED BY <2>1, <1>6, ConcatEmptySeq
<1>b. TxStays BY <1>8 DEF TxStays
<1>c. CASE d = <<>>
  <2>1. arrived' = arrived /\ TxWay(tx', txEp') = TxWay(tx, txEp)
    BY <1>1, <1>6, <1>9, <1>a, <1>c, ConcatEmptySeq DEF TxInv
  <2>2. TxSteps BY <1>1, <1>8, <2>1 DEF TxSteps
  <2> QED BY <1>7, <1>b, <2>2, TxStepsImplement
<1>d. CASE d # <<>>
  <2> DEFINE w == TxWay(tx, txEp)
  <2>1. Len(d) \in 1 .. Len(w)
    <3>1. Len(d) \in Nat \ {0} BY <1>6, <1>d, EmptySeq
    <3>2. Len(r) \in Nat /\ Len(w) = Len(d) + Len(r)
      BY <1>6, <1>9, ConcatProperties, LenProperties
    <3> HIDE DEF d, r, w
    <3> QED BY <3>1, <3>2
  <2>2. SubSeq(w, 1, Len(d)) = d /\ SubSeq(w, Len(d) + 1, Len(w)) = r
    <3> HIDE DEF d, r
    <3> QED BY <1>6, <1>9, SplitAgain
  <2> HIDE DEF d, r, w
  <2>4. /\ arrived' = arrived \o SubSeq(w, 1, Len(d))
        /\ TxWay(tx', txEp') = SubSeq(w, Len(d) + 1, Len(w))
    BY <1>1, <1>a, <2>2 DEF d
  <2>5. Tx!Stream!Arrive
    BY <1>1, <1>8, <2>1, <2>4, TxMapping, TxMappingNext DEF Tx!Stream!Arrive, w
  <2>6. Tx!Stream!Next BY <2>5 DEF Tx!Stream!Next
  <2> QED BY <1>7, <1>b, <2>6
<1> QED BY <1>c, <1>d

LEMMA TxStoreKept ==
  ASSUME TxSizes, TxInv, Tx!Store
  PROVE  TxInv' /\ Tx!Stream!Next /\ TxStays
<1> DEFINE n == Tx!Chunk
           m == tx.mem[tx.sel]
           bytes == [i \in 1 .. n |-> stored + i]
<1>1. /\ UNCHANGED <<txEp, frame, arrived>> /\ txPc = "store"
      /\ txOp.kind = "putc" => Tx!Room > 0
      /\ tx' = [tx EXCEPT !.mem[tx.sel] = @ \o bytes]
      /\ stored' = stored + n
      /\ txOp' = [txOp EXCEPT !.left = @ - n]
      /\ txPc' = IF txOp.left = n THEN "idle" ELSE "ready"
  BY DEF Tx!Store, TxSizes
<1>2. /\ tx \in TxRecord /\ txEp \in TxEndpoint /\ stored \in Nat
      /\ txOp.left \in Nat /\ txOp.left # 0 /\ txOp.kind \in {"putc", "write"}
      /\ TxBufSize \in Nat
  BY <1>1 DEF TxInv, TxGood, TxSizes
<1>3. /\ tx.sel \in {0, 1} /\ 1 - tx.sel \in {0, 1} /\ 1 - tx.sel # tx.sel
      /\ m \in Seq(Nat) /\ Len(m) \in Nat /\ Len(m) <= TxBufSize
  <2>1. TxGood(tx, txEp) BY DEF TxInv
  <2>2. /\ tx.sel \in {0, 1} /\ 1 - tx.sel \in {0, 1} /\ m \in Seq(Nat) BY <2>1, TxMem
  <2>3. Len(m) \in Nat BY <2>2, LenProperties
  <2>4. Len(m) <= TxBufSize BY <2>1, <2>2 DEF TxGood
  <2> QED BY <2>2, <2>3, <2>4
<1>4. n \in Nat /\ n <= txOp.left /\ n <= TxBufSize - Len(m)
  <2>1. Tx!Room = TxBufSize - Len(m) /\ Tx!Room \in Nat BY <1>2, <1>3 DEF Tx!Room
  <2>2. CASE txOp.kind = "putc" BY <1>1, <1>2, <2>1, <2>2 DEF Tx!Chunk
  <2>3. CASE txOp.kind # "putc"
    <3> DEFINE a == Tx!Room
               b == txOp.left
               S == {a, b}
    <3>1. a \in Nat /\ b \in Nat BY <1>2, <2>1
    <3>2. n = Tx!Min(S) BY <2>3 DEF Tx!Chunk
    <3>3. \E x \in S : \A y \in S : x <= y
      <4> HIDE DEF a, b
      <4>1. a <= b \/ b <= a BY <3>1
      <4>2. a <= a /\ b <= b BY <3>1
      <4> QED BY <4>1, <4>2
    <3>4. n \in S /\ \A y \in S : n <= y
      <4> HIDE DEF S, n
      <4> QED BY <3>2, <3>3 DEF Tx!Min
    <3> HIDE DEF n
    <3> QED BY <3>1, <3>4, <2>1
  <2> QED BY <2>2, <2>3
<1> HIDE DEF n
<1>5. bytes \in Seq(Nat) /\ Len(bytes) = n
  <2>1. \A i \in 1 .. n : stored + i \in Nat BY <1>2, <1>4
  <2>2. bytes \in [1 .. n -> Nat] BY <2>1
  <2> HIDE DEF bytes
  <2> QED BY <1>4, <2>2
<1> HIDE DEF bytes
<1>6. m \o bytes \in Seq(Nat) /\ Len(m \o bytes) = Len(m) + n
  BY <1>3, <1>5, ConcatProperties
<1>7. /\ tx' \in TxRecord /\ tx'.sel = tx.sel /\ tx'.both = tx.both
      /\ tx'.ongoing = tx.ongoing
      /\ tx'.mem[tx.sel] = m \o bytes
      /\ \A b \in {0, 1} : b # tx.sel => tx'.mem[b] = tx.mem[b]
  <2> DEFINE new == m \o bytes
             mem == [tx.mem EXCEPT ![tx.sel] = new]
  <2>1. tx' = [tx EXCEPT !.mem = mem] BY <1>1, <1>2 DEF TxRecord
  <2>2. tx.mem \in [{0, 1} -> Seq(Nat)] BY <1>2 DEF TxRecord
  <2>3. new \in Seq(Nat) BY <1>6
  <2> HIDE DEF new
  <2>4. /\ mem \in [{0, 1} -> Seq(Nat)] /\ mem[tx.sel] = new
        /\ \A b \in {0, 1} : b # tx.sel => mem[b] = tx.mem[b]
    BY <1>3, <2>2, <2>3
  <2> HIDE DEF mem
  <2>5. /\ tx' \in TxRecord /\ tx'.sel = tx.sel /\ tx'.both = tx.both
        /\ tx'.ongoing = tx.ongoing /\ tx'.mem = mem
    BY <1>2, <2>1, <2>4 DEF TxRecord
  <2> QED BY <2>4, <2>5 DEF new
<1>8. Len(tx'.mem[0]) <= TxBufSize /\ Len(tx'.mem[1]) <= TxBufSize
  <2>1. Len(m) + n <= TxBufSize BY <1>2, <1>3, <1>4
  <2>2. CASE tx.sel = 0
    <3>1. tx'.mem[0] = m \o bytes /\ tx'.mem[1] = tx.mem[1] BY <1>7, <2>2
    <3> QED BY <3>1, <1>6, <2>1 DEF TxInv, TxGood
  <2>3. CASE tx.sel = 1
    <3>1. tx'.mem[1] = m \o bytes /\ tx'.mem[0] = tx.mem[0] BY <1>7, <2>3
    <3> QED BY <3>1, <1>6, <2>1 DEF TxInv, TxGood
  <2> QED BY <1>3, <2>2, <2>3
<1>9. tx'.mem[1 - tx.sel] = tx.mem[1 - tx.sel] BY <1>3, <1>7
<1>a. TxGood(tx', txEp') BY <1>1, <1>2, <1>7, <1>8, <1>9 DEF TxInv, TxGood
<1>b. /\ txOp' \in [kind : {"putc", "write"}, left : Nat]
      /\ txPc' # "idle" => txOp'.left # 0
  <2> DEFINE k == txOp.left - n
  <2>1. k \in Nat /\ (k = 0 => txOp.left = n) BY <1>2, <1>4
  <2>2. txOp' = [txOp EXCEPT !.left = k] /\ (txPc' # "idle" => txOp.left # n)
    BY <1>1
  <2> HIDE DEF k
  <2> QED BY <2>1, <2>2 DEF TxInv
<1>c. TxInv' BY <1>1, <1>2, <1>4, <1>a, <1>b DEF TxInv
<1>d. TxUp(tx', txEp') = TxUp(tx, txEp) BY <1>1, <1>7 DEF TxUp
<1>e. TxWay(tx', txEp') = TxWay(tx, txEp) \o bytes
  <2>1. TxOut(tx', txEp') = TxOut(tx, txEp) BY <1>1, <1>7, <1>9 DEF TxOut
  <2>2. TxOut(tx, txEp) \in Seq(Nat) BY TxMem DEF TxInv
  <2>3. TxWay(tx', txEp') = TxOut(tx, txEp) \o (m \o bytes) BY <1>7, <2>1 DEF TxWay
  <2>4. TxWay(tx, txEp) = TxOut(tx, txEp) \o m BY DEF TxWay
  <2>5. (TxOut(tx, txEp) \o m) \o bytes = TxOut(tx, txEp) \o (m \o bytes)
    <3> DEFINE o == TxOut(tx, txEp)
    <3>1. o \in Seq(Nat) /\ m \in Seq(Nat) /\ bytes \in Seq(Nat) BY <1>3, <1>5, <2>2
    <3> HIDE DEF m, o
    <3>2. (o \o m) \o bytes = o \o (m \o bytes) BY <3>1, Regrouped
    <3> QED BY <3>2 DEF o
  <2> QED BY <2>3, <2>4, <2>5
<1>f. TxStays BY <1>1, <1>d DEF TxStays
<1>g. CASE n = 0
  <2>1. stored' = stored /\ bytes = <<>> BY <1>1, <1>2, <1>5, <1>g, EmptySeq
  <2>2. TxWay(tx', txEp') = TxWay(tx, txEp)
    BY <1>e, <2>1, TxMem, ConcatEmptySeq DEF TxInv
  <2>3. TxSteps BY <1>1, <1>d, <2>1, <2>2 DEF TxSteps
  <2> QED BY <1>c, <1>f, <2>3, TxStepsImplement
<1>h. CASE n # 0
  <2>1. stored' > stored /\ stored' - stored = n BY <1>1, <1>2, <1>4, <1>h
  <2>2. Tx!Stream!Fresh(n) = bytes BY DEF Tx!Stream!Fresh, bytes
  <2>3. Tx!Stream!Put
    BY <1>1, <1>d, <1>e, <2>1, <2>2, TxMapping, TxMappingNext DEF Tx!Stream!Put
  <2>4. Tx!Stream!Next BY <2>3 DEF Tx!Stream!Next
  <2> QED BY <1>c, <1>f, <2>4
<1> QED BY <1>g, <1>h

LEMMA TxNextKept ==
  ASSUME TxSizes, TxInv, [Tx!Next]_(Tx!vars)
  PROVE  /\ TxInv'
         /\ [Tx!Stream!Next]_(Tx!Stream!vars)
         /\ [Tx!Link \/ ~txEp.enabled => Tx!Link' \/ ~txEp'.enabled \/ txEp'.halted]_(Tx!vars)
<1>1. CASE Tx!IsrSent \/ Tx!IsrSof
  BY <1>1, TxSentKept, TxSofKept, TxStepsImplement, TxMapping, TxMappingNext DEF TxStays
<1>2. CASE Tx!Requests
  BY <1>2, TxEnableKept, TxDisableKept, TxHaltKept, TxClearHaltKept, TxStepsImplement,
     TxMapping, TxMappingNext DEF Tx!Requests, TxStays
<1>3. CASE Tx!HostFrame \/ Tx!Call \/ Tx!Full \/ Tx!IsTxReady
  BY <1>3, TxRestKept, TxReadyKept, TxStepsImplement, TxMapping, TxMappingNext DEF TxStays
<1>4. CASE Tx!HostTakes \/ Tx!Store
  BY <1>4, TxHostTakesKept, TxStoreKept, TxMapping, TxMappingNext DEF TxStays
<1>5. CASE UNCHANGED Tx!vars
  <2>1. UNCHANGED <<tx, txEp, frame, stored, arrived, txOp, txPc>>
    BY <1>5 DEF Tx!vars
  <2>2. TxInv' BY <2>1 DEF TxInv
  <2>3. UNCHANGED Tx!Stream!vars BY <2>1, TxMapping, TxMappingNext DEF Tx!Stream!vars
  <2> QED BY <1>5, <2>2, <2>3
<1> QED BY <1>1, <1>2, <1>3, <1>4, <1>5 DEF Tx!Next, Tx!Isr, Tx!Host, Tx!Main

(* The sending half forgets no transfer that is going on and waits for     *)
(* none that is not, until the host halts or disables the port, see        *)
(* UdiCdcTx!StaysUp.                                                       *)
THEOREM SendingStaysUp ==
  ASSUME ~Spills
  PROVE  TxSpec => Tx!StaysUp
<1> TxSizes BY WritesAssumption, DelaysAssumption DEF TxSizes
<1>1. Tx!Init => TxInv BY TxInitGood
<1>2. TxInv /\ [Tx!Next]_(Tx!vars)
        => /\ TxInv'
           /\ [Tx!Link \/ ~txEp.enabled
                 => Tx!Link' \/ ~txEp'.enabled \/ txEp'.halted]_(Tx!vars)
  BY TxNextKept
<1> QED BY <1>1, <1>2, PTL DEF TxSpec, Tx!Spec, Tx!StaysUp

(* What the application stores is sent once and in order, whatever the     *)
(* sizes of the buffers and of the writes: every step of the sending half  *)
(* is one of ByteStream, see UdiCdcTx!SendsInOrder.  udi_cdc_putc is not   *)
(* to store behind the end of a full buffer, the deviation of Spills.      *)
THEOREM SerialPortSends ==
  ASSUME ~Spills
  PROVE  TxSpec => SendsInOrder
<1> TxSizes BY WritesAssumption, DelaysAssumption DEF TxSizes
<1>1. Tx!Init => TxInv /\ Tx!Stream!Init BY TxInitGood
<1>2. TxInv /\ [Tx!Next]_(Tx!vars) => TxInv' /\ [Tx!Stream!Next]_(Tx!Stream!vars)
  BY TxNextKept
<1> QED
  BY <1>1, <1>2, SendingStaysUp, PTL
  DEF TxSpec, SendsInOrder, Tx!Spec, Tx!SendsInOrder, Tx!Stream!Spec

-----------------------------------------------------------------------------
(* The receiving half. *)
(* The flags, counts and buffers x and the endpoint e are well-formed. *)
RxRecord == [mem : [{0, 1} -> Seq(Nat)], nb : [{0, 1} -> Nat], sel : {0, 1},
             pos : Nat, ongoing : BOOLEAN]
RxJob == [on : BOOLEAN, buf : {0, 1}, room : BOOLEAN]
RxEndpoint == [enabled : BOOLEAN, halted : BOOLEAN, irq : BOOLEAN, job : RxJob]

RxTypes(x, e) ==
  /\ x \in RxRecord /\ e \in RxEndpoint
  /\ \A b \in {0, 1} : Len(x.mem[b]) = RxBufSize /\ x.nb[b] <= RxBufSize

RxGood(x, e) ==
  /\ RxTypes(x, e)
  /\ e.job.on => e.enabled /\ ~e.halted /\ e.irq /\ e.job.room

(* Unread, when the thread has taken k bytes more than the position says,  *)
(* and the bytes of the other buffer.                                      *)
RxUnread(x, k) == SubSeq(x.mem[x.sel], x.pos + k + 1, x.nb[x.sel])
RxFilled(x) == IF x.ongoing THEN <<>> ELSE SubSeq(x.mem[1 - x.sel], 1, x.nb[1 - x.sel])
RxOut(x, k) == RxUnread(x, k) \o RxFilled(x)

FifoBank(f, i) == IF i <= Len(f) THEN f[i] ELSE <<>>
InBanks(f) == FifoBank(f, 1) \o FifoBank(f, 2)

LEMMA RxSub ==
  ASSUME NEW s \in Seq(Nat), NEW i \in Nat \ {0}, NEW n \in Nat, n <= Len(s)
  PROVE  /\ SubSeq(s, i, n) \in Seq(Nat)
         /\ Len(SubSeq(s, i, n)) = IF i <= n THEN n - i + 1 ELSE 0
         /\ i > n => SubSeq(s, i, n) = <<>>
<1>1. i \in Int /\ n \in Int /\ i >= 1 /\ Len(s) \in Nat BY LenProperties
<1>2. ASSUME NEW j \in i .. n PROVE s[j] \in Nat
  <2>1. j \in 1 .. Len(s) BY <1>1
  <2> QED BY <2>1, ElementOfSeq
<1>3. \A j \in i .. n : s[j] \in Nat BY <1>2
<1>4. SubSeq(s, i, n) \in Seq(Nat) /\ Len(SubSeq(s, i, n)) = IF i <= n THEN n - i + 1 ELSE 0
  BY <1>1, <1>3, SubSeqProperties
<1>5. i > n => SubSeq(s, i, n) = <<>>
  <2>1. SUFFICES ASSUME i > n PROVE SubSeq(s, i, n) = <<>> OBVIOUS
  <2>2. n < i BY <1>1, <2>1
  <2> QED BY <1>1, <2>2, SubSeqEmpty, Zenon
<1> QED BY <1>4, <1>5

LEMMA RxMem ==
  ASSUME NEW x, NEW e, RxTypes(x, e), NEW k \in Nat
  PROVE  /\ x.sel \in {0, 1} /\ 1 - x.sel \in {0, 1} /\ 1 - x.sel # x.sel
         /\ 1 - (1 - x.sel) = x.sel /\ x.pos \in Nat /\ x.ongoing \in BOOLEAN
         /\ x.mem[x.sel] \in Seq(Nat) /\ x.mem[1 - x.sel] \in Seq(Nat)
         /\ x.nb[x.sel] \in Nat /\ x.nb[1 - x.sel] \in Nat
         /\ x.nb[x.sel] <= Len(x.mem[x.sel]) /\ x.nb[1 - x.sel] <= Len(x.mem[1 - x.sel])
         /\ RxUnread(x, k) \in Seq(Nat) /\ RxFilled(x) \in Seq(Nat) /\ RxOut(x, k) \in Seq(Nat)
<1>1. /\ x \in RxRecord
      /\ \A b \in {0, 1} : Len(x.mem[b]) = RxBufSize /\ x.nb[b] <= RxBufSize
  BY DEF RxTypes
<1>2. /\ x.sel \in {0, 1} /\ 1 - x.sel \in {0, 1} /\ 1 - x.sel # x.sel
      /\ 1 - (1 - x.sel) = x.sel /\ x.pos \in Nat /\ x.ongoing \in BOOLEAN
  BY <1>1 DEF RxRecord
<1>3. x.mem \in [{0, 1} -> Seq(Nat)] /\ x.nb \in [{0, 1} -> Nat] BY <1>1 DEF RxRecord
<1>4. \A b \in {0, 1} : x.mem[b] \in Seq(Nat) /\ x.nb[b] \in Nat /\ x.nb[b] <= Len(x.mem[b])
  BY <1>1, <1>3
<1>5. RxUnread(x, k) \in Seq(Nat)
  <2>1. x.pos + k + 1 \in Nat \ {0} BY <1>2
  <2> QED BY <1>2, <1>4, <2>1, RxSub DEF RxUnread
<1>6. SubSeq(x.mem[1 - x.sel], 1, x.nb[1 - x.sel]) \in Seq(Nat)
  <2>1. 1 \in Nat \ {0} OBVIOUS
  <2> QED BY <1>2, <1>4, <2>1, RxSub
<1>7. RxFilled(x) \in Seq(Nat) BY <1>6, EmptySeq DEF RxFilled
<1>8. RxOut(x, k) \in Seq(Nat) BY <1>5, <1>7, ConcatProperties DEF RxOut
<1> QED BY <1>2, <1>4, <1>5, <1>7, <1>8

(* Exchanging the buffers, when the selected one has been read, makes the  *)
(* bytes of the other one the unread ones.                                 *)
LEMMA ExchangeKeeps ==
  ASSUME NEW x, NEW e, RxTypes(x, e), Rx!MayStart(x)
  PROVE  LET y == Rx!Exchanged(x)
         IN /\ y \in RxRecord /\ y.mem = x.mem /\ y.nb = x.nb /\ y.sel = 1 - x.sel
            /\ y.pos = 0 /\ y.ongoing = TRUE
            /\ RxOut(y, 0) = RxOut(x, 0)
<1> DEFINE y == Rx!Exchanged(x)
<1>1. x \in RxRecord BY DEF RxTypes
<1>2. y \in RxRecord /\ y.mem = x.mem /\ y.nb = x.nb /\ y.sel = 1 - x.sel
      /\ y.pos = 0 /\ y.ongoing = TRUE
  <2> DEFINE k == 1 - x.sel
  <2>1. k \in {0, 1} BY <1>1 DEF RxRecord
  <2>2. y = [x EXCEPT !.pos = 0, !.sel = k, !.ongoing = TRUE]
    BY <1>1 DEF Rx!Exchanged, Rx!Other, RxRecord
  <2> HIDE DEF k, y
  <2>3. y \in RxRecord /\ y.mem = x.mem /\ y.nb = x.nb /\ y.sel = k
        /\ y.pos = 0 /\ y.ongoing = TRUE
    BY <1>1, <2>1, <2>2 DEF RxRecord
  <2> QED BY <2>3 DEF k
<1>3. x.ongoing = FALSE /\ x.pos >= x.nb[x.sel] BY <1>1 DEF Rx!MayStart, RxRecord
<1> HIDE DEF y
<1> DEFINE s == SubSeq(x.mem[1 - x.sel], 1, x.nb[1 - x.sel])
<1>4. /\ x.sel \in {0, 1} /\ x.pos \in Nat /\ x.mem[x.sel] \in Seq(Nat)
      /\ x.nb[x.sel] \in Nat /\ x.nb[x.sel] <= Len(x.mem[x.sel]) /\ RxFilled(x) \in Seq(Nat)
  <2>1. 0 \in Nat OBVIOUS
  <2> QED BY <2>1, RxMem
<1>5. RxFilled(x) = s BY <1>3 DEF RxFilled
<1>6. RxUnread(x, 0) = <<>>
  <2> DEFINE i == x.pos + 0 + 1
  <2>1. i \in Nat \ {0} /\ i > x.nb[x.sel] BY <1>3, <1>4
  <2> HIDE DEF i
  <2>2. SubSeq(x.mem[x.sel], i, x.nb[x.sel]) = <<>> BY <1>4, <2>1, RxSub
  <2> QED BY <2>2 DEF RxUnread, i
<1>7. RxFilled(y) = <<>> BY <1>2 DEF RxFilled
<1>8. RxUnread(y, 0) = s
  <2>1. y.pos + 0 + 1 = 1 BY <1>2
  <2> QED BY <1>2, <2>1 DEF RxUnread
<1> HIDE DEF s
<1>9. RxOut(x, 0) = <<>> \o s /\ RxOut(y, 0) = s \o <<>> /\ s \in Seq(Nat)
  BY <1>4, <1>5, <1>6, <1>7, <1>8 DEF RxOut
<1>a. RxOut(y, 0) = RxOut(x, 0) BY <1>9, ConcatEmptySeq
<1> QED BY <1>2, <1>a DEF y

(* udd_ep_run, when it is not refused. *)
LEMMA RxRan ==
  ASSUME NEW e \in RxEndpoint, NEW b \in {0, 1}, e.enabled, ~e.halted, ~e.job.on
  PROVE  LET f == Rx!Run(e, b)
         IN /\ f \in RxEndpoint /\ f.enabled = e.enabled /\ f.halted = e.halted
            /\ f.irq /\ f.job.on /\ f.job.room /\ f.job.buf = b
<1> DEFINE j == [on |-> TRUE, buf |-> b, room |-> TRUE]
           f == Rx!Run(e, b)
<1>1. f = [e EXCEPT !.job = j, !.irq = TRUE] BY DEF Rx!Run
<1>2. j \in RxJob /\ j.on = TRUE /\ j.buf = b /\ j.room = TRUE BY DEF RxJob
<1> HIDE DEF j, f
<1>3. /\ f \in RxEndpoint /\ f.enabled = e.enabled /\ f.halted = e.halted
      /\ f.irq = TRUE /\ f.job = j
  BY <1>1, <1>2 DEF RxEndpoint
<1> QED BY <1>2, <1>3 DEF f

(* What a call of udi_cdc_rx_start in the interrupt routine does, when no  *)
(* transfer is on: the buffers are exchanged and a transfer is run into    *)
(* the one that was read, or neither.                                      *)
RxStarted(x, e, x2, e2) ==
  /\ RxGood(x2, e2)
  /\ e2.enabled = e.enabled /\ e2.halted = e.halted
  /\ IF Rx!MayStart(x)
     THEN /\ RxOut(x2, 0) = RxOut(x, 0) /\ x2.sel = 1 - x.sel
          /\ x2.nb = x.nb /\ x2.ongoing
          /\ IF e.halted THEN e2 = e ELSE e2.job.on /\ e2.job.buf = x.sel
     ELSE x2 = x /\ e2 = e

LEMMA RxStartKeeps ==
  ASSUME NEW x, NEW e, RxTypes(x, e), ~e.job.on, e.enabled
  PROVE  RxStarted(x, e, Rx!RxStart(x, e)[1], Rx!RxStart(x, e)[2])
<1> DEFINE p == Rx!RxStart(x, e)
<1>t. x \in RxRecord /\ e \in RxEndpoint BY DEF RxTypes
<1>1. CASE ~Rx!MayStart(x)
  <2>1. p = <<x, e>> BY <1>1 DEF Rx!RxStart
  <2>2. RxGood(x, e) BY <1>1 DEF RxGood
  <2>3. p[1] = x /\ p[2] = e BY <2>1
  <2> QED BY <1>1, <2>2, <2>3 DEF RxStarted
<1>2. CASE Rx!MayStart(x)
  <2> DEFINE y == Rx!Exchanged(x)
             f == Rx!Run(e, x.sel)
  <2>1. p = <<y, f>> BY <1>2 DEF Rx!RxStart
  <2>2. y \in RxRecord /\ y.mem = x.mem /\ y.nb = x.nb /\ y.sel = 1 - x.sel
        /\ y.pos = 0 /\ y.ongoing = TRUE /\ RxOut(y, 0) = RxOut(x, 0)
    BY <1>2, ExchangeKeeps
  <2>3. x.sel \in {0, 1} /\ 1 - (1 - x.sel) = x.sel BY <1>t DEF RxRecord
  <2>4. /\ f \in RxEndpoint /\ f.enabled = e.enabled /\ f.halted = e.halted
        /\ f.job.on => f.irq /\ f.job.room
        /\ IF e.halted THEN f = e ELSE f.job.on /\ f.job.buf = x.sel
    <3>1. CASE e.halted
      <4>1. f = e BY <3>1 DEF Rx!Run
      <4> QED BY <3>1, <4>1, <1>t
    <3>2. CASE ~e.halted BY <1>t, <2>3, <3>2, RxRan
    <3> QED BY <3>1, <3>2
  <2> HIDE DEF y, f
  <2>5. f.job.on => f.enabled /\ ~f.halted
    BY <2>4
  <2>6. RxTypes(y, f) BY <2>2, <2>4 DEF RxTypes
  <2>7. RxGood(y, f) BY <2>4, <2>5, <2>6 DEF RxGood
  <2>8. p[1] = y /\ p[2] = f BY <2>1
  <2> QED BY <1>2, <2>2, <2>4, <2>7, <2>8 DEF RxStarted
<1> QED BY <1>1, <1>2

LEMMA BanksAreSequences ==
  ASSUME NEW f \in Seq(Seq(Nat))
  PROVE  FifoBank(f, 1) \in Seq(Nat) /\ FifoBank(f, 2) \in Seq(Nat) /\ InBanks(f) \in Seq(Nat)
<1>1. ASSUME NEW i \in {1, 2} PROVE FifoBank(f, i) \in Seq(Nat)
  <2>1. CASE i <= Len(f)
    <3>1. Len(f) \in Nat BY LenProperties
    <3>2. i \in 1 .. Len(f) BY <2>1, <3>1
    <3> QED BY <2>1, <3>2, ElementOfSeq DEF FifoBank
  <2>2. CASE ~(i <= Len(f)) BY <2>2, EmptySeq DEF FifoBank
  <2> QED BY <2>1, <2>2
<1>2. FifoBank(f, 1) \in Seq(Nat) /\ FifoBank(f, 2) \in Seq(Nat) BY <1>1
<1> QED BY <1>2, ConcatProperties DEF InBanks

LEMMA EmptyBanks ==
  ASSUME NEW f, f = <<>>
  PROVE  InBanks(f) = <<>>
<1>1. ~(1 <= Len(f)) /\ ~(2 <= Len(f)) BY EmptySeq
<1>2. InBanks(f) = <<>> \o <<>> BY <1>1 DEF InBanks, FifoBank
<1> QED BY <1>2, EmptySeq, ConcatEmptySeq

(* Sequences of at most two elements, whatever these are. *)
LEMMA HeadOfTwo ==
  ASSUME NEW S, NEW f \in Seq(S), f # <<>>, Len(f) <= 2
  PROVE  /\ Head(f) = f[1] /\ Head(f) \in S /\ Tail(f) \in Seq(S)
         /\ \/ Len(f) = 1 /\ Tail(f) = <<>>
            \/ Len(f) = 2 /\ Len(Tail(f)) = 1 /\ Tail(f)[1] = f[2] /\ f[2] \in S
<1>1. Len(f) \in Nat \ {0} BY EmptySeq
<1>2. /\ Head(f) = f[1] /\ Head(f) \in S /\ Tail(f) \in Seq(S)
      /\ Len(Tail(f)) = Len(f) - 1
      /\ \A i \in 1 .. Len(Tail(f)) : Tail(f)[i] = f[i + 1]
  BY <1>1, HeadTailProperties
<1>3. CASE Len(f) = 1
  <2>1. Len(Tail(f)) = 0 BY <1>2, <1>3
  <2>2. Tail(f) = <<>> BY <1>2, <2>1, EmptySeq
  <2> QED BY <1>2, <1>3, <2>2
<1>4. CASE Len(f) = 2
  <2>0. Len(Tail(f)) = 1 BY <1>2, <1>4
  <2>a. 1 \in 1 .. 1 /\ 2 \in 1 .. 2 OBVIOUS
  <2>1. 1 \in 1 .. Len(Tail(f)) /\ 2 \in 1 .. Len(f) BY <2>0, <2>a, <1>4, Zenon
  <2>2. Tail(f)[1] = f[1 + 1] /\ f[2] \in S BY <1>2, <2>1, ElementOfSeq
  <2> QED BY <1>2, <1>4, <2>2
<1>5. Len(f) = 1 \/ Len(f) = 2
  <2> DEFINE n == Len(f)
  <2>1. n \in Nat \ {0} /\ n <= 2 BY <1>1
  <2> HIDE DEF n
  <2>2. n = 1 \/ n = 2 BY <2>1
  <2> QED BY <2>2 DEF n
<1> QED BY <1>3, <1>4, <1>5

LEMMA AppendedToOne ==
  ASSUME NEW S, NEW f \in Seq(S), Len(f) < 2, NEW new \in S
  PROVE  /\ Append(f, new) \in Seq(S) /\ Len(Append(f, new)) = Len(f) + 1
         /\ \/ f = <<>> /\ Len(f) = 0 /\ Append(f, new)[1] = new
            \/ /\ Len(f) = 1 /\ f[1] \in S
               /\ Append(f, new)[1] = f[1] /\ Append(f, new)[2] = new
<1>1. Len(f) \in Nat BY LenProperties
<1>2. /\ Append(f, new) \in Seq(S) /\ Len(Append(f, new)) = Len(f) + 1
      /\ \A i \in 1 .. Len(f) : Append(f, new)[i] = f[i]
      /\ Append(f, new)[Len(f) + 1] = new
  BY AppendProperties
<1>3. CASE Len(f) = 0
  <2>1. f = <<>> BY <1>3, EmptySeq
  <2> QED BY <1>2, <1>3, <2>1
<1>4. CASE Len(f) = 1
  <2>1. 1 \in 1 .. Len(f) BY <1>4
  <2>2. f[1] \in S /\ Append(f, new)[1] = f[1] BY <1>2, <2>1, ElementOfSeq
  <2> QED BY <1>2, <1>4, <2>2
<1>5. Len(f) = 0 \/ Len(f) = 1
  <2> DEFINE n == Len(f)
  <2>1. n \in Nat /\ n < 2 BY <1>1
  <2> HIDE DEF n
  <2>2. n = 0 \/ n = 1 BY <2>1
  <2> QED BY <2>2 DEF n
<1> QED BY <1>3, <1>4, <1>5

(* The oldest packet comes first, and a new one last. *)
LEMMA FirstBank ==
  ASSUME NEW f \in Seq(Seq(Nat)), f # <<>>, Len(f) <= 2
  PROVE  /\ Head(f) \in Seq(Nat) /\ Tail(f) \in Seq(Seq(Nat)) /\ Len(Tail(f)) < 2
         /\ InBanks(f) = Head(f) \o InBanks(Tail(f))
<1> DEFINE t == Tail(f)
<1>1. /\ Head(f) = f[1] /\ Head(f) \in Seq(Nat) /\ t \in Seq(Seq(Nat))
      /\ \/ Len(f) = 1 /\ t = <<>>
         \/ Len(f) = 2 /\ Len(t) = 1 /\ t[1] = f[2] /\ f[2] \in Seq(Nat)
  BY HeadOfTwo
<1> HIDE DEF t
<1>2. ASSUME Len(f) = 1, t = <<>>
      PROVE  Len(t) < 2 /\ InBanks(f) = Head(f) \o InBanks(t)
  <2>1. InBanks(f) = Head(f) \o <<>> BY <1>1, <1>2 DEF InBanks, FifoBank
  <2>2. InBanks(t) = <<>> /\ Len(t) = 0 BY <1>2, EmptyBanks, EmptySeq
  <2> QED BY <2>1, <2>2
<1>3. ASSUME Len(f) = 2, Len(t) = 1, t[1] = f[2], f[2] \in Seq(Nat)
      PROVE  Len(t) < 2 /\ InBanks(f) = Head(f) \o InBanks(t)
  <2>1. InBanks(t) = f[2] \o <<>> BY <1>3 DEF InBanks, FifoBank
  <2>2. InBanks(f) = Head(f) \o f[2] BY <1>1, <1>3 DEF InBanks, FifoBank
  <2>3. f[2] \o <<>> = f[2] BY <1>3, ConcatEmptySeq
  <2> QED BY <1>3, <2>1, <2>2, <2>3
<1>4. Len(t) < 2 /\ InBanks(f) = Head(f) \o InBanks(t) BY <1>1, <1>2, <1>3
<1> QED BY <1>1, <1>4 DEF t

LEMMA LastBank ==
  ASSUME NEW f \in Seq(Seq(Nat)), Len(f) < 2, NEW packet \in Seq(Nat)
  PROVE  /\ Append(f, packet) \in Seq(Seq(Nat)) /\ Len(Append(f, packet)) = Len(f) + 1
         /\ InBanks(Append(f, packet)) = InBanks(f) \o packet
<1> DEFINE g == Append(f, packet)
<1>1. /\ g \in Seq(Seq(Nat)) /\ Len(g) = Len(f) + 1
      /\ \/ f = <<>> /\ Len(f) = 0 /\ g[1] = packet
         \/ Len(f) = 1 /\ f[1] \in Seq(Nat) /\ g[1] = f[1] /\ g[2] = packet
  BY AppendedToOne
<1> HIDE DEF g
<1>2. ASSUME f = <<>>, Len(f) = 0, g[1] = packet
      PROVE  InBanks(g) = InBanks(f) \o packet
  <2>1. InBanks(g) = packet \o <<>> BY <1>1, <1>2 DEF InBanks, FifoBank
  <2>2. InBanks(f) = <<>> BY <1>2, EmptyBanks
  <2>3. packet \o <<>> = packet /\ <<>> \o packet = packet BY ConcatEmptySeq
  <2> QED BY <2>1, <2>2, <2>3
<1>3. ASSUME Len(f) = 1, f[1] \in Seq(Nat), g[1] = f[1], g[2] = packet
      PROVE  InBanks(g) = InBanks(f) \o packet
  <2>1. InBanks(f) = f[1] \o <<>> BY <1>3 DEF InBanks, FifoBank
  <2>2. InBanks(g) = f[1] \o packet BY <1>1, <1>3 DEF InBanks, FifoBank
  <2>3. f[1] \o <<>> = f[1] BY <1>3, ConcatEmptySeq
  <2> QED BY <2>1, <2>2, <2>3
<1>4. InBanks(g) = InBanks(f) \o packet BY <1>1, <1>2, <1>3
<1> QED BY <1>1, <1>4 DEF g

-----------------------------------------------------------------------------
(* A packet is as long as a buffer, or shorter. *)
RxPackets == {s \in Seq(Nat) : Len(s) <= RxBufSize}

LEMMA PacketsAreSequences ==
  ASSUME NEW f \in Seq(RxPackets)
  PROVE  f \in Seq(Seq(Nat))
<1> DEFINE n == Len(f)
<1>1. n \in Nat /\ f \in [1 .. n -> RxPackets] BY LenProperties
<1> HIDE DEF n
<1>2. ASSUME NEW i \in 1 .. n PROVE f[i] \in Seq(Nat) BY <1>1 DEF RxPackets
<1>3. f \in [1 .. n -> Seq(Nat)] BY <1>1, <1>2
<1> QED BY <1>1, <1>3

(* One packet less. *)
LEMMA PacketTaken ==
  ASSUME NEW f \in Seq(RxPackets), f # <<>>, Banks \in {1, 2}, Len(f) <= Banks
  PROVE  /\ Head(f) \in Seq(Nat) /\ Len(Head(f)) <= RxBufSize
         /\ Tail(f) \in Seq(RxPackets) /\ Len(Tail(f)) <= Banks
         /\ InBanks(Tail(f)) \in Seq(Nat)
         /\ InBanks(f) = Head(f) \o InBanks(Tail(f))
<1>1. f \in Seq(Seq(Nat)) BY PacketsAreSequences
<1>2. Len(f) \in Nat BY LenProperties
<1>3. Len(f) <= 2 BY <1>2
<1>4. Head(f) \in RxPackets /\ Tail(f) \in Seq(RxPackets) BY <1>3, HeadOfTwo
<1>5. InBanks(f) = Head(f) \o InBanks(Tail(f)) BY <1>1, <1>3, FirstBank
<1>6. Len(Tail(f)) = Len(f) - 1 BY HeadTailProperties
<1>7. Len(f) - 1 <= Banks BY <1>2
<1>8. InBanks(Tail(f)) \in Seq(Nat) BY <1>4, PacketsAreSequences, BanksAreSequences
<1>9. Head(f) \in Seq(Nat) /\ Len(Head(f)) <= RxBufSize BY <1>4 DEF RxPackets
<1> QED BY <1>4, <1>5, <1>6, <1>7, <1>8, <1>9

-----------------------------------------------------------------------------
(* The definitions of UdiCdcRx that the refinement is made of, as operators *)
(* of the state: the buffers x, the endpoint e, the thread's step p and what *)
(* it has read, l.                                                         *)
RxInStep(x, e, p, l) ==
  /\ p \in {"take", "store"} =>
       l.sel = x.sel /\ l.pos = x.pos /\ x.pos < x.nb[x.sel]
  /\ p = "run" => x.ongoing /\ ~e.job.on /\ l.trans = 1 - x.sel
  /\ e.job.room =>
       /\ x.ongoing
       /\ e.job.buf = 1 - x.sel \/ (~e.job.on /\ x.nb[x.sel] = 0)

RxLeftover(x, e) == ~e.enabled /\ x.nb[1] > 0

RxAstray(x, e, p, l) == ~RxInStep(x, e, p, l) \/ RxLeftover(x, e)

RxUp(x, e, p, l) ==
  /\ ~RxAstray(x, e, p, l) /\ e.enabled /\ ~e.halted
  /\ x.ongoing => e.job.on \/ p = "run"
  /\ e.irq => e.job.on

Ahead(p, l) == IF p = "store" THEN l.nb ELSE 0

RxWay(x, f, p, l) == RxOut(x, Ahead(p, l)) \o InBanks(f)

LEMMA RxMapping ==
  /\ Rx!Astray = RxAstray(rx, rxEp, rxPc, local)
  /\ Rx!Link = RxUp(rx, rxEp, rxPc, local)
  /\ (Rx!Unread \o Rx!Exchangeable) \o Rx!Packets = RxWay(rx, fifo, rxPc, local)
<1>0. Rx!InStep = RxInStep(rx, rxEp, rxPc, local)
  BY DEF Rx!InStep, RxInStep, Rx!Other
<1>1. Rx!Astray = RxAstray(rx, rxEp, rxPc, local)
  BY <1>0 DEF Rx!Astray, Rx!Leftover, RxAstray, RxLeftover
<1>2. Rx!Link = RxUp(rx, rxEp, rxPc, local) BY <1>1 DEF Rx!Link, RxUp
<1>3. Rx!Unread = RxUnread(rx, Ahead(rxPc, local)) BY DEF Rx!Unread, RxUnread, Ahead
<1>4. Rx!Exchangeable = RxFilled(rx) BY DEF Rx!Exchangeable, RxFilled, Rx!Other
<1>5. Rx!Packets = InBanks(fifo) BY DEF Rx!Packets, Rx!Packet, InBanks, FifoBank
<1> QED BY <1>1, <1>2, <1>3, <1>4, <1>5 DEF RxWay, RxOut

LEMMA RxMappingNext ==
  /\ Rx!Astray' = RxAstray(rx', rxEp', rxPc', local')
  /\ Rx!Leftover' = RxLeftover(rx', rxEp')
  /\ Rx!Link' = RxUp(rx', rxEp', rxPc', local')
  /\ ((Rx!Unread \o Rx!Exchangeable) \o Rx!Packets)' = RxWay(rx', fifo', rxPc', local')
<1>0. Rx!InStep' = RxInStep(rx', rxEp', rxPc', local')
  BY DEF Rx!InStep, RxInStep, Rx!Other
<1>1. Rx!Leftover' = RxLeftover(rx', rxEp') BY DEF Rx!Leftover, RxLeftover
<1>2. Rx!Astray' = RxAstray(rx', rxEp', rxPc', local')
  BY <1>0, <1>1 DEF Rx!Astray, RxAstray
<1>3. Rx!Link' = RxUp(rx', rxEp', rxPc', local') BY <1>2 DEF Rx!Link, RxUp
<1>4. Rx!Unread' = RxUnread(rx', Ahead(rxPc', local')) BY DEF Rx!Unread, RxUnread, Ahead
<1>5. Rx!Exchangeable' = RxFilled(rx') BY DEF Rx!Exchangeable, RxFilled, Rx!Other
<1>6. Rx!Packets' = InBanks(fifo') BY DEF Rx!Packets, Rx!Packet, InBanks, FifoBank
<1> QED BY <1>1, <1>2, <1>3, <1>4, <1>5, <1>6 DEF RxWay, RxOut

-----------------------------------------------------------------------------
(* The inductive invariant of the receiving half.  What the thread found   *)
(* under its lock is outdated at its test by one reception at most, or     *)
(* passed tells so; and that one leaves it a buffer which has been read.   *)
Threads == [pos : Nat, sel : {0, 1}, nb : Nat, trans : {0, 1}]
RxCalls == [kind : {"getc", "read"}, left : Nat]

RxKnows ==
  /\ passed # 0 => rxPc \in {"test", "empty", "take", "store", "run"}
  /\ rxPc = "test" /\ passed # 2 =>
       \/ local.sel = rx.sel /\ local.pos = rx.pos
       \/ local.sel = 1 - rx.sel /\ local.pos >= rx.nb[local.sel] /\ passed = 1

RxBanks ==
  /\ fifo \in Seq(RxPackets) /\ Len(fifo) <= Banks
  /\ ~rxEp.enabled => fifo = <<>>

RxData ==
  /\ rxPc \in {"idle", "look", "test", "empty", "take", "store", "start", "run"}
  /\ local \in Threads /\ rxOp \in RxCalls
  /\ rxPc \in {"look", "test", "empty", "take"} => rxOp.left # 0
  /\ sent \in Nat /\ read \in Seq(Nat) /\ passed \in {0, 1, 2}

RxInv == RxGood(rx, rxEp) /\ RxBanks /\ RxData /\ RxKnows

RxSizes ==
  /\ RxBufSize \in Nat \ {0} /\ Banks \in {1, 2} /\ ReadSizes \subseteq Nat \ {0}

(* What StaysUp says of a step. *)
RxStays ==
  /\ RxUp(rx, rxEp, rxPc, local) \/ ~rxEp.enabled
       => \/ RxUp(rx', rxEp', rxPc', local')
          \/ ~rxEp'.enabled \/ rxEp'.halted \/ passed' = 2
  /\ ~RxAstray(rx, rxEp, rxPc, local)
       => \/ ~RxAstray(rx', rxEp', rxPc', local')
          \/ RxLeftover(rx', rxEp') \/ passed' = 2

(* A step in which the host sends nothing and the thread gets nothing: if  *)
(* the port is not astray, nothing is lost either while the link is up.    *)
RxMoves ==
  RxWay(rx', fifo', rxPc', local') # RxWay(rx, fifo, rxPc, local)
    => /\ ~(RxUp(rx, rxEp, rxPc, local) /\ RxUp(rx', rxEp', rxPc', local'))
       /\ RxWay(rx', fifo', rxPc', local')
            \in Rx!Stream!Remains(RxWay(rx, fifo, rxPc, local))

RxSteps ==
  /\ UNCHANGED <<sent, read>>
  /\ ~RxAstray(rx, rxEp, rxPc, local) => RxMoves

LEMMA RxWayTyped ==
  ASSUME NEW x, NEW e, RxTypes(x, e), NEW f \in Seq(RxPackets), NEW p, NEW l \in Threads
  PROVE  /\ Ahead(p, l) \in Nat
         /\ RxOut(x, Ahead(p, l)) \in Seq(Nat) /\ InBanks(f) \in Seq(Nat)
         /\ RxWay(x, f, p, l) \in Seq(Nat)
<1>1. Ahead(p, l) \in Nat BY DEF Threads, Ahead
<1>2. RxOut(x, Ahead(p, l)) \in Seq(Nat) BY <1>1, RxMem
<1>3. InBanks(f) \in Seq(Nat) BY PacketsAreSequences, BanksAreSequences
<1>4. RxWay(x, f, p, l) \in Seq(Nat) BY <1>2, <1>3, ConcatProperties DEF RxWay
<1> QED BY <1>1, <1>2, <1>3, <1>4

LEMMA RxParts ==
  ASSUME RxInv
  PROVE  /\ Ahead(rxPc, local) \in Nat
         /\ RxOut(rx, Ahead(rxPc, local)) \in Seq(Nat) /\ InBanks(fifo) \in Seq(Nat)
         /\ RxWay(rx, fifo, rxPc, local) \in Seq(Nat)
         /\ rx \in RxRecord /\ rxEp \in RxEndpoint /\ RxTypes(rx, rxEp)
<1>1. RxTypes(rx, rxEp) /\ rx \in RxRecord /\ rxEp \in RxEndpoint
  BY DEF RxInv, RxGood, RxTypes
<1>2. fifo \in Seq(RxPackets) /\ local \in Threads BY DEF RxInv, RxBanks, RxData
<1> QED BY <1>1, <1>2, RxWayTyped

LEMMA RxPartsNext ==
  ASSUME RxInv'
  PROVE  RxWay(rx', fifo', rxPc', local') \in Seq(Nat)
<1>1. RxTypes(rx', rxEp') BY DEF RxInv, RxGood
<1>2. fifo' \in Seq(RxPackets) /\ local' \in Threads BY DEF RxInv, RxBanks, RxData
<1> QED BY <1>1, <1>2, RxWayTyped

(* Whatever a step makes of the bytes of a port that is astray is allowed. *)
LEMMA RxStrays ==
  ASSUME RxInv', sent' = sent, Rx!Stream!IsPrefix(read, read'),
         RxAstray(rx, rxEp, rxPc, local) \/ RxAstray(rx', rxEp', rxPc', local')
  PROVE  Rx!Stream!Next
<1>1. RxWay(rx', fifo', rxPc', local') \in Seq(Nat) BY RxPartsNext
<1>2. Rx!Stream!Stray BY <1>1, RxMapping, RxMappingNext DEF Rx!Stream!Stray
<1>3. (rxPc # "idle")' \in BOOLEAN OBVIOUS
<1> QED BY <1>2, <1>3 DEF Rx!Stream!Next

LEMMA RxStepsImplement ==
  ASSUME RxInv, RxInv', RxSteps
  PROVE  Rx!Stream!Next
<1> USE RxMapping, RxMappingNext
<1> DEFINE up == RxUp(rx, rxEp, rxPc, local)
           up2 == RxUp(rx', rxEp', rxPc', local')
           astray == RxAstray(rx, rxEp, rxPc, local)
           astray2 == RxAstray(rx', rxEp', rxPc', local')
           w == RxWay(rx, fifo, rxPc, local)
           w2 == RxWay(rx', fifo', rxPc', local')
<1>0. (rxPc # "idle")' \in BOOLEAN OBVIOUS
<1>1. UNCHANGED <<sent, read>> BY DEF RxSteps
<1>2. w \in Rx!Stream!Remains(w) BY RxParts, NoneLost, SameRemains
<1>3. CASE astray \/ astray2
  <2>1. Rx!Stream!IsPrefix(read, read')
    <3>1. read \in Seq(Nat) /\ Len(read) \in Nat BY LenProperties DEF RxInv, RxData
    <3> QED BY <1>1, <3>1 DEF Rx!Stream!IsPrefix
  <2> QED BY <1>1, <1>3, <2>1, RxStrays
<1>4. CASE ~astray /\ ~astray2 /\ up /\ up2
  <2>1. w2 = w BY <1>4 DEF RxSteps, RxMoves
  <2>2. Rx!Stream!Ask BY <1>1, <1>4, <2>1 DEF Rx!Stream!Ask
  <2> QED BY <1>0, <2>2 DEF Rx!Stream!Next
<1>5. CASE ~astray /\ ~astray2 /\ ~(up /\ up2)
  <2>1. w2 \in Rx!Stream!Remains(w) BY <1>2, <1>5 DEF RxSteps, RxMoves
  <2>2. CASE ~up2
    <3>1. Rx!Stream!GoDown BY <1>1, <1>5, <2>1, <2>2 DEF Rx!Stream!GoDown
    <3> QED BY <1>0, <3>1 DEF Rx!Stream!Next
  <2>3. CASE ~up /\ up2
    <3>1. Rx!Stream!ComeUp BY <1>1, <1>5, <2>1, <2>3 DEF Rx!Stream!ComeUp
    <3> QED BY <1>0, <3>1 DEF Rx!Stream!Next
  <2> QED BY <1>5, <2>2, <2>3
<1> QED BY <1>3, <1>4, <1>5

(* Counts of zero leave nothing in the buffers. *)
LEMMA NothingFilled ==
  ASSUME NEW x, NEW e, RxTypes(x, e), x.nb[0] = 0, x.nb[1] = 0, NEW k \in Nat
  PROVE  RxOut(x, k) = <<>>
<1>1. /\ x.sel \in {0, 1} /\ 1 - x.sel \in {0, 1} /\ x.pos \in Nat
      /\ x.mem[x.sel] \in Seq(Nat) /\ x.mem[1 - x.sel] \in Seq(Nat)
  BY RxMem
<1>2. x.nb[x.sel] = 0 /\ x.nb[1 - x.sel] = 0 BY <1>1
<1>3. RxUnread(x, k) = <<>>
  <2> DEFINE i == x.pos + k + 1
             m == x.mem[x.sel]
  <2>1. i \in Int /\ 0 \in Int /\ 0 < i BY <1>1
  <2>2. 0 <= Len(m) BY <1>1, LenProperties
  <2> HIDE DEF i, m
  <2>3. SubSeq(m, i, 0) = <<>> BY <2>1, SubSeqEmpty, Zenon
  <2> QED BY <1>2, <2>3 DEF RxUnread, i, m
<1>4. RxFilled(x) = <<>>
  <2>1. SubSeq(x.mem[1 - x.sel], 1, 0) = <<>> BY SubSeqEmpty
  <2> QED BY <1>2, <2>1 DEF RxFilled
<1> QED BY <1>3, <1>4, EmptySeq, ConcatEmptySeq DEF RxOut

LEMMA RxInitGood ==
  ASSUME RxSizes, Rx!Init
  PROVE  RxInv /\ Rx!Stream!Init
<1> DEFINE m == [i \in 1 .. RxBufSize |-> 0]
<1>1. /\ rx.mem = [b \in {0, 1} |-> m] /\ rx.nb = [b \in {0, 1} |-> 0]
      /\ rx.sel = 0 /\ rx.pos = 0 /\ rx.ongoing = FALSE
      /\ rx = [mem |-> rx.mem, nb |-> rx.nb, sel |-> 0, pos |-> 0, ongoing |-> FALSE]
  BY DEF Rx!Init
<1>2. m \in Seq(Nat) /\ Len(m) = RxBufSize
  <2>1. m \in [1 .. RxBufSize -> Nat] /\ RxBufSize \in Nat BY DEF RxSizes
  <2> HIDE DEF m
  <2> QED BY <2>1
<1> HIDE DEF m
<1>3. rx \in RxRecord
  <2>1. rx.mem \in [{0, 1} -> Seq(Nat)] /\ rx.nb \in [{0, 1} -> Nat] BY <1>1, <1>2
  <2> QED BY <1>1, <2>1 DEF RxRecord
<1>4. /\ rxEp = [enabled |-> FALSE, halted |-> FALSE, irq |-> FALSE,
                 job |-> [on |-> FALSE, buf |-> 0, room |-> FALSE]]
      /\ fifo = <<>> /\ rxPc = "idle" /\ rxOp = [kind |-> "read", left |-> 0]
      /\ local = [pos |-> 0, sel |-> 0, nb |-> 0, trans |-> 0]
      /\ sent = 0 /\ read = <<>> /\ passed = 0
  BY DEF Rx!Init, Rx!NoTransfer, Rx!Unset
<1>5. rxEp \in RxEndpoint BY <1>4 DEF RxEndpoint, RxJob
<1>6. RxTypes(rx, rxEp) /\ rx.nb[0] = 0 /\ rx.nb[1] = 0
  BY <1>1, <1>2, <1>3, <1>5 DEF RxTypes, RxSizes
<1>7. RxGood(rx, rxEp) BY <1>4, <1>6 DEF RxGood
<1>8. <<>> \in Seq(Nat) /\ Len(<<>>) = 0 /\ <<>> \in Seq(RxPackets) OBVIOUS
<1>9. RxBanks BY <1>4, <1>8 DEF RxBanks, RxSizes
<1>a. RxData
  <2>1. local \in Threads BY <1>4 DEF Threads
  <2>2. rxOp \in RxCalls BY <1>4 DEF RxCalls
  <2> QED BY <1>4, <1>8, <2>1, <2>2 DEF RxData
<1>b. RxKnows BY <1>4 DEF RxKnows
<1>c. RxWay(rx, fifo, rxPc, local) = <<>>
  <2>1. Ahead(rxPc, local) = 0 BY <1>4 DEF Ahead
  <2>2. RxOut(rx, 0) = <<>> BY <1>6, NothingFilled
  <2>3. InBanks(fifo) = <<>> BY <1>4, EmptyBanks
  <2> QED BY <1>8, <2>1, <2>2, <2>3, ConcatEmptySeq DEF RxWay
<1>d. ~RxAstray(rx, rxEp, rxPc, local) /\ ~RxUp(rx, rxEp, rxPc, local)
  BY <1>4, <1>6 DEF RxUp, RxAstray, RxInStep, RxLeftover
<1>e. Rx!Stream!Init
  <2>1. (rxPc # "idle") \in BOOLEAN OBVIOUS
  <2> QED BY <1>4, <1>c, <1>d, <2>1, RxMapping DEF Rx!Stream!Init
<1> QED BY <1>7, <1>9, <1>a, <1>b, <1>e DEF RxInv

(* The endpoint is emptied and goes down, with a transfer aborted. *)
LEMMA RxEmptied ==
  ASSUME RxSizes, RxInv, UNCHANGED <<rx, rxPc, rxOp, local, sent, read, passed>>, fifo' = <<>>,
         rxEp' \in RxEndpoint, rxEp'.job = Rx!Aborted(rxEp.job),
         ~rxEp'.enabled \/ rxEp'.halted
  PROVE  RxInv' /\ RxSteps /\ RxStays
<1>1. rx \in RxRecord /\ rxEp \in RxEndpoint /\ RxTypes(rx, rxEp) BY RxParts
<1>2. /\ ~rxEp'.job.on /\ rxEp'.job.buf = rxEp.job.buf /\ rxEp'.job.room = rxEp.job.room
  BY <1>1 DEF Rx!Aborted, RxEndpoint, RxJob
<1>3. RxGood(rx', rxEp') BY <1>1, <1>2 DEF RxGood, RxTypes
<1>4. RxBanks' BY EmptySeq DEF RxBanks, RxSizes
<1>5. RxData' /\ RxKnows' BY DEF RxInv, RxData, RxKnows
<1>6. ~RxUp(rx', rxEp', rxPc', local') BY DEF RxUp
<1> DEFINE o == RxOut(rx, Ahead(rxPc, local))
           b == InBanks(fifo)
<1>7. o \in Seq(Nat) /\ b \in Seq(Nat) BY RxParts
<1>8. RxWay(rx', fifo', rxPc', local') = o \o <<>>
  <2>1. InBanks(fifo') = <<>> BY EmptyBanks
  <2> QED BY <2>1 DEF RxWay
<1>9. RxWay(rx, fifo, rxPc, local) = o \o b BY DEF RxWay
<1> HIDE DEF o, b
<1>a. (o \o b) \o <<>> = o \o b
  <2>1. o \o b \in Seq(Nat) BY <1>7, ConcatProperties
  <2> QED BY <2>1, ConcatEmptySeq
<1>b. o \o <<>> \in Rx!Stream!Remains((o \o b) \o <<>>)
  BY <1>7, EmptySeq, MiddleLost, SameRemains
<1>c. RxSteps BY <1>6, <1>8, <1>9, <1>a, <1>b DEF RxSteps, RxMoves
<1>d. RxInStep(rx, rxEp, rxPc, local) => RxInStep(rx', rxEp', rxPc', local')
  BY <1>2 DEF RxInStep
<1>e. RxStays BY <1>d DEF RxStays, RxAstray
<1> QED BY <1>3, <1>4, <1>5, <1>c, <1>e DEF RxInv

LEMMA RxDisableKept ==
  ASSUME RxSizes, RxInv, Rx!Disable
  PROVE  RxInv' /\ RxSteps /\ RxStays
<1>1. UNCHANGED <<rx, rxPc, rxOp, local, sent, read, passed>> /\ fifo' = <<>>
  BY DEF Rx!Disable, Rx!thread
<1>2. PICK keep \in BOOLEAN :
        rxEp' = [enabled |-> FALSE, halted |-> keep /\ rxEp.halted,
                 irq |-> keep /\ rxEp.irq, job |-> Rx!Aborted(rxEp.job)]
  BY DEF Rx!Disable
<1>3. rxEp \in RxEndpoint BY RxParts
<1>4. rxEp' \in RxEndpoint /\ ~rxEp'.enabled /\ rxEp'.job = Rx!Aborted(rxEp.job)
  <2> DEFINE h == keep /\ rxEp.halted
             i == keep /\ rxEp.irq
             j == Rx!Aborted(rxEp.job)
  <2>1. j \in RxJob BY <1>3 DEF Rx!Aborted, RxEndpoint, RxJob
  <2>2. h \in BOOLEAN /\ i \in BOOLEAN OBVIOUS
  <2>3. rxEp' = [enabled |-> FALSE, halted |-> h, irq |-> i, job |-> j] BY <1>2
  <2> HIDE DEF h, i, j
  <2>4. rxEp' \in RxEndpoint BY <2>1, <2>2, <2>3 DEF RxEndpoint
  <2>5. rxEp'.enabled = FALSE /\ rxEp'.job = j BY <2>3
  <2> QED BY <2>4, <2>5 DEF j
<1> QED BY <1>1, <1>4, RxEmptied

LEMMA RxHaltKept ==
  ASSUME RxSizes, RxInv, Rx!Halt
  PROVE  RxInv' /\ RxSteps /\ RxStays
<1>1. /\ UNCHANGED <<rx, rxPc, rxOp, local, sent, read, passed>> /\ fifo' = <<>>
      /\ rxEp' = [rxEp EXCEPT !.halted = TRUE, !.irq = TRUE, !.job = Rx!Aborted(@)]
  BY DEF Rx!Halt, Rx!thread
<1>2. rxEp \in RxEndpoint BY RxParts
<1>3. rxEp' \in RxEndpoint /\ rxEp'.halted /\ rxEp'.job = Rx!Aborted(rxEp.job)
  <2> DEFINE j == Rx!Aborted(rxEp.job)
  <2>1. j \in RxJob BY <1>2 DEF Rx!Aborted, RxEndpoint, RxJob
  <2>2. rxEp' = [rxEp EXCEPT !.halted = TRUE, !.irq = TRUE, !.job = j]
    BY <1>1, <1>2 DEF RxEndpoint
  <2> HIDE DEF j
  <2>3. rxEp' \in RxEndpoint /\ rxEp'.halted /\ rxEp'.job = j
    BY <1>2, <2>1, <2>2 DEF RxEndpoint
  <2> QED BY <2>3 DEF j
<1> QED BY <1>1, <1>3, RxEmptied

LEMMA RxClearHaltKept ==
  ASSUME RxSizes, RxInv, Rx!ClearHalt
  PROVE  RxInv' /\ RxSteps /\ RxStays
<1>1. /\ UNCHANGED <<rx, fifo, rxPc, rxOp, local, sent, read, passed>>
      /\ rxEp' = [rxEp EXCEPT !.halted = FALSE] /\ rxEp.enabled /\ rxEp.halted
  BY DEF Rx!ClearHalt, Rx!thread
<1>2. rx \in RxRecord /\ rxEp \in RxEndpoint /\ RxTypes(rx, rxEp) BY RxParts
<1>3. /\ rxEp' \in RxEndpoint /\ rxEp'.enabled /\ rxEp'.job = rxEp.job
      /\ rxEp'.irq = rxEp.irq
  BY <1>1, <1>2 DEF RxEndpoint
<1>4. ~rxEp.job.on BY <1>1 DEF RxInv, RxGood
<1>5. RxGood(rx', rxEp') BY <1>1, <1>2, <1>3, <1>4 DEF RxGood, RxTypes
<1>6. RxBanks' BY <1>1, <1>3 DEF RxInv, RxBanks
<1>7. RxData' /\ RxKnows' BY <1>1 DEF RxInv, RxData, RxKnows
<1>8. RxWay(rx', fifo', rxPc', local') = RxWay(rx, fifo, rxPc, local) BY <1>1
<1>9. RxSteps BY <1>1, <1>8 DEF RxSteps, RxMoves
<1>a. ~RxUp(rx, rxEp, rxPc, local) BY <1>1 DEF RxUp
<1>b. RxInStep(rx, rxEp, rxPc, local) => RxInStep(rx', rxEp', rxPc', local')
  BY <1>1, <1>3 DEF RxInStep
<1>c. RxStays BY <1>1, <1>3, <1>a, <1>b DEF RxStays, RxAstray, RxLeftover
<1> QED BY <1>5, <1>6, <1>7, <1>9, <1>c DEF RxInv

(* Enabling exchanges the buffers, and runs a transfer into the first      *)
(* unless the endpoint is halted.                                          *)
LEMMA RxEnableKept ==
  ASSUME RxSizes, RxInv, Rx!Enable
  PROVE  RxInv' /\ RxSteps /\ RxStays
<1> DEFINE x == Rx!Cleared(rx)
           e == [rxEp EXCEPT !.enabled = TRUE]
<1>1. /\ rx' = Rx!RxStart(x, e)[1] /\ rxEp' = Rx!RxStart(x, e)[2]
      /\ UNCHANGED <<fifo, rxPc, rxOp, local, sent, read>>
      /\ passed' = (IF rxPc \in {"test", "take", "store", "run"} THEN 2 ELSE passed)
      /\ ~rxEp.enabled
  BY DEF Rx!Enable, Rx!Becomes, Rx!thread, Rx!Reread
<1>2. rx \in RxRecord /\ rxEp \in RxEndpoint /\ RxTypes(rx, rxEp) BY RxParts
<1>3. /\ x \in RxRecord /\ x.mem = rx.mem /\ x.sel = 0 /\ x.pos = 0
      /\ x.ongoing = FALSE /\ x.nb[0] = 0 /\ x.nb[1] = rx.nb[1] /\ rx.nb[1] \in Nat
  <2> DEFINE n == [rx.nb EXCEPT ![0] = 0]
  <2>1. rx.nb \in [{0, 1} -> Nat] BY <1>2 DEF RxRecord
  <2>2. n \in [{0, 1} -> Nat] /\ n[0] = 0 /\ n[1] = rx.nb[1] /\ rx.nb[1] \in Nat BY <2>1
  <2>4. x = [rx EXCEPT !.ongoing = FALSE, !.sel = 0, !.nb = n, !.pos = 0]
    BY <1>2 DEF Rx!Cleared, RxRecord
  <2> HIDE DEF x, n
  <2>5. /\ x \in RxRecord /\ x.mem = rx.mem /\ x.sel = 0 /\ x.pos = 0
        /\ x.ongoing = FALSE /\ x.nb = n
    BY <1>2, <2>2, <2>4 DEF RxRecord
  <2> QED BY <2>2, <2>5
<1>4. ~rxEp.job.on BY <1>1 DEF RxInv, RxGood
<1>5. /\ e \in RxEndpoint /\ e.enabled /\ ~e.job.on /\ e.halted = rxEp.halted
      /\ e.job = rxEp.job
  BY <1>2, <1>4 DEF RxEndpoint
<1> HIDE DEF x, e
<1>6. RxTypes(x, e)
  <2>1. \A b \in {0, 1} : Len(x.mem[b]) = RxBufSize BY <1>2, <1>3 DEF RxTypes
  <2>2. \A b \in {0, 1} : x.nb[b] <= RxBufSize
    BY <1>2, <1>3 DEF RxTypes, RxSizes
  <2> QED BY <1>3, <1>5, <2>1, <2>2 DEF RxTypes
<1>7. Rx!MayStart(x) BY <1>3 DEF Rx!MayStart
<1>8. /\ RxGood(rx', rxEp')
      /\ rxEp'.enabled /\ rxEp'.halted = rxEp.halted
      /\ RxOut(rx', 0) = RxOut(x, 0) /\ rx'.ongoing
      /\ rx'.sel = 1 /\ rx'.nb = x.nb
      /\ IF rxEp.halted THEN rxEp' = e ELSE rxEp'.job.on /\ rxEp'.job.buf = 0
  <2>1. RxStarted(x, e, Rx!RxStart(x, e)[1], Rx!RxStart(x, e)[2])
    BY <1>5, <1>6, RxStartKeeps
  <2>2. RxStarted(x, e, rx', rxEp') BY <1>1, <2>1
  <2> QED BY <1>3, <1>5, <1>7, <2>2 DEF RxStarted
<1>a. fifo = <<>> BY <1>1 DEF RxInv, RxBanks
<1>b. RxBanks' BY <1>1, <1>8, <1>a DEF RxInv, RxBanks
<1>c. RxData'
  <2>1. passed' \in {0, 1, 2} BY <1>1 DEF RxInv, RxData
  <2> QED BY <1>1, <2>1 DEF RxInv, RxData
<1>d. RxKnows' BY <1>1 DEF RxInv, RxKnows
<1>e. RxInv' BY <1>8, <1>b, <1>c, <1>d DEF RxInv
<1>f. ~RxUp(rx, rxEp, rxPc, local) BY <1>1 DEF RxUp
<1>g. RxSteps
  <2>1. SUFFICES ASSUME ~RxAstray(rx, rxEp, rxPc, local) PROVE RxMoves
    BY <1>1 DEF RxSteps
  <2>2. rx.nb[1] = 0 BY <1>1, <1>3, <2>1 DEF RxAstray, RxLeftover
  <2>3. RxTypes(rx', rxEp') /\ rx'.nb[0] = 0 /\ rx'.nb[1] = 0
    BY <1>3, <1>8, <2>2 DEF RxGood
  <2>4. Ahead(rxPc', local') \in Nat BY <1>1, RxParts
  <2>5. RxOut(rx', Ahead(rxPc', local')) = <<>> BY <2>3, <2>4, NothingFilled
  <2>6. InBanks(fifo') = <<>> BY <1>1, <1>a, EmptyBanks
  <2>7. RxWay(rx', fifo', rxPc', local') = <<>>
    BY <2>5, <2>6, EmptySeq, ConcatEmptySeq DEF RxWay
  <2>8. <<>> \in Rx!Stream!Remains(RxWay(rx, fifo, rxPc, local))
    BY AllLost, SameRemains, RxParts
  <2> QED BY <1>f, <2>7, <2>8 DEF RxMoves
<1>h. CASE rxPc \in {"test", "take", "store", "run"}
  <2>1. passed' = 2 BY <1>1, <1>h
  <2>2. RxStays BY <2>1 DEF RxStays
  <2> QED BY <1>e, <1>g, <2>2
<1>i. CASE rxPc \notin {"test", "take", "store", "run"}
  <2>1. rxPc' \notin {"take", "store", "run"} BY <1>1, <1>i
  <2>2. CASE ~rxEp.halted
    <3>1. rxEp'.irq /\ rxEp'.job.on /\ rxEp'.job.buf = 0 /\ 1 - rx'.sel = 0
      BY <1>8, <2>2 DEF RxGood
    <3>2. RxInStep(rx', rxEp', rxPc', local') BY <1>8, <2>1, <3>1 DEF RxInStep
    <3>3. ~RxAstray(rx', rxEp', rxPc', local')
      BY <1>8, <3>2 DEF RxAstray, RxLeftover
    <3>4. RxUp(rx', rxEp', rxPc', local') BY <1>8, <2>2, <3>1, <3>3 DEF RxUp
    <3>5. RxStays BY <3>3, <3>4 DEF RxStays
    <3> QED BY <1>e, <1>g, <3>5
  <2>3. CASE rxEp.halted
    <3>1. rxEp' = e /\ rxEp'.halted BY <1>8, <2>3
    <3>2. SUFFICES ASSUME ~RxAstray(rx, rxEp, rxPc, local)
                   PROVE  ~RxAstray(rx', rxEp', rxPc', local')
      BY <1>e, <1>g, <3>1 DEF RxStays
    <3>3. rx.nb[1] = 0 BY <1>1, <1>3, <3>2 DEF RxAstray, RxLeftover
    <3>4. ~rxEp'.job.on /\ rx'.nb[rx'.sel] = 0 BY <1>3, <1>5, <1>8, <3>1, <3>3
    <3>5. RxInStep(rx', rxEp', rxPc', local') BY <1>8, <2>1, <3>4 DEF RxInStep
    <3> QED BY <1>8, <3>5 DEF RxAstray, RxLeftover
  <2> QED BY <2>2, <2>3
<1> QED BY <1>h, <1>i

(* The driver copies a packet over the beginning of a buffer.              *)
LEMMA PacketCopied ==
  ASSUME NEW old \in Seq(Nat), NEW packet \in Seq(Nat), Len(packet) <= Len(old)
  PROVE  LET bytes == Rx!Overwritten(old, packet)
         IN /\ bytes \in Seq(Nat) /\ Len(bytes) = Len(old)
            /\ SubSeq(bytes, 1, Len(packet)) = packet
            /\ Len(packet) = 0 => bytes = old
<1> DEFINE n == Len(packet)
           l == Len(old)
           i == n + 1
           t == SubSeq(old, i, l)
<1>1. n \in Nat /\ l \in Nat /\ n <= l /\ Rx!Overwritten(old, packet) = packet \o t
  BY LenProperties DEF Rx!Overwritten
<1>2. t \in Seq(Nat) /\ n + Len(t) = l
  <2> HIDE DEF n, l
  <2>1. i \in Nat \ {0} /\ i > 0 /\ l <= l /\ i <= l + 1 BY <1>1
  <2>2. l - i + 1 = l - n /\ (i > l => l = n) /\ n + (l - n) = l BY <1>1
  <2> HIDE DEF i
  <2>3. /\ SubSeq(old, i, l) \in Seq(Nat)
        /\ Len(SubSeq(old, i, l)) = IF i <= l THEN l - i + 1 ELSE 0
    <3>1. l <= Len(old) BY <2>1 DEF l
    <3> QED BY <1>1, <2>1, <3>1, RxSub
  <2>4. i <= l \/ (i > l) BY <1>1, <2>1
  <2>5. n + 0 = n BY <1>1
  <2> QED BY <1>1, <2>1, <2>2, <2>3, <2>4, <2>5
<1>3. n = 0 => packet \o t = old
  <2>1. SUFFICES ASSUME n = 0 PROVE packet \o t = old OBVIOUS
  <2>2. packet = <<>> BY <2>1, EmptySeq
  <2>3. i = 1 /\ SubSeq(old, 1, l) = old BY <2>1, SubSeqFull
  <2> QED BY <2>2, <2>3, ConcatEmptySeq
<1> HIDE DEF t
<1>4. /\ packet \o t \in Seq(Nat) /\ Len(packet \o t) = n + Len(t)
      /\ SubSeq(packet \o t, 1, n) = packet
  BY <1>2, ConcatProperties, SplitAgain
<1> QED BY <1>1, <1>2, <1>3, <1>4

(* The buffers after a packet has been copied into the b-th. *)
RxInto(x, b, packet) == [x EXCEPT !.mem[b] = Rx!Overwritten(@, packet)]

LEMMA RxCopied ==
  ASSUME NEW x, NEW e, RxTypes(x, e), NEW b \in {0, 1},
         NEW packet \in Seq(Nat), Len(packet) <= RxBufSize
  PROVE  LET y == RxInto(x, b, packet)
         IN /\ y \in RxRecord /\ y.sel = x.sel /\ y.pos = x.pos /\ y.nb = x.nb
            /\ y.ongoing = x.ongoing /\ RxTypes(y, e)
            /\ SubSeq(y.mem[b], 1, Len(packet)) = packet
            /\ \A c \in {0, 1} : c # b => y.mem[c] = x.mem[c]
            /\ Len(packet) = 0 => y = x
<1> DEFINE bytes == Rx!Overwritten(x.mem[b], packet)
           mem == [x.mem EXCEPT ![b] = bytes]
           y == RxInto(x, b, packet)
           n == Len(packet)
<1>1. /\ x \in RxRecord /\ e \in RxEndpoint /\ x.mem \in [{0, 1} -> Seq(Nat)]
      /\ \A c \in {0, 1} : Len(x.mem[c]) = RxBufSize /\ x.nb[c] <= RxBufSize
  BY DEF RxTypes, RxRecord
<1>2. /\ bytes \in Seq(Nat) /\ Len(bytes) = RxBufSize
      /\ SubSeq(bytes, 1, n) = packet /\ (n = 0 => bytes = x.mem[b])
  <2>1. x.mem[b] \in Seq(Nat) /\ Len(x.mem[b]) = RxBufSize BY <1>1
  <2> QED BY <2>1, PacketCopied
<1>3. y = [x EXCEPT !.mem = mem] BY <1>1 DEF RxRecord, RxInto
<1> HIDE DEF bytes, y, n
<1>4. /\ mem \in [{0, 1} -> Seq(Nat)] /\ mem[b] = bytes
      /\ \A c \in {0, 1} : c # b => mem[c] = x.mem[c]
      /\ bytes = x.mem[b] => mem = x.mem
  BY <1>1, <1>2
<1> HIDE DEF mem
<1>5. /\ y \in RxRecord /\ y.sel = x.sel /\ y.pos = x.pos /\ y.nb = x.nb
      /\ y.ongoing = x.ongoing /\ y.mem = mem /\ (mem = x.mem => y = x)
  BY <1>1, <1>3, <1>4 DEF RxRecord
<1>6. RxTypes(y, e)
  <2>1. \A c \in {0, 1} : Len(y.mem[c]) = RxBufSize BY <1>1, <1>2, <1>4, <1>5
  <2> QED BY <1>1, <1>5, <2>1 DEF RxTypes
<1> QED BY <1>2, <1>4, <1>5, <1>6 DEF y, n

(* A packet that comes with no transfer on is lost, and may be copied into *)
(* the buffer of the transfer that was aborted.                            *)
LEMMA RxSwallowsKept ==
  ASSUME RxSizes, RxInv, Rx!IsrSwallows
  PROVE  RxInv' /\ RxSteps /\ RxStays
<1> DEFINE b == rxEp.job.buf
           packet == Head(fifo)
           y == RxInto(rx, b, packet)
<1>1. /\ UNCHANGED <<rxPc, rxOp, local, sent, read, passed>>
      /\ rxEp.irq /\ ~rxEp.job.on /\ fifo # <<>> /\ fifo' = Tail(fifo)
      /\ rxEp' = [rxEp EXCEPT !.job = Rx!Finished(@), !.irq = FALSE]
      /\ rx' = IF rxEp.job.room THEN y ELSE rx
  BY DEF Rx!IsrSwallows, Rx!thread, RxInto
<1>2. rx \in RxRecord /\ rxEp \in RxEndpoint /\ RxTypes(rx, rxEp) BY RxParts
<1>3. b \in {0, 1} BY <1>2 DEF RxEndpoint, RxJob
<1>4. /\ rxEp' \in RxEndpoint /\ rxEp'.enabled = rxEp.enabled
      /\ rxEp'.halted = rxEp.halted /\ ~rxEp'.job.on /\ ~rxEp'.job.room
  <2> DEFINE j == Rx!Finished(rxEp.job)
  <2>1. j \in RxJob /\ j.on = FALSE /\ j.room = FALSE
    BY <1>2 DEF Rx!Finished, RxEndpoint, RxJob
  <2>2. rxEp' = [rxEp EXCEPT !.job = j, !.irq = FALSE] BY <1>1, <1>2 DEF RxEndpoint
  <2> HIDE DEF j
  <2>3. /\ rxEp' \in RxEndpoint /\ rxEp'.enabled = rxEp.enabled
        /\ rxEp'.halted = rxEp.halted /\ rxEp'.job = j
    BY <1>2, <2>1, <2>2 DEF RxEndpoint
  <2> QED BY <2>1, <2>3
<1>5. /\ packet \in Seq(Nat) /\ Len(packet) <= RxBufSize
      /\ Tail(fifo) \in Seq(RxPackets) /\ Len(Tail(fifo)) <= Banks
      /\ InBanks(Tail(fifo)) \in Seq(Nat)
      /\ InBanks(fifo) = packet \o InBanks(Tail(fifo))
  BY <1>1, PacketTaken DEF RxInv, RxBanks, RxSizes
<1>6. /\ y \in RxRecord /\ y.sel = rx.sel /\ y.pos = rx.pos /\ y.nb = rx.nb
      /\ y.ongoing = rx.ongoing /\ RxTypes(y, rxEp)
      /\ \A c \in {0, 1} : c # b => y.mem[c] = rx.mem[c]
  BY <1>2, <1>3, <1>5, RxCopied
<1> HIDE DEF y, packet
<1>7. /\ rx' \in RxRecord /\ rx'.sel = rx.sel /\ rx'.pos = rx.pos /\ rx'.nb = rx.nb
      /\ rx'.ongoing = rx.ongoing /\ RxTypes(rx', rxEp)
      /\ rx' = rx \/ (rxEp.job.room /\ \A c \in {0, 1} : c # b => rx'.mem[c] = rx.mem[c])
  BY <1>1, <1>2, <1>6
<1>8. RxGood(rx', rxEp') BY <1>4, <1>7 DEF RxGood, RxTypes
<1>9. RxBanks'
  <2>1. rxEp.enabled BY <1>1 DEF RxInv, RxBanks
  <2> QED BY <1>1, <1>4, <1>5, <2>1 DEF RxBanks
<1>a. RxData' /\ RxKnows' BY <1>1, <1>7 DEF RxInv, RxData, RxKnows
<1>b. ~RxUp(rx, rxEp, rxPc, local) BY <1>1 DEF RxUp
<1>c. ASSUME ~RxAstray(rx, rxEp, rxPc, local), NEW k \in Nat
      PROVE  RxOut(rx', k) = RxOut(rx, k)
  <2>1. CASE rx' = rx BY <2>1
  <2>2. CASE rx' # rx
    <3>1. rxEp.job.room /\ \A c \in {0, 1} : c # b => rx'.mem[c] = rx.mem[c]
      BY <1>7, <2>2
    <3>2. rx.ongoing /\ (b = 1 - rx.sel \/ rx.nb[rx.sel] = 0)
      BY <1>c, <3>1 DEF RxAstray, RxInStep
    <3>3. RxFilled(rx') = RxFilled(rx) BY <1>7, <3>2 DEF RxFilled
    <3>4. RxUnread(rx', k) = RxUnread(rx, k)
      <4>1. CASE b = 1 - rx.sel
        <5>1. rx.sel \in {0, 1} /\ rx.sel # b BY <1>2, <4>1 DEF RxRecord
        <5>2. rx'.mem[rx.sel] = rx.mem[rx.sel] BY <3>1, <5>1
        <5> QED BY <1>7, <5>2 DEF RxUnread
      <4>2. CASE rx.nb[rx.sel] = 0
        <5> DEFINE i == rx.pos + k + 1
        <5>1. i \in Int /\ 0 \in Int /\ 0 < i BY <1>2, <1>c DEF RxRecord
        <5> HIDE DEF i
        <5>2. SubSeq(rx.mem[rx.sel], i, 0) = <<>> /\ SubSeq(rx'.mem[rx.sel], i, 0) = <<>>
          BY <5>1, SubSeqEmpty, Zenon
        <5> QED BY <1>7, <4>2, <5>2 DEF RxUnread, i
      <4> QED BY <3>2, <4>1, <4>2
    <3> QED BY <3>3, <3>4 DEF RxOut
  <2> QED BY <2>1, <2>2
<1>d. RxSteps
  <2>1. SUFFICES ASSUME ~RxAstray(rx, rxEp, rxPc, local) PROVE RxMoves
    BY <1>1 DEF RxSteps
  <2> DEFINE o == RxOut(rx, Ahead(rxPc, local))
             h == packet
             t == InBanks(Tail(fifo))
  <2>2. o \in Seq(Nat) /\ h \in Seq(Nat) /\ t \in Seq(Nat) BY <1>5, RxParts
  <2>3. RxWay(rx, fifo, rxPc, local) = o \o (h \o t) BY <1>5 DEF RxWay
  <2>4. RxWay(rx', fifo', rxPc', local') = o \o t
    <3>1. Ahead(rxPc, local) \in Nat BY RxParts
    <3>2. RxOut(rx', Ahead(rxPc, local)) = o BY <1>c, <2>1, <3>1
    <3> QED BY <1>1, <3>2 DEF RxWay
  <2> HIDE DEF o, h, t
  <2>5. (o \o h) \o t = o \o (h \o t) BY <2>2, Regrouped
  <2>6. o \o t \in Rx!Stream!Remains((o \o h) \o t) BY <2>2, MiddleLost, SameRemains
  <2> QED BY <1>b, <2>3, <2>4, <2>5, <2>6 DEF RxMoves
<1>e. RxStays
  <2>1. rxEp.enabled BY <1>1 DEF RxInv, RxBanks
  <2>2. RxInStep(rx, rxEp, rxPc, local) => RxInStep(rx', rxEp', rxPc', local')
    BY <1>1, <1>4, <1>7 DEF RxInStep
  <2> QED BY <1>4, <1>b, <2>1, <2>2 DEF RxStays, RxAstray
<1> QED BY <1>8, <1>9, <1>a, <1>d, <1>e DEF RxInv

(* The host sends a packet, which only the endpoint sees. *)
LEMMA RxHostKept ==
  ASSUME RxSizes, RxInv, Rx!HostSend
  PROVE  RxInv' /\ Rx!Stream!Next /\ RxStays
<1>1. PICK n \in 0 .. RxBufSize :
        /\ fifo' = Append(fifo, [i \in 1 .. n |-> sent + i]) /\ sent' = sent + n
  BY DEF Rx!HostSend
<1>2. /\ UNCHANGED <<rx, rxEp, rxPc, rxOp, local, read, passed>>
      /\ rxEp.enabled /\ ~rxEp.halted /\ Len(fifo) < Banks
  BY DEF Rx!HostSend, Rx!thread
<1> DEFINE bytes == [i \in 1 .. n |-> sent + i]
<1>3. n \in Nat /\ n <= RxBufSize /\ sent \in Nat BY DEF RxSizes, RxInv, RxData
<1>4. bytes \in Seq(Nat) /\ Len(bytes) = n
  <2>1. \A i \in 1 .. n : sent + i \in Nat BY <1>3
  <2>2. bytes \in [1 .. n -> Nat] BY <2>1
  <2> HIDE DEF bytes
  <2> QED BY <1>3, <2>2
<1>5. /\ fifo \in Seq(RxPackets) /\ Len(fifo) \in Nat /\ Len(fifo) < 2
      /\ Len(fifo) + 1 <= Banks
  <2>1. fifo \in Seq(RxPackets) BY DEF RxInv, RxBanks
  <2>2. Len(fifo) \in Nat /\ Banks \in {1, 2} BY <2>1, LenProperties DEF RxSizes
  <2> DEFINE l == Len(fifo)
  <2>3. l \in Nat /\ l < Banks BY <1>2, <2>2
  <2> HIDE DEF l
  <2>4. l < 2 /\ l + 1 <= Banks BY <2>2, <2>3
  <2> QED BY <2>1, <2>2, <2>4 DEF l
<1> HIDE DEF bytes
<1>6. /\ fifo' \in Seq(RxPackets) /\ Len(fifo') = Len(fifo) + 1
      /\ InBanks(fifo') = InBanks(fifo) \o bytes
  <2>1. fifo' = Append(fifo, bytes) BY <1>1 DEF bytes
  <2>2. bytes \in RxPackets BY <1>3, <1>4 DEF RxPackets
  <2>3. fifo' \in Seq(RxPackets) BY <1>5, <2>1, <2>2, AppendedToOne
  <2>4. Len(fifo') = Len(fifo) + 1 /\ InBanks(fifo') = InBanks(fifo) \o bytes
    BY <1>4, <1>5, <2>1, PacketsAreSequences, LastBank
  <2> QED BY <2>3, <2>4
<1>7. RxBanks' BY <1>2, <1>5, <1>6 DEF RxBanks
<1>8. RxData' BY <1>1, <1>2, <1>3 DEF RxInv, RxData
<1>9. RxGood(rx', rxEp') /\ RxKnows' BY <1>2 DEF RxInv, RxKnows
<1>a. /\ RxUp(rx', rxEp', rxPc', local') = RxUp(rx, rxEp, rxPc, local)
      /\ RxAstray(rx', rxEp', rxPc', local') = RxAstray(rx, rxEp, rxPc, local)
  BY <1>2
<1>b. RxStays BY <1>2, <1>a DEF RxStays
<1>c. RxInv' BY <1>7, <1>8, <1>9 DEF RxInv
<1> DEFINE o == RxOut(rx, Ahead(rxPc, local))
           b == InBanks(fifo)
           w == RxWay(rx, fifo, rxPc, local)
<1>d. o \in Seq(Nat) /\ b \in Seq(Nat) /\ w \in Seq(Nat) BY RxParts
<1>e. RxWay(rx', fifo', rxPc', local') = o \o (b \o bytes) /\ w = o \o b
  BY <1>2, <1>6 DEF RxWay
<1> HIDE DEF o, b, w
<1>f. RxWay(rx', fifo', rxPc', local') = w \o bytes BY <1>4, <1>d, <1>e, Regrouped
<1>g. CASE n = 0
  <2>1. sent' = sent BY <1>1, <1>3, <1>g
  <2>2. bytes = <<>> BY <1>4, <1>g, EmptySeq
  <2>3. RxWay(rx', fifo', rxPc', local') = w BY <1>d, <1>f, <2>2, ConcatEmptySeq
  <2>4. RxSteps BY <1>2, <2>1, <2>3 DEF RxSteps, RxMoves, w
  <2> QED BY <1>b, <1>c, <2>4, RxStepsImplement
<1>h. CASE n # 0
  <2>1. sent' > sent /\ sent' - sent = n BY <1>1, <1>3, <1>h
  <2>2. Rx!Stream!Fresh(n) = bytes BY DEF Rx!Stream!Fresh, bytes
  <2>3. Rx!Stream!Put
    BY <1>2, <1>a, <1>f, <2>1, <2>2, RxMapping, RxMappingNext DEF Rx!Stream!Put, w
  <2>4. (rxPc # "idle")' \in BOOLEAN OBVIOUS
  <2>5. Rx!Stream!Next BY <2>3, <2>4 DEF Rx!Stream!Next
  <2> QED BY <1>b, <1>c, <2>5
<1> QED BY <1>g, <1>h

(* The thread's steps that neither take bytes nor touch the flags. *)
LEMMA RxLooksKept ==
  ASSUME RxSizes, RxInv, Rx!Call \/ Rx!Look \/ Rx!Test \/ Rx!Empty
  PROVE  RxInv' /\ RxSteps /\ RxStays
<1>1. /\ UNCHANGED <<rx, rxEp, fifo, sent, read>>
      /\ rxPc \in {"idle", "look", "test", "empty"}
      /\ rxPc' \in {"idle", "look", "test", "empty", "take"}
  BY DEF Rx!Call, Rx!Look, Rx!Test, Rx!Empty, Rx!thread
<1>2. rx \in RxRecord /\ rxEp \in RxEndpoint /\ RxTypes(rx, rxEp) BY RxParts
<1>3. rx.pos \in Nat /\ rx.sel \in {0, 1} /\ rx.nb \in [{0, 1} -> Nat]
  BY <1>2 DEF RxRecord
<1>4. local \in Threads /\ rxOp \in RxCalls /\ passed \in {0, 1, 2}
  BY DEF RxInv, RxData
<1>5. /\ rxOp' \in RxCalls /\ local' \in Threads
      /\ rxPc' \in {"look", "test", "empty", "take"} => rxOp'.left # 0
  <2>1. CASE Rx!Call
    <3>1. rxOp' \in Rx!Calls /\ UNCHANGED local BY <2>1 DEF Rx!Call
    <3>2. rxOp' \in RxCalls /\ rxOp'.left # 0
      <4>1. CASE rxOp' \in [kind : {"getc"}, left : {1, 2}] BY <4>1 DEF RxCalls
      <4>2. CASE rxOp' \in [kind : {"read"}, left : ReadSizes]
        BY <4>2 DEF RxSizes, RxCalls
      <4> QED BY <3>1, <4>1, <4>2 DEF Rx!Calls
    <3> QED BY <1>4, <3>1, <3>2
  <2>2. CASE Rx!Look
    <3>1. local' \in Threads BY <2>2, <1>3, <1>4 DEF Rx!Look, Threads
    <3> QED BY <2>2, <3>1 DEF Rx!Look, RxInv, RxData
  <2>3. CASE Rx!Test BY <2>3 DEF Rx!Test, RxInv, RxData
  <2>4. CASE Rx!Empty
    <3>1. local' \in Threads BY <2>4 DEF Rx!Empty, Rx!Unset, Threads
    <3> QED BY <2>4, <3>1 DEF Rx!Empty, RxInv, RxData
  <2> QED BY <2>1, <2>2, <2>3, <2>4
<1>6. /\ passed' \in {0, 1, 2}
      /\ passed' # 0 => rxPc' \in {"test", "empty", "take", "store", "run"}
  <2>1. CASE Rx!Call \/ Rx!Look
    <3>1. passed' = passed /\ rxPc \in {"idle", "look"} BY <2>1 DEF Rx!Call, Rx!Look
    <3>2. passed = 0 BY <3>1 DEF RxInv, RxKnows
    <3> QED BY <3>1, <3>2
  <2>2. CASE Rx!Test BY <1>4, <2>2 DEF Rx!Test
  <2>3. CASE Rx!Empty BY <2>3 DEF Rx!Empty
  <2> QED BY <2>1, <2>2, <2>3
<1>7. RxData' BY <1>1, <1>5, <1>6 DEF RxInv, RxData
<1>8. RxKnows'
  <2>1. CASE Rx!Call \/ Rx!Empty \/ Rx!Test
    <3>1. rxPc' # "test" BY <2>1 DEF Rx!Call, Rx!Empty, Rx!Test
    <3> QED BY <1>6, <3>1 DEF RxKnows
  <2>2. CASE Rx!Look
    <3>1. rxPc' = "test" /\ local'.pos = rx.pos /\ local'.sel = rx.sel
      BY <2>2, <1>4 DEF Rx!Look, Threads
    <3> QED BY <1>1, <1>6, <3>1 DEF RxKnows
  <2> QED BY <2>1, <2>2
<1>9. RxGood(rx', rxEp') /\ RxBanks' BY <1>1 DEF RxInv, RxBanks
<1>a. RxInv' BY <1>7, <1>8, <1>9 DEF RxInv
<1>b. RxWay(rx', fifo', rxPc', local') = RxWay(rx, fifo, rxPc, local)
  <2>1. Ahead(rxPc, local) = 0 /\ Ahead(rxPc', local') = 0 BY <1>1 DEF Ahead
  <2> QED BY <1>1, <2>1 DEF RxWay
<1>c. RxSteps BY <1>1, <1>b DEF RxSteps, RxMoves
(* What it takes for bytes still holds when it takes them. *)
<1>d. passed' = 2 \/ rxPc' # "take"
      \/ (local'.sel = rx.sel /\ local'.pos = rx.pos /\ rx.pos < rx.nb[rx.sel])
  <2>1. CASE Rx!Test
    <3>1. /\ UNCHANGED <<local, passed>> /\ rxPc = "test"
          /\ rxPc' = IF local.pos >= rx.nb[local.sel] THEN "empty" ELSE "take"
      BY <2>1 DEF Rx!Test
    <3>2. SUFFICES ASSUME passed # 2, rxPc' = "take"
                   PROVE  local.sel = rx.sel /\ local.pos = rx.pos /\ rx.pos < rx.nb[rx.sel]
      BY <3>1
    <3>3. ~(local.pos >= rx.nb[local.sel]) BY <3>1, <3>2
    <3>4. local.sel = rx.sel /\ local.pos = rx.pos
      BY <3>1, <3>2, <3>3 DEF RxInv, RxKnows
    <3>5. rx.nb[rx.sel] \in Nat BY <1>3
    <3> QED BY <1>3, <3>3, <3>4, <3>5
  <2>2. CASE Rx!Call \/ Rx!Look \/ Rx!Empty
    BY <2>2 DEF Rx!Call, Rx!Look, Rx!Empty
  <2> QED BY <2>1, <2>2
<1>e. passed' # 2 /\ RxInStep(rx, rxEp, rxPc, local)
        => RxInStep(rx', rxEp', rxPc', local')
  BY <1>1, <1>d DEF RxInStep
<1>f. passed' # 2 /\ RxUp(rx, rxEp, rxPc, local) => RxUp(rx', rxEp', rxPc', local')
  BY <1>1, <1>e DEF RxUp, RxAstray, RxLeftover
<1>g. RxStays BY <1>1, <1>e, <1>f DEF RxStays, RxAstray
<1> QED BY <1>a, <1>c, <1>g

LEMMA RxStoreKept ==
  ASSUME RxSizes, RxInv, Rx!StorePos
  PROVE  RxInv' /\ RxSteps /\ RxStays
<1>1. /\ UNCHANGED <<rxEp, fifo, rxOp, sent, read>> /\ passed' = 0
      /\ rxPc = "store" /\ rxPc' = "start" /\ local' = Rx!Unset
      /\ rx' = [rx EXCEPT !.pos = Rx!NewPos]
  BY DEF Rx!StorePos
<1>2. rx \in RxRecord /\ rxEp \in RxEndpoint /\ RxTypes(rx, rxEp) BY RxParts
<1>3. local \in Threads /\ local.nb \in Nat /\ local.pos \in Nat /\ rx.pos \in Nat
  BY <1>2 DEF RxInv, RxData, Threads, RxRecord
<1> DEFINE n == Rx!NewPos
<1>4. n \in Nat /\ (local.pos = rx.pos => n = rx.pos + local.nb)
  BY <1>3 DEF Rx!NewPos
<1> HIDE DEF n
<1>5. /\ rx' \in RxRecord /\ rx'.mem = rx.mem /\ rx'.nb = rx.nb /\ rx'.sel = rx.sel
      /\ rx'.ongoing = rx.ongoing /\ rx'.pos = n
  <2>1. rx' = [rx EXCEPT !.pos = n] BY <1>1 DEF n
  <2> QED BY <1>2, <1>4, <2>1 DEF RxRecord
<1>6. RxGood(rx', rxEp') BY <1>1, <1>5 DEF RxInv, RxGood, RxTypes
<1>7. RxBanks' BY <1>1 DEF RxInv, RxBanks
<1>8. RxData'
  <2>1. local' \in Threads BY <1>1 DEF Rx!Unset, Threads
  <2> QED BY <1>1, <2>1 DEF RxInv, RxData
<1>9. RxKnows' BY <1>1 DEF RxKnows
<1>b. RxSteps
  <2>1. SUFFICES ASSUME RxInStep(rx, rxEp, rxPc, local)
                 PROVE  RxWay(rx', fifo', rxPc', local') = RxWay(rx, fifo, rxPc, local)
    BY <1>1 DEF RxSteps, RxMoves, RxAstray
  <2>2. Ahead(rxPc, local) = local.nb /\ Ahead(rxPc', local') = 0 BY <1>1 DEF Ahead
  <2>3. local.pos = rx.pos BY <1>1, <2>1 DEF RxInStep
  <2>4. rx'.pos + 0 + 1 = rx.pos + local.nb + 1 BY <1>3, <1>4, <1>5, <2>3
  <2>5. RxUnread(rx', 0) = RxUnread(rx, local.nb) BY <1>5, <2>4 DEF RxUnread
  <2>6. RxFilled(rx') = RxFilled(rx) BY <1>5 DEF RxFilled
  <2> QED BY <1>1, <2>2, <2>5, <2>6 DEF RxWay, RxOut
<1>c. RxInStep(rx, rxEp, rxPc, local) => RxInStep(rx', rxEp', rxPc', local')
  BY <1>1, <1>5 DEF RxInStep
<1>d. RxLeftover(rx', rxEp') = RxLeftover(rx, rxEp) BY <1>1, <1>5 DEF RxLeftover
<1>e. RxUp(rx, rxEp, rxPc, local) => RxUp(rx', rxEp', rxPc', local')
  BY <1>1, <1>5, <1>c, <1>d DEF RxUp, RxAstray
<1>f. RxStays BY <1>1, <1>c, <1>d, <1>e DEF RxStays, RxAstray
<1> QED BY <1>6, <1>7, <1>8, <1>9, <1>b, <1>f DEF RxInv

(* The thread exchanges the buffers, and will run the transfer.            *)
LEMMA RxExchangeKept ==
  ASSUME RxSizes, RxInv, Rx!Start
  PROVE  RxInv' /\ RxSteps /\ RxStays
<1>1. /\ UNCHANGED <<rxEp, fifo, rxOp, sent, read, passed>> /\ rxPc = "start"
      /\ IF Rx!MayStart(rx)
         THEN rx' = Rx!Exchanged(rx) /\ local' = [local EXCEPT !.trans = rx.sel]
              /\ rxPc' = "run"
         ELSE rxPc' = Rx!AfterChunk /\ UNCHANGED <<rx, local>>
  BY DEF Rx!Start
<1>2. rx \in RxRecord /\ rxEp \in RxEndpoint /\ RxTypes(rx, rxEp) BY RxParts
<1>3. local \in Threads /\ passed = 0 BY <1>1 DEF RxInv, RxData, RxKnows
<1>4. RxBanks' BY <1>1 DEF RxInv, RxBanks
<1>5. Ahead(rxPc, local) = 0 /\ Ahead(rxPc', local') = 0
  BY <1>1 DEF Ahead, Rx!AfterChunk
<1>k. RxKnows' BY <1>1, <1>3 DEF RxKnows, Rx!AfterChunk
<1>6. CASE ~Rx!MayStart(rx)
  <2>1. UNCHANGED <<rx, local>> /\ rxPc' \in {"idle", "look"}
        /\ (rxPc' = "look" => rxOp.left # 0)
    BY <1>1, <1>6 DEF Rx!AfterChunk
  <2>2. RxGood(rx', rxEp') BY <1>1, <2>1 DEF RxInv
  <2>3. RxData' BY <1>1, <2>1 DEF RxInv, RxData
  <2>4. RxInStep(rx', rxEp', rxPc', local') = RxInStep(rx, rxEp, rxPc, local)
    BY <1>1, <2>1 DEF RxInStep
  <2>5. RxUp(rx', rxEp', rxPc', local') = RxUp(rx, rxEp, rxPc, local)
    BY <1>1, <2>1, <2>4 DEF RxUp, RxAstray
  <2>6. RxWay(rx', fifo', rxPc', local') = RxWay(rx, fifo, rxPc, local)
    BY <1>1, <1>5, <2>1 DEF RxWay
  <2>7. RxSteps BY <1>1, <2>6 DEF RxSteps, RxMoves
  <2>8. RxStays BY <1>1, <2>1, <2>4, <2>5 DEF RxStays, RxAstray
  <2> QED BY <1>4, <1>k, <2>2, <2>3, <2>7, <2>8 DEF RxInv
<1>7. CASE Rx!MayStart(rx)
  <2>1. /\ rx' \in RxRecord /\ rx'.mem = rx.mem /\ rx'.nb = rx.nb
        /\ rx'.sel = 1 - rx.sel /\ rx'.pos = 0 /\ rx'.ongoing = TRUE
        /\ RxOut(rx', 0) = RxOut(rx, 0)
    BY <1>1, <1>2, <1>7, ExchangeKeeps
  <2>2. /\ local' \in Threads /\ local'.trans = rx.sel
    BY <1>1, <1>2, <1>3, <1>7 DEF Threads, RxRecord
  <2>3. ~rx.ongoing BY <1>7 DEF Rx!MayStart
  <2>4. RxTypes(rx', rxEp') BY <1>1, <1>2, <2>1 DEF RxTypes
  <2>5. RxGood(rx', rxEp') BY <1>1, <2>4 DEF RxInv, RxGood
  <2>6. RxData' BY <1>1, <1>7, <2>2 DEF RxInv, RxData
  <2>7. 1 - (1 - rx.sel) = rx.sel BY <1>2 DEF RxRecord
  <2>8. RxInStep(rx, rxEp, rxPc, local) => RxInStep(rx', rxEp', rxPc', local')
    <3>1. SUFFICES ASSUME RxInStep(rx, rxEp, rxPc, local)
                   PROVE  RxInStep(rx', rxEp', rxPc', local')
      OBVIOUS
    <3>2. ~rxEp.job.room BY <2>3, <3>1 DEF RxInStep
    <3>3. ~rxEp.job.on BY <3>2 DEF RxInv, RxGood
    <3> QED BY <1>1, <1>7, <2>1, <2>2, <2>7, <3>2, <3>3 DEF RxInStep
  <2>9. RxLeftover(rx', rxEp') = RxLeftover(rx, rxEp) BY <1>1, <2>1 DEF RxLeftover
  <2>a. RxUp(rx, rxEp, rxPc, local) => RxUp(rx', rxEp', rxPc', local')
    BY <1>1, <1>7, <2>8, <2>9 DEF RxUp, RxAstray
  <2>b. RxWay(rx', fifo', rxPc', local') = RxWay(rx, fifo, rxPc, local)
    BY <1>1, <1>5, <2>1 DEF RxWay
  <2>c. RxSteps BY <1>1, <2>b DEF RxSteps, RxMoves
  <2>d. RxStays BY <1>1, <2>8, <2>9, <2>a DEF RxStays, RxAstray
  <2> QED BY <1>4, <1>k, <2>5, <2>6, <2>c, <2>d DEF RxInv
<1> QED BY <1>6, <1>7

LEMMA RxRunKept ==
  ASSUME RxSizes, RxInv, Rx!RunTransfer
  PROVE  RxInv' /\ RxSteps /\ RxStays
<1>1. /\ UNCHANGED <<rx, fifo, rxOp, sent, read>> /\ rxPc = "run"
      /\ rxEp' = Rx!Run(rxEp, local.trans)
      /\ rxPc' = Rx!AfterChunk /\ local' = Rx!Unset /\ passed' = 0
  BY DEF Rx!RunTransfer
<1>2. rx \in RxRecord /\ rxEp \in RxEndpoint /\ RxTypes(rx, rxEp) BY RxParts
<1>3. local.trans \in {0, 1} BY DEF RxInv, RxData, Threads
<1>4. \/ rxEp' = rxEp /\ ~(rxEp.enabled /\ ~rxEp.halted /\ ~rxEp.job.on)
      \/ /\ rxEp.enabled /\ ~rxEp.halted /\ ~rxEp.job.on
         /\ rxEp' \in RxEndpoint /\ rxEp'.enabled /\ ~rxEp'.halted
         /\ rxEp'.irq /\ rxEp'.job.on /\ rxEp'.job.room /\ rxEp'.job.buf = local.trans
  <2>1. CASE rxEp.enabled /\ ~rxEp.halted /\ ~rxEp.job.on
    BY <1>1, <1>2, <1>3, <2>1, RxRan
  <2>2. CASE ~(rxEp.enabled /\ ~rxEp.halted /\ ~rxEp.job.on)
    <3>1. rxEp' = rxEp BY <1>1, <2>2 DEF Rx!Run
    <3> QED BY <2>2, <3>1
  <2> QED BY <2>1, <2>2
<1>5. RxGood(rx', rxEp')
  <2>1. RxTypes(rx', rxEp') BY <1>1, <1>2, <1>4 DEF RxTypes
  <2> QED BY <1>4, <2>1 DEF RxInv, RxGood
<1>6. RxBanks' BY <1>1, <1>4 DEF RxInv, RxBanks
<1>7. rxPc' \in {"idle", "look"} /\ (rxPc' = "look" => rxOp.left # 0)
  BY <1>1 DEF Rx!AfterChunk
<1>8. RxData'
  <2>1. local' \in Threads BY <1>1 DEF Rx!Unset, Threads
  <2> QED BY <1>1, <1>7, <2>1 DEF RxInv, RxData
<1>9. RxKnows' BY <1>1, <1>7 DEF RxKnows
<1>a. RxWay(rx', fifo', rxPc', local') = RxWay(rx, fifo, rxPc, local)
  <2>1. Ahead(rxPc, local) = 0 /\ Ahead(rxPc', local') = 0 BY <1>1, <1>7 DEF Ahead
  <2> QED BY <1>1, <2>1 DEF RxWay
<1>b. RxSteps BY <1>1, <1>a DEF RxSteps, RxMoves
<1>c. RxInStep(rx, rxEp, rxPc, local) => RxInStep(rx', rxEp', rxPc', local')
  BY <1>1, <1>4, <1>7 DEF RxInStep
<1>d. RxLeftover(rx', rxEp') => RxLeftover(rx, rxEp) BY <1>1, <1>4 DEF RxLeftover
<1>e. RxUp(rx, rxEp, rxPc, local) => RxUp(rx', rxEp', rxPc', local')
  <2>1. SUFFICES ASSUME RxUp(rx, rxEp, rxPc, local)
                 PROVE  RxUp(rx', rxEp', rxPc', local')
    OBVIOUS
  <2>2. rxEp.enabled /\ ~rxEp.halted /\ ~rxEp.job.on
    BY <1>1, <2>1 DEF RxUp, RxAstray, RxInStep
  <2>3. rxEp'.enabled /\ ~rxEp'.halted /\ rxEp'.job.on BY <1>4, <2>2
  <2> QED BY <1>c, <1>d, <2>1, <2>3 DEF RxUp, RxAstray
<1>f. RxStays
  <2>1. rxEp'.enabled => rxEp.enabled BY <1>4
  <2> QED BY <1>c, <1>d, <1>e, <2>1 DEF RxStays, RxAstray
<1> QED BY <1>5, <1>6, <1>8, <1>9, <1>b, <1>f DEF RxInv

LEMMA Smaller ==
  ASSUME NEW a \in Nat, NEW b \in Nat
  PROVE  /\ Rx!Min({a, b}) \in {a, b}
         /\ Rx!Min({a, b}) <= a /\ Rx!Min({a, b}) <= b
<1> DEFINE S == {a, b}
<1>1. a <= b \/ b <= a OBVIOUS
<1>2. \E x \in S : \A y \in S : x <= y BY <1>1
<1> HIDE DEF S
<1>3. Rx!Min(S) \in S /\ \A y \in S : Rx!Min(S) <= y BY <1>2 DEF Rx!Min
<1> QED BY <1>3 DEF S

(* How many bytes are taken, and whatever they are. *)
LEMMA RxTaken ==
  ASSUME RxInv, Rx!Take
  PROVE  LET c == Rx!Chunk
             d == Rx!Copied(rx.mem[local.sel], local.pos, c)
         IN /\ c \in Nat /\ c <= rxOp.left
            /\ local.pos < rx.nb[local.sel]
                 => c # 0 /\ c <= rx.nb[local.sel] - local.pos
            /\ d \in Seq(Nat) /\ Len(d) = c
<1> DEFINE c == Rx!Chunk
           m == rx.mem[local.sel]
           top == rx.nb[local.sel]
           d == Rx!Copied(m, local.pos, c)
<1>1. /\ rx \in RxRecord /\ RxTypes(rx, rxEp) /\ local \in Threads /\ rxOp \in RxCalls
      /\ rxPc = "take"
  BY RxParts DEF RxInv, RxData, Rx!Take
<1>2. /\ rxOp.left \in Nat /\ rxOp.left # 0 /\ local.pos \in Nat /\ local.sel \in {0, 1}
  BY <1>1 DEF RxInv, RxData, RxCalls, Threads
<1>3. m \in Seq(Nat) /\ Len(m) = RxBufSize /\ top \in Nat
  BY <1>1, <1>2 DEF RxTypes, RxRecord
<1>4. /\ c \in Nat /\ c <= rxOp.left
      /\ local.pos < top => c # 0 /\ c <= top - local.pos
  <2>1. CASE rxOp.kind = "getc"
    <3>1. c = 1 BY <2>1 DEF Rx!Chunk
    <3> HIDE DEF c, top
    <3> QED BY <1>2, <1>3, <3>1
  <2>2. CASE rxOp.kind # "getc" /\ local.pos > top
    <3>1. c = rxOp.left BY <2>2 DEF Rx!Chunk
    <3> HIDE DEF c, top
    <3> QED BY <1>2, <1>3, <2>2, <3>1
  <2>3. CASE rxOp.kind # "getc" /\ ~(local.pos > top)
    <3> DEFINE u == top - local.pos
    <3>1. u \in Nat /\ (local.pos # top => u # 0)
      <4> HIDE DEF top
      <4> QED BY <1>2, <1>3, <2>3
    <3>2. c = Rx!Min({u, rxOp.left}) BY <2>3 DEF Rx!Chunk
    <3>3. c \in {u, rxOp.left} /\ c <= u /\ c <= rxOp.left
      <4> HIDE DEF c, u
      <4> QED BY <1>2, <3>1, <3>2, Smaller
    <3> HIDE DEF c, top
    <3> QED BY <1>2, <1>3, <3>1, <3>3
  <2> QED BY <2>1, <2>2, <2>3
<1> HIDE DEF c, m, top
<1>5. d \in Seq(Nat) /\ Len(d) = c
  <2>1. ASSUME NEW i \in 1 .. c
        PROVE  (IF local.pos + i \in 1 .. RxBufSize THEN m[local.pos + i] ELSE 0) \in Nat
    <3>1. CASE local.pos + i \in 1 .. RxBufSize
      <4>1. local.pos + i \in 1 .. Len(m) BY <1>3, <3>1
      <4>2. m[local.pos + i] \in Nat BY <1>3, <4>1, ElementOfSeq
      <4> QED BY <3>1, <4>2
    <3>2. CASE local.pos + i \notin 1 .. RxBufSize BY <3>2
    <3> QED BY <3>1, <3>2
  <2>2. d \in [1 .. c -> Nat] BY <2>1 DEF Rx!Copied
  <2> HIDE DEF d
  <2> QED BY <1>4, <2>2
<1> QED BY <1>4, <1>5 DEF c, m, top

(* The thread takes bytes: while it is in step, the next ones in turn.     *)
LEMMA RxTakeKept ==
  ASSUME RxSizes, RxInv, Rx!Take
  PROVE  RxInv' /\ Rx!Stream!Next /\ RxStays
<1> DEFINE c == Rx!Chunk
           m == rx.mem[rx.sel]
           top == rx.nb[rx.sel]
           got == Rx!Copied(rx.mem[local.sel], local.pos, c)
           d == SubSeq(m, rx.pos + 1, rx.pos + c)
           r == RxUnread(rx, c)
           k == RxFilled(rx)
           b == InBanks(fifo)
<1>1. /\ UNCHANGED <<rx, rxEp, fifo, sent, passed>> /\ rxPc = "take" /\ rxPc' = "store"
      /\ local' = [local EXCEPT !.nb = c]
      /\ read' = read \o got
      /\ rxOp' = [rxOp EXCEPT !.left = @ - c]
  BY DEF Rx!Take
<1>2. rx \in RxRecord /\ rxEp \in RxEndpoint /\ RxTypes(rx, rxEp) BY RxParts
<1>3. /\ local \in Threads /\ rxOp \in RxCalls /\ read \in Seq(Nat)
  BY <1>1 DEF RxInv, RxData
<1>4. /\ m \in Seq(Nat) /\ rx.pos \in Nat /\ top \in Nat /\ top <= Len(m)
      /\ k \in Seq(Nat) /\ b \in Seq(Nat) /\ Len(m) = RxBufSize /\ RxBufSize \in Nat
  <2>1. 0 \in Nat OBVIOUS
  <2>2. Len(m) = RxBufSize /\ RxBufSize \in Nat BY <1>2 DEF RxTypes, RxRecord, RxSizes
  <2> QED BY <1>2, <2>1, <2>2, RxMem, RxParts
<1>5. /\ c \in Nat /\ c <= rxOp.left /\ got \in Seq(Nat) /\ Len(got) = c
      /\ local.pos < rx.nb[local.sel] => c # 0 /\ c <= rx.nb[local.sel] - local.pos
  BY RxTaken
<1> HIDE DEF c, m, top, got
<1>6. local' \in Threads /\ local'.sel = local.sel /\ local'.pos = local.pos /\ local'.nb = c
  BY <1>1, <1>3, <1>5 DEF Threads
<1>7. rxOp' \in RxCalls
  <2> DEFINE n == rxOp.left - c
  <2>1. n \in Nat BY <1>3, <1>5 DEF RxCalls
  <2>2. rxOp' = [rxOp EXCEPT !.left = n] BY <1>1
  <2> HIDE DEF n
  <2> QED BY <1>3, <2>1, <2>2 DEF RxCalls
<1>8. RxData'
  <2>1. read' \in Seq(Nat) BY <1>1, <1>3, <1>5, ConcatProperties
  <2>2. sent' \in Nat /\ passed' \in {0, 1, 2} BY <1>1 DEF RxInv, RxData
  <2> QED BY <1>1, <1>6, <1>7, <2>1, <2>2 DEF RxData
<1>9. RxKnows' BY <1>1 DEF RxInv, RxKnows
<1>a. RxGood(rx', rxEp') /\ RxBanks' BY <1>1 DEF RxInv, RxBanks
<1>b. RxInv' BY <1>8, <1>9, <1>a DEF RxInv
<1>c. RxInStep(rx', rxEp', rxPc', local') = RxInStep(rx, rxEp, rxPc, local)
  BY <1>1, <1>6 DEF RxInStep
<1>d. /\ RxAstray(rx', rxEp', rxPc', local') = RxAstray(rx, rxEp, rxPc, local)
      /\ RxUp(rx', rxEp', rxPc', local') = RxUp(rx, rxEp, rxPc, local)
  BY <1>1, <1>c DEF RxUp, RxAstray
<1>e. RxStays BY <1>1, <1>d DEF RxStays
<1>f. CASE RxAstray(rx, rxEp, rxPc, local)
  <2>1. Rx!Stream!IsPrefix(read, read')
    <3>1. Len(read) \in Nat /\ Len(read \o got) = Len(read) + Len(got) /\ Len(got) \in Nat
      BY <1>3, <1>5, ConcatProperties, LenProperties
    <3>2. SubSeq(read \o got, 1, Len(read)) = read /\ SubSeq(read, 1, Len(read)) = read
      BY <1>3, <1>5, SplitAgain, SubSeqFull
    <3>3. Len(read) <= Len(read \o got) BY <3>1
    <3> QED BY <1>1, <3>2, <3>3 DEF Rx!Stream!IsPrefix
  <2> QED BY <1>1, <1>b, <1>e, <1>f, <2>1, RxStrays
<1>g. CASE ~RxAstray(rx, rxEp, rxPc, local)
  <2>1. local.sel = rx.sel /\ local.pos = rx.pos /\ rx.pos < top
    BY <1>1, <1>g DEF RxAstray, RxInStep, top
  <2>2. c \in Nat /\ c # 0 /\ c <= top - rx.pos BY <1>5, <2>1 DEF top
  <2>3. d \in Seq(Nat) /\ Len(d) = c
    <3> DEFINE i == rx.pos + 1
               n == rx.pos + c
    <3>1. /\ i \in Nat \ {0} /\ n \in Nat /\ i <= n /\ n - i + 1 = c
      <4> DEFINE p == rx.pos
      <4>1. p \in Nat /\ c \in Nat /\ c # 0 BY <1>4, <2>2
      <4> HIDE DEF p
      <4>2. /\ p + 1 \in Nat \ {0} /\ p + c \in Nat /\ p + 1 <= p + c
            /\ (p + c) - (p + 1) + 1 = c
        BY <4>1
      <4> QED BY <4>2 DEF p
    <3>2. n <= Len(m) BY <1>4, <2>2
    <3> HIDE DEF i, n
    <3>3. SubSeq(m, i, n) \in Seq(Nat) /\ Len(SubSeq(m, i, n)) = n - i + 1
      BY <1>4, <3>1, <3>2, RxSub
    <3> QED BY <3>1, <3>3 DEF i, n
  <2>4. got = d
    <3> DEFINE p == rx.pos
    <3>1. p \in Nat /\ p + c <= RxBufSize BY <1>4, <2>2
    <3>2. got = [i \in 1 .. c |-> IF p + i \in 1 .. RxBufSize THEN m[p + i] ELSE 0]
      BY <2>1 DEF got, Rx!Copied, m
    <3>3. d = [i \in 1 .. c |-> m[p + i]]
      <4>1. p + 1 \in Int /\ p + c \in Int /\ (p + c) - (p + 1) + 1 = c
        BY <2>2, <3>1
      <4>2. ASSUME NEW j \in p + 1 .. p + c PROVE m[j] \in Nat
        <5>1. j \in 1 .. Len(m) BY <1>4, <2>2, <3>1, <4>2
        <5> QED BY <1>4, <5>1, ElementOfSeq
      <4>3. /\ Len(SubSeq(m, p + 1, p + c)) \in Nat
            /\ \A i \in 1 .. (p + c) - (p + 1) + 1 :
                 SubSeq(m, p + 1, p + c)[i] = m[(p + 1) + i - 1]
        BY <4>1, <4>2, SubSeqProperties
      <4>4. ASSUME NEW i \in 1 .. c PROVE d[i] = m[p + i]
        <5>1. (p + 1) + i - 1 = p + i BY <3>1, <2>2
        <5> QED BY <4>1, <4>3, <5>1
      <4>5. d \in [1 .. c -> Nat]
        <5> HIDE DEF d
        <5> QED BY <2>2, <2>3, LenProperties
      <4> HIDE DEF p, d
      <4> QED BY <4>4, <4>5
    <3> HIDE DEF p, d
    <3>4. \A i \in 1 .. c : p + i \in 1 .. RxBufSize BY <1>4, <2>2, <3>1
    <3> QED BY <3>2, <3>3, <3>4
  <2>5. r \in Seq(Nat) BY <1>2, <2>2, RxMem
  <2>6. RxUnread(rx, 0) = d \o r
    <3> DEFINE i == rx.pos + 1
               n == rx.pos + c
    <3>1. /\ i \in 1 .. Len(m) + 1 /\ n \in i - 1 .. Len(m) /\ top \in n .. Len(m)
      <4> DEFINE p == rx.pos
                 l == Len(m)
      <4>1. l \in Nat BY <1>4, LenProperties
      <4>2. /\ p \in Nat /\ c \in Nat /\ c # 0 /\ top \in Nat /\ top <= l
            /\ c <= top - p
        BY <1>4, <2>2
      <4> HIDE DEF p, l
      <4>3. /\ p + 1 \in 1 .. l + 1 /\ p + c \in (p + 1) - 1 .. l /\ top \in p + c .. l
        BY <4>1, <4>2
      <4> QED BY <4>3 DEF p, l
    <3>2. rx.pos + 0 + 1 = i /\ rx.pos + c + 1 = n + 1 BY <1>4, <2>2
    <3>3. RxUnread(rx, 0) = SubSeq(m, i, top) /\ r = SubSeq(m, n + 1, top) /\ d = SubSeq(m, i, n)
      BY <3>2 DEF RxUnread, m, top
    <3> HIDE DEF i, n, d, r
    <3>4. SubSeq(m, i, n) \o SubSeq(m, n + 1, top) = SubSeq(m, i, top)
      BY <1>4, <3>1, ConcatAdjacentSubSeq, Zenon
    <3> QED BY <3>3, <3>4
  <2>7. RxWay(rx, fifo, rxPc, local) = ((d \o r) \o k) \o b
    <3>1. Ahead(rxPc, local) = 0 BY <1>1 DEF Ahead
    <3> QED BY <2>6, <3>1 DEF RxWay, RxOut
  <2>8. RxWay(rx', fifo', rxPc', local') = (r \o k) \o b
    <3>1. Ahead(rxPc', local') = c BY <1>1, <1>6 DEF Ahead
    <3> QED BY <1>1, <3>1 DEF RxWay, RxOut
  <2> DEFINE q == (r \o k) \o b
             w == RxWay(rx, fifo, rxPc, local)
  <2> HIDE DEF d, r, k, b
  <2>9. w = d \o q /\ q \in Seq(Nat) /\ w \in Seq(Nat)
    <3>0. d \in Seq(Nat) /\ r \in Seq(Nat) /\ k \in Seq(Nat) /\ b \in Seq(Nat)
      BY <1>4, <2>3, <2>5
    <3>1. r \o k \in Seq(Nat) /\ q \in Seq(Nat) BY <3>0, ConcatProperties
    <3>2. (d \o r) \o k = d \o (r \o k) BY <3>0, Regrouped
    <3> DEFINE z == r \o k
    <3>3. z \in Seq(Nat) /\ ((d \o r) \o k) \o b = (d \o z) \o b /\ q = z \o b BY <3>1, <3>2
    <3> HIDE DEF z, q
    <3>4. (d \o z) \o b = d \o (z \o b) BY <3>0, <3>3, Regrouped
    <3>5. w = d \o q BY <2>7, <3>3, <3>4
    <3> HIDE DEF q, w
    <3> QED BY <2>3, <3>1, <3>5, ConcatProperties
  <2> HIDE DEF q, w
  <2>a. SubSeq(w, 1, c) = d /\ SubSeq(w, c + 1, Len(w)) = q /\ c \in 1 .. Len(w)
    <3>1. SubSeq(w, 1, Len(d)) = d /\ SubSeq(w, Len(d) + 1, Len(w)) = q
      BY <2>3, <2>9, SplitAgain
    <3>2. Len(w) = c + Len(q) /\ Len(q) \in Nat
      BY <2>3, <2>9, ConcatProperties, LenProperties
    <3>3. c \in 1 .. Len(w) BY <2>2, <3>2
    <3> QED BY <2>3, <3>1, <3>3
  <2>b. Rx!Stream!Arrive
    <3>1. /\ read' = read \o SubSeq(w, 1, c)
          /\ RxWay(rx', fifo', rxPc', local') = SubSeq(w, c + 1, Len(w))
      BY <1>1, <2>4, <2>8, <2>a DEF q
    <3> QED BY <1>1, <1>d, <2>a, <3>1, RxMapping, RxMappingNext DEF Rx!Stream!Arrive, w
  <2>c. (rxPc # "idle")' \in BOOLEAN OBVIOUS
  <2>d. Rx!Stream!Next BY <2>b, <2>c DEF Rx!Stream!Next
  <2> QED BY <1>b, <1>e, <2>d
<1> QED BY <1>f, <1>g

(* What the interrupt routine finds, and the history of the thread's test. *)
LEMMA RxPassed ==
  ASSUME RxInv, NEW n \in Nat
  PROVE  /\ Rx!Passed(n) \in {0, 1, 2}
         /\ rxPc # "test" \/ n = 0 => Rx!Passed(n) = passed
         /\ rxPc = "test" /\ n # 0 => \/ passed = 0 /\ Rx!Passed(n) = 1
                                      \/ Rx!Passed(n) = 2
<1>1. passed \in {0, 1, 2} BY DEF RxInv, RxData
<1>2. CASE rxPc = "test" /\ n > 0
  <2> DEFINE q == Rx!Min({passed + 1, 2})
  <2>1. q \in {passed + 1, 2} /\ q <= passed + 1 /\ q <= 2
    <3>1. passed + 1 \in Nat /\ 2 \in Nat BY <1>1
    <3> HIDE DEF q
    <3> QED BY <3>1, Smaller DEF q
  <2>2. Rx!Passed(n) = q BY <1>2 DEF Rx!Passed
  <2> HIDE DEF q
  <2> QED BY <1>1, <1>2, <2>1, <2>2
<1>3. CASE ~(rxPc = "test" /\ n > 0)
  <2>1. Rx!Passed(n) = passed BY <1>3 DEF Rx!Passed
  <2> QED BY <1>1, <1>3, <2>1
<1> QED BY <1>2, <1>3

(* A packet of n bytes ends the transfer into its buffer: an empty one has *)
(* the transfer run again, and after any other one the buffers are         *)
(* exchanged, if the thread has read the selected one.                     *)
LEMMA RxReceivedKept ==
  ASSUME RxSizes, RxInv, Rx!IsrReceived
  PROVE  RxInv' /\ RxSteps /\ RxStays
<1> DEFINE packet == Head(fifo)
           rest == InBanks(Tail(fifo))
           n == Len(packet)
           b == rxEp.job.buf
           o == 1 - rx.sel
           y == RxInto(rx, b, packet)
           e == [rxEp EXCEPT !.job = Rx!Finished(@), !.irq = FALSE]
           k == Ahead(rxPc, local)
<1>1. /\ UNCHANGED <<rxPc, rxOp, local, sent, read>>
      /\ rxEp.irq /\ rxEp.job.on /\ fifo # <<>> /\ fifo' = Tail(fifo)
      /\ passed' = Rx!Passed(n)
      /\ rx' = Rx!Received(y, e, n)[1] /\ rxEp' = Rx!Received(y, e, n)[2]
  BY DEF Rx!IsrReceived, Rx!Becomes, Rx!thread, RxInto
<1>2. rx \in RxRecord /\ rxEp \in RxEndpoint /\ RxTypes(rx, rxEp) BY RxParts
<1>3. rxEp.enabled /\ ~rxEp.halted /\ rxEp.job.room /\ b \in {0, 1}
  BY <1>1, <1>2 DEF RxInv, RxGood, RxEndpoint, RxJob
<1>4. /\ packet \in Seq(Nat) /\ n <= RxBufSize
      /\ Tail(fifo) \in Seq(RxPackets) /\ Len(Tail(fifo)) <= Banks
      /\ rest \in Seq(Nat) /\ InBanks(fifo) = packet \o rest
  BY <1>1, PacketTaken DEF RxInv, RxBanks, RxSizes
<1>5. /\ e \in RxEndpoint /\ e.enabled /\ ~e.halted /\ ~e.irq
      /\ ~e.job.on /\ ~e.job.room
  <2> DEFINE j == Rx!Finished(rxEp.job)
  <2>1. j \in RxJob /\ j.on = FALSE /\ j.room = FALSE
    BY <1>2 DEF Rx!Finished, RxEndpoint, RxJob
  <2>2. e = [rxEp EXCEPT !.job = j, !.irq = FALSE] BY <1>2 DEF RxEndpoint
  <2> HIDE DEF j, e
  <2> QED BY <1>2, <1>3, <2>1, <2>2 DEF RxEndpoint
<1> HIDE DEF e, b
<1>6. /\ y \in RxRecord /\ y.sel = rx.sel /\ y.pos = rx.pos /\ y.nb = rx.nb
      /\ y.ongoing = rx.ongoing /\ RxTypes(y, e)
      /\ SubSeq(y.mem[b], 1, n) = packet
      /\ \A c \in {0, 1} : c # b => y.mem[c] = rx.mem[c]
      /\ n = 0 => y = rx
  <2>1. RxTypes(rx, e) BY <1>2, <1>5 DEF RxTypes
  <2> QED BY <1>3, <1>4, <2>1, RxCopied
<1> HIDE DEF y
<1>7. /\ o \in {0, 1} /\ rx.sel \in {0, 1} /\ o # rx.sel /\ 1 - o = rx.sel
      /\ k \in Nat /\ RxUnread(rx, k) \in Seq(Nat) /\ n \in Nat
      /\ rx.pos \in Nat /\ rx.nb[rx.sel] \in Nat
  BY <1>2, <1>4, RxParts, RxMem, LenProperties
<1> HIDE DEF n, packet, o, rest
<1>8. /\ passed' \in {0, 1, 2}
      /\ rxPc # "test" \/ n = 0 => passed' = passed
      /\ rxPc = "test" /\ n # 0 => (passed = 0 /\ passed' = 1) \/ passed' = 2
  BY <1>1, <1>7, RxPassed
<1>9. RxData' BY <1>1, <1>8 DEF RxInv, RxData
<1>a. rxEp'.enabled /\ ~rxEp'.halted => RxBanks' /\ ~RxLeftover(rx', rxEp')
  BY <1>1, <1>4 DEF RxBanks, RxLeftover
<1>b. ~RxAstray(rx, rxEp, rxPc, local) =>
        /\ RxInStep(rx, rxEp, rxPc, local) /\ rx.ongoing /\ b = o /\ rxPc # "run"
  BY <1>1, <1>3 DEF RxAstray, RxInStep, b, o
(* An empty packet. *)
<1>c. CASE n = 0
  <2>1. rx' = rx /\ rxEp' = Rx!Run(e, o)
    BY <1>1, <1>6, <1>c DEF Rx!Received, Rx!Other, o
  <2>2. /\ rxEp' \in RxEndpoint /\ rxEp'.enabled /\ ~rxEp'.halted
        /\ rxEp'.irq /\ rxEp'.job.on /\ rxEp'.job.room /\ rxEp'.job.buf = o
    BY <1>5, <1>7, <2>1, RxRan
  <2>3. RxGood(rx', rxEp') BY <1>2, <2>1, <2>2 DEF RxGood, RxTypes
  <2>4. RxKnows' BY <1>1, <1>8, <1>c, <2>1 DEF RxInv, RxKnows
  <2>5. RxInv' BY <1>9, <1>a, <2>2, <2>3, <2>4 DEF RxInv
  <2>6. RxWay(rx', fifo', rxPc', local') = RxWay(rx, fifo, rxPc, local)
    <3>1. packet = <<>> BY <1>4, <1>c, EmptySeq DEF n
    <3>2. packet \o rest = rest BY <1>4, <3>1, ConcatEmptySeq
    <3>3. InBanks(fifo') = InBanks(fifo) BY <1>1, <1>4, <3>2 DEF rest
    <3> QED BY <1>1, <2>1, <3>3 DEF RxWay
  <2>7. RxSteps BY <1>1, <2>6 DEF RxSteps, RxMoves
  <2>8. ASSUME ~RxAstray(rx, rxEp, rxPc, local)
        PROVE  ~RxAstray(rx', rxEp', rxPc', local') /\ RxUp(rx', rxEp', rxPc', local')
    <3>1. RxInStep(rx', rxEp', rxPc', local')
      BY <1>1, <1>b, <2>1, <2>2, <2>8 DEF RxInStep, o
    <3>2. ~RxAstray(rx', rxEp', rxPc', local') BY <1>a, <2>2, <3>1 DEF RxAstray
    <3> QED BY <2>2, <3>2 DEF RxUp
  <2>9. RxStays BY <1>3, <2>8 DEF RxStays, RxUp
  <2> QED BY <2>5, <2>7, <2>9
(* Any other one. *)
<1>d. CASE n # 0
  <2> DEFINE x == [y EXCEPT !.nb[Rx!Other(y.sel)] = n, !.ongoing = FALSE]
  <2>1. Rx!Received(y, e, n) = Rx!RxStart(x, e) BY <1>d DEF Rx!Received
  <2>2. /\ x \in RxRecord /\ x.mem = y.mem /\ x.sel = rx.sel /\ x.pos = rx.pos
        /\ x.ongoing = FALSE /\ x.nb[o] = n /\ x.nb[rx.sel] = rx.nb[rx.sel]
        /\ \A c \in {0, 1} : x.nb[c] \in {n, rx.nb[c]}
    <3> DEFINE nb == [y.nb EXCEPT ![o] = n]
    <3>1. x = [y EXCEPT !.nb = nb, !.ongoing = FALSE]
      BY <1>6 DEF RxRecord, Rx!Other, o
    <3>2. y.nb \in [{0, 1} -> Nat] BY <1>6 DEF RxRecord
    <3>3. /\ nb \in [{0, 1} -> Nat] /\ nb[o] = n /\ nb[rx.sel] = y.nb[rx.sel]
          /\ \A c \in {0, 1} : nb[c] \in {n, y.nb[c]}
      BY <1>7, <3>2
    <3> HIDE DEF x, nb
    <3>4. /\ x \in RxRecord /\ x.mem = y.mem /\ x.sel = y.sel /\ x.pos = y.pos
          /\ x.ongoing = FALSE /\ x.nb = nb
      BY <1>6, <3>1, <3>3 DEF RxRecord
    <3> QED BY <1>6, <3>3, <3>4
  <2> HIDE DEF x
  <2>3. RxTypes(x, e)
    <3>1. \A c \in {0, 1} : x.nb[c] <= RxBufSize BY <1>2, <1>4, <2>2 DEF RxTypes, n
    <3>2. \A c \in {0, 1} : Len(x.mem[c]) = RxBufSize BY <1>6, <2>2 DEF RxTypes
    <3> QED BY <1>5, <2>2, <3>1, <3>2 DEF RxTypes
  <2>4. /\ RxGood(rx', rxEp')
        /\ rxEp'.enabled /\ ~rxEp'.halted
        /\ IF Rx!MayStart(x)
           THEN /\ RxOut(rx', 0) = RxOut(x, 0) /\ rx'.sel = o
                /\ rx'.nb = x.nb /\ rx'.ongoing
                /\ rxEp'.job.on /\ rxEp'.job.buf = rx.sel
           ELSE rx' = x /\ rxEp' = e
    <3>1. rx' = Rx!RxStart(x, e)[1] /\ rxEp' = Rx!RxStart(x, e)[2] BY <1>1, <2>1
    <3>2. RxStarted(x, e, Rx!RxStart(x, e)[1], Rx!RxStart(x, e)[2])
      BY <1>5, <2>3, RxStartKeeps
    <3>3. RxStarted(x, e, rx', rxEp') BY <3>1, <3>2
    <3> QED BY <1>5, <2>2, <3>3 DEF RxStarted, o
  <2>5. Rx!MayStart(x) <=> rx.pos >= rx.nb[rx.sel] BY <2>2 DEF Rx!MayStart
  <2>6. RxKnows'
    <3>1. passed' # 0 => rxPc' \in {"test", "empty", "take", "store", "run"}
      BY <1>1, <1>8 DEF RxInv, RxKnows
    <3>2. SUFFICES ASSUME rxPc = "test", passed' # 2
                   PROVE  \/ local.sel = rx'.sel /\ local.pos = rx'.pos
                          \/ /\ local.sel = 1 - rx'.sel
                             /\ local.pos >= rx'.nb[local.sel] /\ passed' = 1
      BY <1>1, <3>1 DEF RxKnows
    <3>3. passed = 0 /\ passed' = 1 BY <1>8, <1>d, <3>2
    <3>4. local.sel = rx.sel /\ local.pos = rx.pos BY <3>2, <3>3 DEF RxInv, RxKnows
    <3>5. CASE ~Rx!MayStart(x) BY <2>2, <2>4, <3>4, <3>5
    <3>6. CASE Rx!MayStart(x)
      BY <1>7, <2>2, <2>4, <2>5, <3>3, <3>4, <3>6
    <3> QED BY <3>5, <3>6
  <2>7. RxInv' BY <1>9, <1>a, <2>4, <2>6 DEF RxInv
  <2>8. CASE RxAstray(rx, rxEp, rxPc, local)
    <3>1. RxSteps BY <1>1, <2>8 DEF RxSteps
    <3>2. RxStays BY <1>3, <2>8 DEF RxStays, RxUp
    <3> QED BY <2>7, <3>1, <3>2
  <2>9. CASE ~RxAstray(rx, rxEp, rxPc, local)
    <3>1. RxInStep(rx, rxEp, rxPc, local) /\ rx.ongoing /\ b = o /\ rxPc # "run"
      BY <1>b, <2>9
    <3>2. Rx!MayStart(x) => rxPc \notin {"take", "store"}
      BY <1>7, <2>5, <3>1 DEF RxInStep
    <3>3. RxOut(rx', k) = RxOut(x, k)
      <4>1. CASE ~Rx!MayStart(x) BY <2>4, <4>1
      <4>2. CASE Rx!MayStart(x)
        <5>1. k = 0 BY <3>2, <4>2 DEF Ahead
        <5> QED BY <2>4, <4>2, <5>1
      <4> QED BY <4>1, <4>2
    <3>4. RxOut(x, k) = RxUnread(rx, k) \o packet
      <4>1. x.mem[rx.sel] = rx.mem[rx.sel] BY <1>6, <1>7, <2>2, <3>1
      <4>2. RxUnread(x, k) = RxUnread(rx, k) BY <2>2, <4>1 DEF RxUnread
      <4>3. RxFilled(x) = packet BY <1>6, <2>2, <3>1 DEF RxFilled, o
      <4> QED BY <4>2, <4>3 DEF RxOut
    <3>5. RxWay(rx', fifo', rxPc', local') = (RxUnread(rx, k) \o packet) \o rest
      BY <1>1, <3>3, <3>4 DEF RxWay, rest
    <3>6. RxWay(rx, fifo, rxPc, local) = (RxUnread(rx, k) \o <<>>) \o (packet \o rest)
      BY <1>4, <3>1 DEF RxWay, RxOut, RxFilled
    <3>7. RxWay(rx', fifo', rxPc', local') = RxWay(rx, fifo, rxPc, local)
      <4> DEFINE f == RxUnread(rx, k)
      <4>1. f \in Seq(Nat) BY <1>7
      <4> HIDE DEF f
      <4>2. f \o <<>> = f BY <4>1, ConcatEmptySeq
      <4>3. (f \o packet) \o rest = f \o (packet \o rest) BY <1>4, <4>1, Regrouped
      <4> QED BY <3>5, <3>6, <4>2, <4>3 DEF f
    <3>8. RxSteps BY <1>1, <3>7 DEF RxSteps, RxMoves
    <3>9. RxInStep(rx', rxEp', rxPc', local')
      <4>1. CASE Rx!MayStart(x)
        BY <1>1, <1>7, <2>4, <3>1, <3>2, <4>1 DEF RxInStep
      <4>2. CASE ~Rx!MayStart(x)
        BY <1>1, <1>5, <2>2, <2>4, <3>1, <4>2 DEF RxInStep
      <4> QED BY <4>1, <4>2
    <3>a. ~RxAstray(rx', rxEp', rxPc', local') BY <1>a, <2>4, <3>9 DEF RxAstray
    <3>b. RxUp(rx', rxEp', rxPc', local') BY <1>5, <2>2, <2>4, <3>a DEF RxUp
    <3>c. RxStays BY <3>a, <3>b DEF RxStays
    <3> QED BY <2>7, <3>8, <3>c
  <2> QED BY <2>8, <2>9
<1> QED BY <1>c, <1>d

(* RxStays is what UdiCdcRx says of a step. *)
LEMMA RxStaysIs ==
  ASSUME RxStays
  PROVE  Rx!LinkStays /\ Rx!StepKept
BY RxMapping, RxMappingNext DEF RxStays, Rx!LinkStays, Rx!StepKept

LEMMA RxNextKept ==
  ASSUME RxSizes, RxInv, [Rx!Next]_(Rx!vars)
  PROVE  /\ RxInv'
         /\ [Rx!Stream!Next]_(Rx!Stream!vars)
         /\ [Rx!LinkStays /\ Rx!StepKept]_(Rx!vars)
<1>1. CASE Rx!IsrReceived \/ Rx!IsrSwallows
  BY <1>1, RxReceivedKept, RxSwallowsKept, RxStepsImplement, RxStaysIs
<1>2. CASE Rx!Requests
  BY <1>2, RxEnableKept, RxDisableKept, RxHaltKept, RxClearHaltKept, RxStepsImplement,
     RxStaysIs DEF Rx!Requests
<1>3. CASE Rx!HostSend BY <1>3, RxHostKept, RxStaysIs
<1>4. CASE Rx!Call \/ Rx!Look \/ Rx!Test \/ Rx!Empty
  BY <1>4, RxLooksKept, RxStepsImplement, RxStaysIs
<1>5. CASE Rx!Take \/ Rx!StorePos
  BY <1>5, RxTakeKept, RxStoreKept, RxStepsImplement, RxStaysIs
<1>6. CASE Rx!Start \/ Rx!RunTransfer
  BY <1>6, RxExchangeKept, RxRunKept, RxStepsImplement, RxStaysIs
<1>7. CASE UNCHANGED Rx!vars
  <2>1. UNCHANGED <<rx, rxEp, fifo, rxPc, rxOp, local, sent, read, passed>>
    BY <1>7 DEF Rx!vars
  <2>2. RxInv' BY <2>1 DEF RxInv, RxBanks, RxData, RxKnows
  <2>3. UNCHANGED Rx!Stream!vars
    BY <2>1, RxMapping, RxMappingNext DEF Rx!Stream!vars
  <2> QED BY <1>7, <2>2, <2>3
<1> QED BY <1>1, <1>2, <1>3, <1>4, <1>5, <1>6, <1>7 DEF Rx!Next, Rx!Isr, Rx!Main

(* The receiving half runs the transfer that its flags promise until the   *)
(* host halts or disables the port, and thread and interrupt routine get   *)
(* out of step by the events that UdiCdcRx!StepKept names and no others.   *)
THEOREM ReceivingStaysUp == RxSpec => Rx!StaysUp
<1> RxSizes BY ReadsAssumption DEF RxSizes
<1>1. Rx!Init => RxInv BY RxInitGood
<1>2. RxInv /\ [Rx!Next]_(Rx!vars)
        => RxInv' /\ [Rx!LinkStays /\ Rx!StepKept]_(Rx!vars)
  BY RxNextKept
<1> QED BY <1>1, <1>2, PTL DEF RxSpec, Rx!Spec, Rx!StaysUp

(* What the host sends is read once and in order, whatever the sizes of    *)
(* the buffers and of the reads: every step of the receiving half is one   *)
(* of ByteStream, see UdiCdcRx!ReceivesInOrder.  No configuration, halt or *)
(* order of interrupts is barred: where the code fails - a second packet   *)
(* while the thread compares, a new configuration while it reads or with   *)
(* bytes left in the second buffer - the link is astray, and for no other  *)
(* reason.                                                                 *)
THEOREM SerialPortReceives == RxSpec => ReceivesInOrder
<1> RxSizes BY ReadsAssumption DEF RxSizes
<1>1. Rx!Init => RxInv /\ Rx!Stream!Init BY RxInitGood
<1>2. RxInv /\ [Rx!Next]_(Rx!vars) => RxInv' /\ [Rx!Stream!Next]_(Rx!Stream!vars)
  BY RxNextKept
<1> QED
  BY <1>1, <1>2, ReceivingStaysUp, PTL
  DEF RxSpec, ReceivesInOrder, Rx!Spec, Rx!ReceivesInOrder, Rx!Stream!Spec
=============================================================================
