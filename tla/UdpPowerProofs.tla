---------------------------- MODULE UdpPowerProofs ----------------------------
(***************************************************************************)
(* What is proved of UdpPower, for lock counters of any width.  The locks  *)
(* of the USB driver at the sleep manager are those of its state: the      *)
(* inductive invariant Inv relates the state of the driver to the bus and  *)
(* to the line events that wait; a driver that has left IDLE has no        *)
(* suspend waiting and will hear of the next activity.  The clocks are     *)
(* sound: the inductive invariant ClkInv follows each routine access by    *)
(* access, and says which clocks run, which are selected, and which the    *)
(* hardware may not have changed to yet.                                   *)
(***************************************************************************)
EXTENDS UdpPower, SequenceTheorems, TLAPS

Detaching == {"test", "unlock", "store"}

(* A driver that is not enabled or whose device is off the bus.            *)
AtRest ==
  /\ bus # "off" => enabled
  /\ ~enabled => flags = {} /\ ~idle /\ pc \notin Detaching
  /\ bus = "off" => flags \intersect LineEvents = {}

(* A driver that will leave IDLE or has left it.                           *)
Silent == bus = "suspended" \/ "wakeup" \in flags

Suspended ==
  /\ "suspend" \in flags => idle /\ Silent
  /\ ~idle /\ bus # "off" => "wakeup" \in enables /\ Silent

(* What the steps of the main program take for granted.                    *)
Stages ==
  /\ pc \in Detaching => bus = "off"
  /\ pc = "unlock" => idle
  /\ pc \in {"saving", "toWait", "wait"} => ~idle
  /\ pc \in {"enabling", "decide", "saving"} => masked
  /\ pc = "enabling" => ~enabled /\ clock

Locked ==
  /\ locks \in [{"WFI", "WAIT"} -> 0 .. Byte - 1]
  /\ SleepsOnlyInSuspend

Types ==
  /\ enabled \in BOOLEAN /\ clock \in BOOLEAN /\ idle \in BOOLEAN /\ masked \in BOOLEAN
  /\ bus \in {"off", "active", "suspended", "reset"}
  /\ flags \subseteq LineEvents \cup {"reset"} /\ enables \subseteq LineEvents
  /\ pc \in {"boot", "run", "enabling", "test", "unlock", "store", "decide", "toWfi", "wfi",
             "saving", "toWait", "wait", "woken", "restoring"}

Inv == Types /\ AtRest /\ Suspended /\ Stages /\ Locked

(* The deviations of the README that concern the locks do not happen.      *)
Tame == Prompt /\ Deviations \intersect {"late", "race", "unclocked"} = {}

-----------------------------------------------------------------------------
(* A counter of 0 is 1 when locked, one of 1 is 0 when unlocked.           *)
LEMMA OneLock ==
  /\ (0 + 1) % Byte = 1 /\ (1 + Byte - 1) % Byte = 0
  /\ 0 \in 0 .. Byte - 1 /\ 1 \in 0 .. Byte - 1
<1>1. Byte \in Nat /\ Byte > 2 BY ByteAssumption
<1>2. 1 % Byte = 1 /\ Byte % Byte = 0 BY <1>1
<1>3. 0 + 1 = 1 /\ 1 + Byte - 1 = Byte BY <1>1
<1> QED BY <1>1, <1>2, <1>3

(* What locking and unlocking do to a counter that is 0 or 1.              *)
LEMMA LocksCount ==
  ASSUME NEW l \in [{"WFI", "WAIT"} -> 0 .. Byte - 1], NEW mode \in {"WFI", "WAIT"}
  PROVE  /\ l[mode] = 0 => /\ LockMode(l, mode)[mode] = 1
                           /\ LockMode(l, mode) \in [{"WFI", "WAIT"} -> 0 .. Byte - 1]
         /\ l[mode] = 1 => /\ UnlockMode(l, mode)[mode] = 0
                           /\ UnlockMode(l, mode) \in [{"WFI", "WAIT"} -> 0 .. Byte - 1]
         /\ \A other \in {"WFI", "WAIT"} \ {mode} :
              LockMode(l, mode)[other] = l[other] /\ UnlockMode(l, mode)[other] = l[other]
BY OneLock DEF LockMode, UnlockMode

(* Entering and leaving IDLE with the lock of the state before.            *)
LEMMA SleepModeCounts ==
  ASSUME NEW l \in [{"WFI", "WAIT"} -> 0 .. Byte - 1], NEW b \in BOOLEAN, NEW was \in BOOLEAN,
         l["WFI"] = IF was THEN 1 ELSE 0
  PROVE  /\ SleepMode(b, was, l) \in [{"WFI", "WAIT"} -> 0 .. Byte - 1]
         /\ SleepMode(b, was, l)["WFI"] = IF b THEN 1 ELSE 0
         /\ SleepMode(b, was, l)["WAIT"] = l["WAIT"]
BY LocksCount DEF SleepMode

-----------------------------------------------------------------------------
LEMMA InitInv == Init => Inv
<1> SUFFICES ASSUME Init PROVE Inv
  OBVIOUS
<1>1. locks \in [{"WFI", "WAIT"} -> 0 .. Byte - 1] /\ locks["WFI"] = 0 /\ locks["WAIT"] = 0
  BY OneLock DEF Init
<1>2. Locked BY <1>1 DEF Init, Locked, SleepsOnlyInSuspend
<1>3. Types /\ AtRest /\ Suspended /\ Stages
  BY DEF Init, Types, AtRest, Suspended, Silent, Stages, LineEvents, Detaching
<1> QED BY <1>2, <1>3 DEF Inv

(* Steps that leave the driver and the bus alone.                          *)
LEMMA ProgramInv ==
  ASSUME Inv, Boot \/ Sleep \/ SetClocks
  PROVE  Inv'
<1> USE DEF Inv, Types, AtRest, Suspended, Silent, Stages, Locked, SleepsOnlyInSuspend, Detaching, line
<1>1. CASE Boot BY <1>1 DEF Boot
<1>2. CASE SetClocks BY <1>2 DEF SetClocks
<1>3. CASE Sleep
  <2>0. UNCHANGED <<enabled, bus, flags, enables, clock, idle, locks>>
    BY <1>3 DEF Sleep, GoOn
  <2>1. CASE EnterSleep BY <2>0, <2>1 DEF EnterSleep
  <2>2. CASE AwakeElsewhere BY <2>0, <2>2 DEF AwakeElsewhere, WakeUp
  <2>3. CASE Decide
    <3>1. locks["WFI"] = (IF idle THEN 1 ELSE 0) BY <2>3 DEF Decide
    <3>2. CASE locks["WFI"] > 0
      <4>1. pc = "decide" /\ pc' = "toWfi" /\ masked' = FALSE BY <2>3, <3>2 DEF Decide
      <4> QED BY <2>0, <4>1
    <3>3. CASE ~(locks["WFI"] > 0)
      <4>1. pc = "decide" /\ pc' = "saving" /\ masked' = masked BY <2>3, <3>3 DEF Decide
      <4>2. idle = FALSE BY <3>1, <3>3
      <4> QED BY <2>0, <4>1, <4>2
    <3> QED BY <3>2, <3>3
  <2>4. CASE EndSave BY <2>0, <2>4 DEF EndSave
  <2>5. CASE FallAsleepWfi BY <2>0, <2>5 DEF FallAsleepWfi
  <2>6. CASE FallAsleep BY <2>0, <2>6 DEF FallAsleep
  <2>7. CASE Awake BY <2>0, <2>7 DEF Awake, WakeUp
  <2>8. CASE StartRestore BY <2>0, <2>8 DEF StartRestore
  <2>9. CASE Restore BY <2>0, <2>9 DEF Restore
  <2> QED BY <1>3, <2>1, <2>2, <2>3, <2>4, <2>5, <2>6, <2>7, <2>8, <2>9 DEF Sleep, GoOn
<1> QED BY <1>1, <1>2, <1>3

(* Enabling and attaching: the bus is taken to be in use.                  *)
LEMMA AttachInv ==
  ASSUME Inv, EnableClocks \/ Enable \/ Attach
  PROVE  Inv'
<1> USE DEF Inv, Types, AtRest, Suspended, Silent, Stages, Detaching, LineEvents
<1>1. CASE EnableClocks
  BY <1>1 DEF EnableClocks, Locked, SleepsOnlyInSuspend
<1>2. CASE Enable
  <2>1. locks \in [{"WFI", "WAIT"} -> 0 .. Byte - 1] /\ locks["WFI"] = 0 /\ locks["WAIT"] = 0
    BY <1>2 DEF Enable, Locked, SleepsOnlyInSuspend
  <2>2. /\ LockMode(locks, "WAIT") \in [{"WFI", "WAIT"} -> 0 .. Byte - 1]
        /\ LockMode(locks, "WAIT")["WAIT"] = 1 /\ LockMode(locks, "WAIT")["WFI"] = 0
    BY <2>1, LocksCount
  <2>3. /\ locks' \in [{"WFI", "WAIT"} -> 0 .. Byte - 1]
        /\ locks'["WFI"] = 1 /\ locks'["WAIT"] = 1
    BY <1>2, <2>2, SleepModeCounts DEF Enable
  <2>4. Locked' BY <1>2, <2>3 DEF Enable, Locked, SleepsOnlyInSuspend
  <2> QED BY <1>2, <2>4 DEF Enable
<1>3. CASE Attach
  <2>1. locks \in [{"WFI", "WAIT"} -> 0 .. Byte - 1] /\ locks["WFI"] = IF idle THEN 1 ELSE 0
    BY <1>3 DEF Attach, Locked, SleepsOnlyInSuspend
  <2>2. /\ locks' \in [{"WFI", "WAIT"} -> 0 .. Byte - 1]
        /\ locks'["WFI"] = 1 /\ locks'["WAIT"] = locks["WAIT"]
    BY <1>3, <2>1, SleepModeCounts DEF Attach, EnterSleepMode
  <2>3. Locked'
    BY <1>3, <2>2 DEF Attach, EnterSleepMode, Locked, SleepsOnlyInSuspend, cpu
  <2> QED BY <1>3, <2>3 DEF Attach, EnterSleepMode, cpu
<1> QED BY <1>1, <1>2, <1>3

(* Detaching and disabling: no line event is waiting.                      *)
LEMMA DetachInv ==
  ASSUME Tame, Inv, Detach \/ Disable
  PROVE  Inv'
<1> USE DEF Inv, Types, AtRest, Suspended, Silent, Stages, Detaching, LineEvents, line
<1>1. CASE DetachDevice
  BY <1>1 DEF DetachDevice, LeavesBus, Tame, Locked, SleepsOnlyInSuspend
<1>2. CASE TestIdle
  BY <1>2 DEF TestIdle, Locked, SleepsOnlyInSuspend
<1>3. CASE Unlock
  <2>1. locks \in [{"WFI", "WAIT"} -> 0 .. Byte - 1] /\ locks["WFI"] = 1
    BY <1>3 DEF Unlock, Locked, SleepsOnlyInSuspend
  <2>2. /\ locks' \in [{"WFI", "WAIT"} -> 0 .. Byte - 1]
        /\ locks'["WFI"] = 0 /\ locks'["WAIT"] = locks["WAIT"]
    BY <1>3, <2>1, LocksCount DEF Unlock
  <2> QED BY <1>3, <2>2 DEF Unlock, Locked, SleepsOnlyInSuspend
<1>4. CASE StoreIdle
  BY <1>4 DEF StoreIdle, Locked, SleepsOnlyInSuspend
<1>5. CASE Disable
  <2>1. /\ locks \in [{"WFI", "WAIT"} -> 0 .. Byte - 1]
        /\ locks["WFI"] = (IF idle THEN 1 ELSE 0) /\ locks["WAIT"] = 1
    BY <1>5 DEF Disable, Locked, SleepsOnlyInSuspend
  <2> DEFINE l == SleepMode(FALSE, idle, locks)
  <2>2. /\ l \in [{"WFI", "WAIT"} -> 0 .. Byte - 1] /\ l["WFI"] = 0 /\ l["WAIT"] = 1
    BY <2>1, SleepModeCounts
  <2>3. locks' = UnlockMode(l, "WAIT") BY <1>5 DEF Disable
  <2> HIDE DEF l
  <2>4. /\ locks' \in [{"WFI", "WAIT"} -> 0 .. Byte - 1]
        /\ locks'["WFI"] = 0 /\ locks'["WAIT"] = 0
    BY <2>2, <2>3, LocksCount
  <2>5. bus' = "off" /\ flags' = {} /\ idle' = FALSE /\ enabled' = FALSE /\ pc' = pc /\ pc = "run"
    BY <1>5 DEF Disable, LeavesBus, Tame
  <2>6. clock' = FALSE /\ enables' = enables /\ masked' = masked BY <1>5 DEF Disable
  <2>7. Locked' BY <2>4, <2>5 DEF Locked, SleepsOnlyInSuspend
  <2>8. Types' BY <2>5, <2>6
  <2>9. AtRest' BY <2>5, <2>6
  <2>10. Suspended' /\ Stages' BY <2>5, <2>6
  <2> QED BY <2>7, <2>8, <2>9, <2>10
<1> QED BY <1>1, <1>2, <1>3, <1>4, <1>5 DEF Detach

(* The interrupt routine.  In the main program between the decision to     *)
(* sleep in WAIT and WAIT itself it changes nothing, for no suspend waits. *)
LEMMA IsrInv ==
  ASSUME Inv, Isr
  PROVE  Inv'
<1> USE DEF Inv, Types, AtRest, Suspended, Silent, Stages, Detaching, LineEvents
<1>1. CASE IsrPostpones
  BY <1>1 DEF IsrPostpones, IsrEnters, Locked, SleepsOnlyInSuspend, line
<1>2. CASE IsrReset
  BY <1>2 DEF IsrReset, IsrServes, IsrEnters, ClocksRestored, Pending, Locked, SleepsOnlyInSuspend
<1>3. ASSUME NEW b \in BOOLEAN, EnterSleepMode(b), IsrServes, clock' = b,
             Pending \intersect LineEvents # {}
      PROVE  Locked'
  <2>1. /\ locks \in [{"WFI", "WAIT"} -> 0 .. Byte - 1] /\ pc # "store" /\ pc \notin Detaching
        /\ locks["WFI"] = IF idle THEN 1 ELSE 0
    BY <1>3 DEF Locked, SleepsOnlyInSuspend, Pending
  <2>2. /\ locks' \in [{"WFI", "WAIT"} -> 0 .. Byte - 1]
        /\ locks'["WFI"] = (IF b THEN 1 ELSE 0) /\ locks'["WAIT"] = locks["WAIT"]
    BY <1>3, <2>1, SleepModeCounts DEF EnterSleepMode
  <2>3. pc' \notin {"wait", "store"} /\ idle' = b /\ enabled' = enabled
    BY <1>3, <2>1 DEF IsrServes, IsrEnters, EnterSleepMode
  <2> QED BY <1>3, <2>2, <2>3 DEF Locked, SleepsOnlyInSuspend
<1>4. CASE IsrWakeUp
  <2>1. Locked' BY <1>3, <1>4 DEF IsrWakeUp
  <2>2. pc \notin {"saving", "toWait", "wait"} /\ pc \notin Detaching
    BY <1>4 DEF IsrWakeUp, IsrServes, IsrEnters, ClocksRestored, Pending
  <2> QED BY <1>4, <2>1, <2>2 DEF IsrWakeUp, IsrServes, IsrEnters, EnterSleepMode, Pending
<1>5. CASE IsrSuspend
  <2>1. Locked' BY <1>3, <1>5 DEF IsrSuspend
  <2>2. pc \notin Detaching /\ enabled
    BY <1>5 DEF IsrSuspend, Pending
  <2>3. /\ flags' = flags \ {"suspend"} /\ enables' = (enables \ {"suspend"}) \cup {"wakeup"}
        /\ idle' = FALSE /\ clock' = FALSE
        /\ pc' = (IF pc = "wfi" THEN "run" ELSE pc)
        /\ UNCHANGED <<enabled, bus, masked>> /\ ~masked /\ "suspend" \in flags
    BY <1>5 DEF IsrSuspend, IsrServes, IsrEnters, EnterSleepMode, Pending
  <2>4. bus = "suspended" \/ "wakeup" \in flags
    BY <2>2, <2>3
  <2>5. Types' /\ AtRest' /\ Stages' BY <2>2, <2>3
  <2>6. Suspended' BY <2>3, <2>4
  <2> QED BY <2>1, <2>5, <2>6
<1> QED BY <1>1, <1>2, <1>4, <1>5 DEF Isr

(* The bus.                                                                *)
LEMMA HostInv ==
  ASSUME Tame, Inv, Host
  PROVE  Inv'
<1> USE DEF Inv, Types, AtRest, Suspended, Silent, Stages, Detaching, LineEvents, Locked,
            SleepsOnlyInSuspend, cpu, Served, Tame
<1>1. CASE HostSuspends BY <1>1 DEF HostSuspends
<1>2. CASE HostResumes BY <1>2 DEF HostResumes
<1>3. CASE HostResets BY <1>3 DEF HostResets
<1>4. CASE HostEndsReset BY <1>4 DEF HostEndsReset, Pending
<1> QED BY <1>1, <1>2, <1>3, <1>4 DEF Host

LEMMA NextInv ==
  ASSUME Tame, Inv, [Next]_vars
  PROVE  Inv'
<1>1. CASE UNCHANGED vars
  BY <1>1 DEF vars, line, cpu, Inv, Types, AtRest, Suspended, Silent, Stages, Locked, SleepsOnlyInSuspend
<1> QED BY <1>1, ProgramInv, AttachInv, DetachInv, IsrInv, HostInv DEF Next

-----------------------------------------------------------------------------
(* Types of the clocks.                                                    *)

(* Sequences of accesses, put together and taken apart.                    *)
LEMMA OpSeqs ==
  /\ <<>> \in Seq(Ops)
  /\ \A s, t \in Seq(Ops) : s \o t \in Seq(Ops)
  /\ \A s \in Seq(Ops), i \in Nat : SubSeq(s, i + 2, Len(s)) \in Seq(Ops)
  /\ \A s \in Seq(Ops) : s # <<>> => Head(s) \in Ops /\ Tail(s) \in Seq(Ops)
  /\ \A a \in Ops : <<a>> \in Seq(Ops)
<1>1. \A s \in Seq(Ops), i \in Nat : SubSeq(s, i + 2, Len(s)) \in Seq(Ops)
  <2> SUFFICES ASSUME NEW s \in Seq(Ops), NEW i \in Nat
               PROVE  SubSeq(s, i + 2, Len(s)) \in Seq(Ops)
    OBVIOUS
  <2>1. \A j \in i + 2 .. Len(s) : s[j] \in Ops OBVIOUS
  <2> QED BY <2>1, SubSeqProperties
<1> QED BY <1>1

(* What an access of each kind is of.                                      *)
LEMMA Args ==
  ASSUME NEW op \in Ops
  PROVE  /\ op[1] = "on" => op[2] \in Sources
         /\ op[1] = "select" => op[2] \in {"rc", "xtal"}
         /\ op[1] = "css" => op[2] \in {"slow", "main", "A"}
         /\ op[1] = "pres" => op[2] \in {1, 2}
         /\ op[1] = "poll" => op[2] \in {0, 2}
         /\ op[1] = "flash" => op[2] = "full"
         /\ op[1] = "usb" => op[2] = TRUE
<1> USE DEF On, Off, Select, Css, Pres, Wait, WaitAny, WaitMck, Poll, Flash, Udpck
<1>1. CASE \E s \in Sources : op \in {On(s), Off(s), Wait({s})} BY <1>1
<1>2. CASE \E s \in {"rc", "xtal"} : op = Select(s) BY <1>2
<1>3. CASE \E c \in {"slow", "main", "A"} : op = Css(c) BY <1>3
<1>4. CASE \E p \in {1, 2} : op = Pres(p) BY <1>4
<1>5. CASE \E S \in SUBSET Plls : op = WaitAny(S) BY <1>5
<1>6. CASE op = WaitMck BY <1>6
<1>7. CASE op \in {Poll(0), Poll(2)} BY <1>7
<1>8. CASE op = Flash("full") BY <1>8
<1>9. CASE op = Udpck(TRUE) BY <1>9
<1> HIDE DEF On, Off, Select, Css, Pres, Wait, WaitAny, WaitMck, Poll, Flash, Udpck
<1> QED BY <1>1, <1>2, <1>3, <1>4, <1>5, <1>6, <1>7, <1>8, <1>9 DEF Ops

(* The accesses that the routines are made of.                             *)
LEMMA Accesses ==
  /\ \A s \in Sources : On(s) \in Ops /\ Off(s) \in Ops /\ Wait({s}) \in Ops
  /\ \A s \in {"rc", "xtal"} : Select(s) \in Ops
  /\ \A c \in {"slow", "main", "A"} : Css(c) \in Ops
  /\ \A p \in {1, 2} : Pres(p) \in Ops
  /\ \A S \in SUBSET Plls : WaitAny(S) \in Ops
  /\ {WaitMck, Poll(0), Poll(2), Flash("full"), Udpck(TRUE)} \subseteq Ops
  /\ {"rc", "xtal", "A", "B"} = Sources
BY DEF Ops, Sources, Plls

(* Every routine is a sequence of accesses.                                *)
LEMMA Routines ==
  /\ SysclkInit \in Seq(Ops) /\ SysclkEnableUsb \in Seq(Ops) /\ SaveClocks \in Seq(Ops)
  /\ \A was \in SUBSET Sources, m \in Mcks : RestoreClocks(was, m) \in Seq(Ops)
<1> DEFINE Sw(c, p) == SwitchMck(c, p) \in Seq(Ops)
<1>1. \A c \in {"slow", "main", "A"}, p \in {1, 2} : Sw(c, p)
  BY Accesses DEF SwitchMck
<1>2. SwitchMckToPll(2) \in Seq(Ops) BY Accesses DEF SwitchMckToPll
<1>3. SwitchMainToRc \in Seq(Ops)
  <2>1. /\ {On("rc"), On("xtal"), Wait({"rc"}), Select("rc"), Off("xtal")} \subseteq Ops
    BY Accesses
  <2>2. /\ <<On("rc"), Wait({"rc"}), Select("rc")>> \in Seq(Ops)
        /\ <<On("rc"), On("xtal"), Wait({"rc"}), Select("rc"), Off("xtal")>> \in Seq(Ops)
    BY <2>1
  <2> QED BY <2>2 DEF SwitchMainToRc
<1>4. SwitchMainToXtal \in Seq(Ops) BY Accesses DEF SwitchMainToXtal
<1>5. EnablePll("A") \in Seq(Ops) /\ EnablePll("B") \in Seq(Ops)
  BY Accesses DEF EnablePll
<1>6. SysclkInit \in Seq(Ops)
  BY <1>2, <1>4, <1>5, OpSeqs, Accesses DEF SysclkInit
<1>7. SysclkEnableUsb \in Seq(Ops)
  BY <1>4, <1>5, OpSeqs, Accesses DEF SysclkEnableUsb
<1>8. SaveClocks \in Seq(Ops)
  <2>0. {Off("xtal"), Off("A"), Off("B")} \subseteq Ops BY Accesses
  <2>1. <<Off("xtal"), Off("A"), Off("B")>> \in Seq(Ops) BY <2>0
  <2>2. SwitchMck("slow", 1) \in Seq(Ops) /\ SwitchMck("main", 1) \in Seq(Ops) BY <1>1
  <2> QED BY <1>3, <2>1, <2>2, OpSeqs DEF SaveClocks
<1>9. ASSUME NEW was \in SUBSET Sources, NEW m \in Mcks
      PROVE  RestoreClocks(was, m) \in Seq(Ops)
  <2> DEFINE plls == was \intersect Plls
             PllOn(s) == IF s \in plls THEN <<On(s)>> ELSE <<>>
             main == IF "xtal" \in was THEN SwitchMainToXtal \o <<Off("rc")>> ELSE <<>>
             lock == IF m.css = "A" THEN <<Wait({"A"})>> ELSE <<>>
             end  == <<Pres(m.pres), WaitMck, Css(m.css), WaitMck, WaitAny(plls)>>
  <2>1. PllOn("A") \in Seq(Ops) /\ PllOn("B") \in Seq(Ops) BY Accesses, OpSeqs
  <2>2. main \in Seq(Ops) BY <1>4, Accesses, OpSeqs
  <2>3. lock \in Seq(Ops) BY Accesses, OpSeqs
  <2>4. end \in Seq(Ops)
    <3>1. m.pres \in {1, 2} /\ m.css \in {"slow", "main", "A"} BY DEF Mcks
    <3>2. plls \in SUBSET Plls OBVIOUS
    <3> HIDE DEF plls
    <3> QED BY <3>1, <3>2, Accesses
  <2>5. SwitchMck("slow", 1) \in Seq(Ops) BY <1>1
  <2>6. RestoreClocks(was, m)
          = SwitchMck("slow", 1) \o main \o PllOn("A") \o PllOn("B") \o lock \o end
    BY DEF RestoreClocks
  <2> HIDE DEF main, lock, end, PllOn
  <2> QED BY <2>1, <2>2, <2>3, <2>4, <2>5, <2>6, OpSeqs
<1> QED BY <1>6, <1>7, <1>8, <1>9

(* Whatever step the clocks take.                                          *)
LEMMA ClocksTyped ==
  ASSUME ClocksTypeOK, ClocksStep \/ ClocksSettle
  PROVE  ClocksTypeOK'
<1> USE DEF ClocksTypeOK
<1>1. CASE ClocksSettle
  BY <1>1 DEF ClocksSettle, Settle
<1>2. ASSUME ClocksStep PROVE todo # <<>> /\ Head(todo) \in Ops /\ Tail(todo) \in Seq(Ops)
  BY <1>2, OpSeqs DEF ClocksStep, SwitchOn, SwitchOff, SelectMain, WriteMckr, EndWait,
                       TimeOut, WriteOther, Access
<1>3. CASE SwitchOn BY <1>2, <1>3, Args DEF SwitchOn, ClocksStep, Access, Arg, Done
<1>4. CASE SwitchOff BY <1>2, <1>4 DEF SwitchOff, ClocksStep, Access, Arg, Done
<1>5. CASE SelectMain BY <1>2, <1>5, Args DEF SelectMain, ClocksStep, Access, Arg, Done
<1>6. CASE WriteMckr
  <2>1. mckr' \in Mcks
    BY <1>2, <1>6, Args DEF WriteMckr, ClocksStep, Access, Arg, Mcks
  <2> QED BY <1>2, <1>6, <2>1 DEF WriteMckr, ClocksStep, Done
<1>7. CASE EndWait BY <1>2, <1>7 DEF EndWait, ClocksStep, Done
<1>8. CASE TimeOut
  <2>0. Head(todo) \in Ops /\ Head(todo)[1] = "poll"
    BY <1>2, <1>8 DEF TimeOut, ClocksStep, Access
  <2>1. ASSUME NEW op \in Ops, op[1] = "poll" PROVE op[2] \in Nat
    <3>1. op[2] \in {0, 2} BY <2>1, Args
    <3> QED BY <3>1
  <2>3. Arg \in Nat BY <2>0, <2>1 DEF Arg
  <2>2. todo' \in Seq(Ops) BY <1>8, <2>3, OpSeqs DEF TimeOut
  <2> QED BY <1>8, <2>2 DEF TimeOut
<1>9. CASE WriteOther
  <2>1. usb' \in BOOLEAN /\ flash' \in {"full", "none"}
    BY <1>2, <1>9, Args DEF WriteOther, ClocksStep, Access, Arg
  <2> QED BY <1>2, <1>9, <2>1 DEF WriteOther, ClocksStep, Done
<1> QED BY <1>1, <1>3, <1>4, <1>5, <1>6, <1>7, <1>8, <1>9 DEF ClocksStep

-----------------------------------------------------------------------------
(* The rest of UdpPower's TypeOK.                                          *)
Rest ==
  /\ masked => pc \in {"enabling", "decide", "saving", "toWait", "wait", "woken", "restoring"}
  /\ saved \in [osc : SUBSET Sources, mck : Mcks, flash : {"full", "none"}]
  /\ ClocksTypeOK

LEMMA InitRest == Init => Rest
<1> SUFFICES ASSUME Init PROVE Rest
  OBVIOUS
<1>1. Full \in Mcks BY DEF Full, Mcks
<1>2. ClocksTypeOK
  BY Routines DEF Init, ClocksInit, ClocksTypeOK, Sources, Mcks
<1> QED BY <1>1, <1>2 DEF Init, Rest

(* Of the steps that are not the clocks' own, those that begin a routine   *)
(* and those around WAIT change the clocks.                                *)
LEMMA NextRest ==
  ASSUME Rest, [Next]_vars
  PROVE  Rest'
<1> USE DEF Rest
<1> DEFINE MayMask(s) == s \in {"enabling", "decide", "saving", "toWait", "wait", "woken", "restoring"}
<1>1. ASSUME UNCHANGED <<saved, clocks>>, masked' => MayMask(pc') PROVE Rest'
  BY <1>1 DEF clocks, ClocksTypeOK
<1>2. CASE Boot BY <1>1, <1>2 DEF Boot
<1>3. CASE EnableClocks
  <2>1. todo' \in Seq(Ops) BY <1>3, Routines DEF EnableClocks
  <2> QED BY <1>3, <2>1 DEF EnableClocks, ClocksTypeOK
<1>4. CASE Enable BY <1>1, <1>4 DEF Enable
<1>5. CASE Attach BY <1>1, <1>5 DEF Attach, cpu
<1>6. CASE Disable BY <1>6 DEF Disable, ClocksTypeOK
<1>7. CASE Detach BY <1>1, <1>7 DEF Detach, DetachDevice, TestIdle, Unlock, StoreIdle
<1>8. CASE SetClocks
  <2>1. ClocksTypeOK' BY <1>8, ClocksTyped DEF SetClocks
  <2> QED BY <1>8, <2>1 DEF SetClocks
<1>9. CASE Isr
  <2>1. UNCHANGED <<saved, clocks>>
    BY <1>9 DEF Isr, IsrPostpones, IsrWakeUp, IsrSuspend, IsrReset, IsrServes
  <2>2. masked' => MayMask(pc')
    BY <1>9 DEF Isr, IsrPostpones, IsrWakeUp, IsrSuspend, IsrReset, IsrServes, ClocksRestored
  <2> QED BY <1>1, <2>1, <2>2
<1>10. CASE Host
  BY <1>1, <1>10 DEF Host, HostSuspends, HostResumes, HostResets, HostEndsReset, cpu
<1>11. CASE Sleep
  <2>1. CASE EnterSleep BY <1>1, <2>1 DEF EnterSleep
  <2>2. CASE AwakeElsewhere
    BY <1>1, <2>2 DEF AwakeElsewhere, WakeUp, ClocksTypeOK
  <2>3. CASE Decide
    <3>1. CASE locks["WFI"] > 0 BY <1>1, <2>3, <3>1 DEF Decide
    <3>2. CASE ~(locks["WFI"] > 0)
      <4>1. /\ saved' = [saved EXCEPT !.osc = osc, !.mck = mckr] /\ todo' = SaveClocks
            /\ UNCHANGED <<masked, osc, ready, sel, mckr, mck, usb, flash>> /\ pc' = "saving"
        BY <2>3, <3>2 DEF Decide
      <4>2. todo' \in Seq(Ops) BY <4>1, Routines
      <4>3. ready \subseteq osc /\ osc \in SUBSET Sources /\ mckr \in Mcks BY DEF ClocksTypeOK
      <4>4. saved' \in [osc : SUBSET Sources, mck : Mcks, flash : {"full", "none"}]
        BY <4>1, <4>3
      <4>5. ClocksTypeOK' BY <4>1, <4>2 DEF ClocksTypeOK
      <4> QED BY <4>1, <4>4, <4>5
    <3> QED BY <3>1, <3>2
  <2>4. CASE EndSave BY <1>1, <2>4 DEF EndSave
  <2>5. CASE FallAsleepWfi BY <1>1, <2>5 DEF FallAsleepWfi
  <2>6. CASE FallAsleep BY <2>6 DEF FallAsleep, ClocksTypeOK
  <2>7. CASE Awake BY <2>7 DEF Awake, WakeUp, ClocksTypeOK
  <2>8. CASE StartRestore
    <3>1. todo' \in Seq(Ops) BY <2>8, Routines DEF StartRestore
    <3> QED BY <2>8, <3>1 DEF StartRestore, ClocksTypeOK
  <2>9. CASE Restore BY <1>1, <2>9 DEF Restore
  <2> QED BY <1>11, <2>1, <2>2, <2>3, <2>4, <2>5, <2>6, <2>7, <2>8, <2>9 DEF Sleep, GoOn
<1>12. CASE UNCHANGED vars BY <1>1, <1>12 DEF vars, cpu
<1> QED BY <1>2, <1>3, <1>4, <1>5, <1>6, <1>7, <1>8, <1>9, <1>10, <1>11, <1>12 DEF Next

LEMMA BothHold == Tame => (Spec => [](Inv /\ Rest))
<1> SUFFICES ASSUME Tame PROVE Spec => [](Inv /\ Rest)
  OBVIOUS
<1>1. Init => Inv /\ Rest BY InitInv, InitRest
<1>2. Inv /\ Rest /\ [Next]_vars => Inv' /\ Rest' BY NextInv, NextRest
<1> QED BY <1>1, <1>2, PTL DEF Spec

(* The locks of the driver at the sleep manager are those of its state,    *)
(* and the processor sleeps in WAIT with the peripheral's clock off only:  *)
(* for lock counters of any width, when line events are served before the  *)
(* bus changes again and the deviations of detaching do not happen.        *)
THEOREM LocksFollowState == Tame => (Spec => []SleepsOnlyInSuspend)
<1>1. Inv /\ Rest => SleepsOnlyInSuspend BY DEF Inv, Locked
<1> QED BY <1>1, BothHold, PTL

(* Under the same assumptions all variables keep their types, those of the *)
(* clocks too: every routine that is put together of accesses, for         *)
(* whatever was saved, is made of those that the steps can take.           *)
THEOREM PowerTypes == Tame => (Spec => []TypeOK)
<1>1. Inv /\ Rest => TypeOK BY DEF Inv, Types, AtRest, Locked, Rest, TypeOK
<1> QED BY <1>1, BothHold, PTL

-----------------------------------------------------------------------------
(***************************************************************************)
(* The clocks.  Each routine is followed access by access: in the k-th, it *)
(* has brought the clocks as far as its predicate says, whatever settles   *)
(* meanwhile.  todo is what is left from the k-th access on.               *)
(***************************************************************************)
Speed(source, divider) == [css |-> source, pres |-> divider]

(* The master clock is the one selected, or at access k still the one old. *)
Lags(k, at, old) == k = at /\ mck = old

From(R, k) == todo = SubSeq(R, k, Len(R))

(* The routines around WAIT, as they are when the crystal and PLL A are on. *)
UdpckOn == Udpck(TRUE)

AllOff == <<Off("xtal"), Off("A"), Off("B")>>

MckOnPll(S) == <<Pres(2), WaitMck, Css("A"), WaitMck, WaitAny(S)>>

ToRc == <<On("rc"), Wait({"rc"}), Select("rc")>>

XtalNoRc == SwitchMainToXtal \o <<Off("rc")>>

SaveOps ==
  SwitchMck("slow", 1) \o ToRc \o AllOff \o SwitchMck("main", 1)

RestoreOps ==
  SwitchMck("slow", 1) \o XtalNoRc \o <<On("A")>> \o <<On("B")>>
  \o <<Wait({"A"})>> \o MckOnPll(Plls)

RestoreOpsNoB ==
  SwitchMck("slow", 1) \o XtalNoRc \o <<On("A")>>
  \o <<Wait({"A"})>> \o MckOnPll({"A"})

(* sysclk_init. *)
BootAt(k) ==
  /\ usb = FALSE /\ "rc" \in ready
  /\ k > 1 => flash = "full"
  /\ k > 3 => "xtal" \in ready
  /\ sel = IF k > 4 THEN "xtal" ELSE "rc"
  /\ k > 7 => "A" \in ready
  /\ mckr = Speed(IF k > 10 THEN "A" ELSE "main", IF k > 8 THEN 2 ELSE 1)
  /\ mck = mckr \/ Lags(k, 9, Speed("main", 1)) \/ Lags(k, 11, Speed("main", 2))

(* sysclk_enable_usb. *)
UsbAt(k) ==
  /\ FullSpeed
  /\ k <= 7 => usb = FALSE
  /\ k > 6 => "B" \in ready

(* What was saved are the clocks of FullSpeed, with or without PLL B.      *)
Saved ==
  /\ saved.mck = Full /\ {"xtal", "A"} \subseteq saved.osc
  /\ usb = TRUE => "B" \in saved.osc

(* pmc_save_clock_settings. *)
SaveAt(k) ==
  /\ flash = "full" /\ Saved
  /\ k <= 8 => "xtal" \in ready
  /\ k <= 7 => "A" \in ready
  /\ sel = IF k <= 7 THEN "xtal" ELSE "rc"
  /\ k > 6 => "rc" \in ready
  /\ k > 8 => "xtal" \notin osc
  /\ k > 9 => "A" \notin osc
  /\ k > 10 => "B" \notin osc
  /\ mckr = IF k = 1 THEN Full ELSE IF k <= 3 THEN Speed("slow", 2)
            ELSE IF k <= 11 THEN Speed("slow", 1) ELSE Speed("main", 1)
  /\ mck = mckr \/ Lags(k, 2, Full) \/ Lags(k, 4, Speed("slow", 2))
     \/ Lags(k, 12, Speed("slow", 1))

(* The clocks in which the processor waits. *)
Low ==
  /\ osc = {"rc"} /\ "rc" \in ready /\ sel = "rc"
  /\ mckr = Speed("main", 1) /\ mck = mckr /\ todo = <<>>
  /\ Saved

(* pmc_restore_clock_setting, which leaves out access 10 when PLL B was off. *)
RestoreAt(k) ==
  /\ flash = "full" /\ Saved
  /\ k <= 8 => "rc" \in ready
  /\ sel = IF k <= 7 THEN "rc" ELSE "xtal"
  /\ k > 6 => "xtal" \in ready
  /\ k > 11 => "A" \in ready
  /\ k > 16 /\ "B" \in saved.osc => "B" \in ready
  /\ mckr = IF k = 1 THEN Speed("main", 1) ELSE IF k <= 12 THEN Speed("slow", 1)
            ELSE IF k <= 14 THEN Speed("slow", 2) ELSE Full
  /\ mck = mckr \/ Lags(k, 2, Speed("main", 1)) \/ Lags(k, 13, Speed("slow", 1))
     \/ Lags(k, 15, Speed("slow", 2))

Stage(k) == IF k > 9 THEN k + 1 ELSE k

Booting  == \E k \in 1 .. 12 : From(SysclkInit, k) /\ BootAt(k)
Enabling == \E k \in 1 .. 8 : From(SysclkEnableUsb, k) /\ UsbAt(k)
Saving   == \E k \in 1 .. 15 : From(SaveOps, k) /\ SaveAt(k)

Restoring ==
  \/ "B" \in saved.osc /\ \E k \in 1 .. 17 : From(RestoreOps, k) /\ RestoreAt(k)
  \/ "B" \notin saved.osc /\ \E k \in 1 .. 16 :
       From(RestoreOpsNoB, k) /\ RestoreAt(Stage(k))

ClkInv ==
  /\ usb = TRUE => enabled \/ pc = "enabling"
  /\ pc = "boot" => Booting
  /\ pc = "enabling" => Enabling
  /\ pc = "saving" => Saving
  /\ pc \in {"toWait", "woken"} => Low /\ flash = "full"
  /\ pc = "wait" => Low /\ saved.flash = "full"
  /\ pc = "restoring" => Restoring
  /\ ClocksRestored /\ pc \notin {"boot", "enabling"} => FullSpeed /\ todo = <<>>

(* The accesses of the pieces that the routines are put together from.     *)
LEMMA SwitchesAre ==
  /\ \A c \in {"slow", "main", "A"}, p \in {1, 2} :
       LET s == SwitchMck(c, p)
       IN  /\ s \in Seq(Ops) /\ Len(s) = 4 /\ s[1] = Css(c) /\ s[2] = Poll(2)
           /\ s[3] = Pres(p) /\ s[4] = Poll(0)
  /\ LET s == SwitchMckToPll(2)
     IN  /\ s \in Seq(Ops) /\ Len(s) = 4 /\ s[1] = Pres(2) /\ s[2] = Poll(2)
         /\ s[3] = Css("A") /\ s[4] = Poll(0)
  /\ LET s == SwitchMainToXtal
     IN  /\ s \in Seq(Ops) /\ Len(s) = 3 /\ s[1] = On("xtal") /\ s[2] = Wait({"xtal"})
         /\ s[3] = Select("xtal")
  /\ \A p \in Plls : LET s == EnablePll(p)
     IN s \in Seq(Ops) /\ Len(s) = 3 /\ s[1] = Off(p) /\ s[2] = On(p) /\ s[3] = Wait({p})
  /\ \A op \in Ops : <<op>> \in Seq(Ops) /\ Len(<<op>>) = 1 /\ <<op>>[1] = op
<1>1. ASSUME NEW c \in {"slow", "main", "A"}, NEW p \in {1, 2}
      PROVE  LET s == SwitchMck(c, p)
            IN  /\ s \in Seq(Ops) /\ Len(s) = 4 /\ s[1] = Css(c) /\ s[2] = Poll(2)
                /\ s[3] = Pres(p) /\ s[4] = Poll(0)
  BY Accesses DEF SwitchMck
<1>2. LET s == SwitchMckToPll(2)
     IN  /\ s \in Seq(Ops) /\ Len(s) = 4 /\ s[1] = Pres(2) /\ s[2] = Poll(2)
         /\ s[3] = Css("A") /\ s[4] = Poll(0)
  BY Accesses DEF SwitchMckToPll
<1>3. LET s == SwitchMainToXtal
     IN  /\ s \in Seq(Ops) /\ Len(s) = 3 /\ s[1] = On("xtal") /\ s[2] = Wait({"xtal"})
         /\ s[3] = Select("xtal")
  BY Accesses DEF SwitchMainToXtal
<1>4. ASSUME NEW p \in Plls PROVE LET s == EnablePll(p)
     IN s \in Seq(Ops) /\ Len(s) = 3 /\ s[1] = Off(p) /\ s[2] = On(p) /\ s[3] = Wait({p})
  <2>1. p \in Sources BY DEF Plls, Sources
  <2> QED BY <2>1, Accesses DEF EnablePll
<1>5. \A op \in Ops : <<op>> \in Seq(Ops) /\ Len(<<op>>) = 1 /\ <<op>>[1] = op
  OBVIOUS
<1> QED BY <1>1, <1>2, <1>3, <1>4, <1>5

(* Two sequences put together.                                             *)
LEMMA Joined ==
  ASSUME NEW s \in Seq(Ops), NEW t \in Seq(Ops)
  PROVE  /\ s \o t \in Seq(Ops) /\ Len(s \o t) = Len(s) + Len(t)
         /\ \A i \in 1 .. Len(s) : (s \o t)[i] = s[i]
         /\ \A i \in 1 .. Len(t) : (s \o t)[Len(s) + i] = t[i]
<1>1. /\ s \o t \in Seq(Ops) /\ Len(s \o t) = Len(s) + Len(t)
      /\ \A i \in 1 .. Len(s) + Len(t) :
           (s \o t)[i] = IF i <= Len(s) THEN s[i] ELSE t[i - Len(s)]
  BY ConcatProperties
<1>2. Len(s) \in Nat /\ Len(t) \in Nat OBVIOUS
<1>3. ASSUME NEW i \in 1 .. Len(t) PROVE (s \o t)[Len(s) + i] = t[i]
  <2> DEFINE j == Len(s) + i
  <2>1. j \in 1 .. Len(s) + Len(t) /\ ~(j <= Len(s)) /\ j - Len(s) = i BY <1>2
  <2> HIDE DEF j
  <2>2. (s \o t)[j] = t[j - Len(s)] BY <1>1, <2>1
  <2>3. (s \o t)[j] = t[i] BY <2>1, <2>2
  <2> QED BY <2>3 DEF j
<1>4. ASSUME NEW i \in 1 .. Len(s) PROVE (s \o t)[i] = s[i]
  BY <1>1, <1>2
<1> QED BY <1>1, <1>3, <1>4

LEMMA OffsAre ==
  LET s == AllOff
  IN s \in Seq(Ops) /\ Len(s) = 3 /\ s[1] = Off("xtal") /\ s[2] = Off("A") /\ s[3] = Off("B")
<1>1. Off("xtal") \in Ops /\ Off("A") \in Ops /\ Off("B") \in Ops
  <2>1. "xtal" \in Sources /\ "A" \in Sources /\ "B" \in Sources BY Accesses
  <2> QED BY <2>1, Accesses
<1> QED BY <1>1 DEF AllOff

LEMMA MckOnPllIs ==
  ASSUME NEW S \in SUBSET Plls
  PROVE  LET s == MckOnPll(S)
         IN /\ s \in Seq(Ops) /\ Len(s) = 5 /\ s[1] = Pres(2) /\ s[2] = WaitMck
            /\ s[3] = Css("A") /\ s[4] = WaitMck /\ s[5] = WaitAny(S)
<1>1. /\ Pres(2) \in Ops /\ WaitMck \in Ops /\ Css("A") \in Ops /\ WaitAny(S) \in Ops
  BY Accesses
<1> QED BY <1>1 DEF MckOnPll

(* The accesses of each routine, one by one.                               *)
LEMMA BootIs ==
  LET R == SysclkInit
  IN  /\ R \in Seq(Ops) /\ Len(R) = 11 /\ R[1] = Flash("full") /\ R[2] = On("xtal")
      /\ R[3] = Wait({"xtal"}) /\ R[4] = Select("xtal") /\ R[5] = Off("A") /\ R[6] = On("A")
      /\ R[7] = Wait({"A"}) /\ R[8] = Pres(2) /\ R[9] = Poll(2) /\ R[10] = Css("A")
      /\ R[11] = Poll(0)
<1> DEFINE fl == <<Flash("full")>>
           xt == SwitchMainToXtal
           pll == EnablePll("A")
           mk == SwitchMckToPll(2)
           j1 == fl \o xt
           j2 == j1 \o pll
           j3 == j2 \o mk
<1>1. /\ fl \in Seq(Ops) /\ Len(fl) = 1 /\ fl[1] = Flash("full")
  BY SwitchesAre, Accesses
<1>2. /\ xt \in Seq(Ops) /\ Len(xt) = 3 /\ xt[1] = On("xtal") /\ xt[2] = Wait({"xtal"})
      /\ xt[3] = Select("xtal")
  BY SwitchesAre
<1>3. /\ pll \in Seq(Ops) /\ Len(pll) = 3 /\ pll[1] = Off("A") /\ pll[2] = On("A")
      /\ pll[3] = Wait({"A"})
  BY SwitchesAre DEF Plls
<1>4. /\ mk \in Seq(Ops) /\ Len(mk) = 4 /\ mk[1] = Pres(2) /\ mk[2] = Poll(2)
      /\ mk[3] = Css("A") /\ mk[4] = Poll(0)
  BY SwitchesAre
<1>5. SysclkInit = j3 BY DEF SysclkInit
<1> HIDE DEF fl, xt, pll, mk
<1>6. /\ j1 \in Seq(Ops) /\ Len(j1) = Len(fl) + Len(xt)
      /\ \A i \in 1 .. Len(fl) : j1[i] = fl[i]
      /\ \A i \in 1 .. Len(xt) : j1[Len(fl) + i] = xt[i]
  BY <1>1, <1>2, Joined, Zenon
<1> HIDE DEF j1
<1>7. /\ j1 \in Seq(Ops) /\ Len(j1) = 4
      /\ \A i \in 1 .. 1 : j1[i] = fl[i]
      /\ \A i \in 1 .. 3 : j1[1 + i] = xt[i]
  BY <1>1, <1>2, <1>6
<1>8. /\ j1[1] = fl[1] /\ j1[1 + 1] = xt[1] /\ j1[1 + 2] = xt[2] /\ j1[1 + 3] = xt[3]
  BY <1>7
<1>9. /\ j2 \in Seq(Ops) /\ Len(j2) = Len(j1) + Len(pll)
      /\ \A i \in 1 .. Len(j1) : j2[i] = j1[i]
      /\ \A i \in 1 .. Len(pll) : j2[Len(j1) + i] = pll[i]
  BY <1>7, <1>8, <1>3, Joined, Zenon
<1> HIDE DEF j2
<1>10. /\ j2 \in Seq(Ops) /\ Len(j2) = 7
       /\ \A i \in 1 .. 4 : j2[i] = j1[i]
       /\ \A i \in 1 .. 3 : j2[4 + i] = pll[i]
  BY <1>7, <1>8, <1>3, <1>9
<1>11. /\ j2[1] = fl[1] /\ j2[2] = xt[1] /\ j2[3] = xt[2] /\ j2[4] = xt[3]
       /\ j2[4 + 1] = pll[1] /\ j2[4 + 2] = pll[2] /\ j2[4 + 3] = pll[3]
  BY <1>10, <1>7, <1>8
<1>12. /\ j3 \in Seq(Ops) /\ Len(j3) = Len(j2) + Len(mk)
       /\ \A i \in 1 .. Len(j2) : j3[i] = j2[i]
       /\ \A i \in 1 .. Len(mk) : j3[Len(j2) + i] = mk[i]
  BY <1>10, <1>11, <1>4, Joined, Zenon
<1> HIDE DEF j3
<1>13. /\ j3 \in Seq(Ops) /\ Len(j3) = 11
       /\ \A i \in 1 .. 7 : j3[i] = j2[i]
       /\ \A i \in 1 .. 4 : j3[7 + i] = mk[i]
  BY <1>10, <1>11, <1>4, <1>12
<1>14. /\ j3[1] = fl[1] /\ j3[2] = xt[1] /\ j3[3] = xt[2] /\ j3[4] = xt[3] /\ j3[5] = pll[1]
       /\ j3[6] = pll[2] /\ j3[7] = pll[3] /\ j3[7 + 1] = mk[1] /\ j3[7 + 2] = mk[2]
       /\ j3[7 + 3] = mk[3] /\ j3[7 + 4] = mk[4]
  BY <1>13, <1>10, <1>11
<1> QED BY <1>1, <1>2, <1>3, <1>4, <1>13, <1>14, <1>5

LEMMA UsbIs ==
  LET R == SysclkEnableUsb
  IN  /\ R \in Seq(Ops) /\ Len(R) = 7 /\ R[1] = On("xtal") /\ R[2] = Wait({"xtal"})
      /\ R[3] = Select("xtal") /\ R[4] = Off("B") /\ R[5] = On("B") /\ R[6] = Wait({"B"})
      /\ R[7] = UdpckOn
<1> DEFINE xt == SwitchMainToXtal
           pll == EnablePll("B")
           on == <<UdpckOn>>
           j1 == xt \o pll
           j2 == j1 \o on
<1>1. /\ xt \in Seq(Ops) /\ Len(xt) = 3 /\ xt[1] = On("xtal") /\ xt[2] = Wait({"xtal"})
      /\ xt[3] = Select("xtal")
  BY SwitchesAre
<1>2. /\ pll \in Seq(Ops) /\ Len(pll) = 3 /\ pll[1] = Off("B") /\ pll[2] = On("B")
      /\ pll[3] = Wait({"B"})
  BY SwitchesAre DEF Plls
<1>3. /\ on \in Seq(Ops) /\ Len(on) = 1 /\ on[1] = UdpckOn
  BY SwitchesAre, Accesses DEF UdpckOn
<1>4. SysclkEnableUsb = j2 BY DEF SysclkEnableUsb, UdpckOn
<1> HIDE DEF xt, pll, on
<1>5. /\ j1 \in Seq(Ops) /\ Len(j1) = Len(xt) + Len(pll)
      /\ \A i \in 1 .. Len(xt) : j1[i] = xt[i]
      /\ \A i \in 1 .. Len(pll) : j1[Len(xt) + i] = pll[i]
  BY <1>1, <1>2, Joined, Zenon
<1> HIDE DEF j1
<1>6. /\ j1 \in Seq(Ops) /\ Len(j1) = 6
      /\ \A i \in 1 .. 3 : j1[i] = xt[i]
      /\ \A i \in 1 .. 3 : j1[3 + i] = pll[i]
  BY <1>1, <1>2, <1>5
<1>7. /\ j1[1] = xt[1] /\ j1[2] = xt[2] /\ j1[3] = xt[3] /\ j1[3 + 1] = pll[1]
      /\ j1[3 + 2] = pll[2] /\ j1[3 + 3] = pll[3]
  BY <1>6
<1>8. /\ j2 \in Seq(Ops) /\ Len(j2) = Len(j1) + Len(on)
      /\ \A i \in 1 .. Len(j1) : j2[i] = j1[i]
      /\ \A i \in 1 .. Len(on) : j2[Len(j1) + i] = on[i]
  BY <1>6, <1>7, <1>3, Joined, Zenon
<1> HIDE DEF j2
<1>9. /\ j2 \in Seq(Ops) /\ Len(j2) = 7
      /\ \A i \in 1 .. 6 : j2[i] = j1[i]
      /\ \A i \in 1 .. 1 : j2[6 + i] = on[i]
  BY <1>6, <1>7, <1>3, <1>8
<1>10. /\ j2[1] = xt[1] /\ j2[2] = xt[2] /\ j2[3] = xt[3] /\ j2[4] = pll[1] /\ j2[5] = pll[2]
       /\ j2[6] = pll[3] /\ j2[6 + 1] = on[1]
  BY <1>9, <1>6, <1>7
<1> QED BY <1>1, <1>2, <1>3, <1>9, <1>10, <1>4

LEMMA XtalThenOff ==
  LET R == XtalNoRc
  IN  /\ R \in Seq(Ops) /\ Len(R) = 4 /\ R[1] = On("xtal") /\ R[2] = Wait({"xtal"})
      /\ R[3] = Select("xtal") /\ R[4] = Off("rc")
<1> DEFINE xt == SwitchMainToXtal
           of == <<Off("rc")>>
           j1 == xt \o of
<1>1. /\ xt \in Seq(Ops) /\ Len(xt) = 3 /\ xt[1] = On("xtal") /\ xt[2] = Wait({"xtal"})
      /\ xt[3] = Select("xtal")
  BY SwitchesAre
<1>2. /\ of \in Seq(Ops) /\ Len(of) = 1 /\ of[1] = Off("rc")
  BY SwitchesAre, Accesses
<1>3. XtalNoRc = j1 BY DEF XtalNoRc
<1> HIDE DEF xt, of
<1>4. /\ j1 \in Seq(Ops) /\ Len(j1) = Len(xt) + Len(of)
      /\ \A i \in 1 .. Len(xt) : j1[i] = xt[i]
      /\ \A i \in 1 .. Len(of) : j1[Len(xt) + i] = of[i]
  BY <1>1, <1>2, Joined, Zenon
<1> HIDE DEF j1
<1>5. /\ j1 \in Seq(Ops) /\ Len(j1) = 4
      /\ \A i \in 1 .. 3 : j1[i] = xt[i]
      /\ \A i \in 1 .. 1 : j1[3 + i] = of[i]
  BY <1>1, <1>2, <1>4
<1>6. /\ j1[1] = xt[1] /\ j1[2] = xt[2] /\ j1[3] = xt[3] /\ j1[3 + 1] = of[1]
  BY <1>5
<1> QED BY <1>1, <1>2, <1>5, <1>6, <1>3

LEMMA SaveIs ==
  LET R == SaveOps
  IN  /\ R \in Seq(Ops) /\ Len(R) = 14 /\ R[1] = Css("slow") /\ R[2] = Poll(2)
      /\ R[3] = Pres(1) /\ R[4] = Poll(0) /\ R[5] = On("rc") /\ R[6] = Wait({"rc"})
      /\ R[7] = Select("rc") /\ R[8] = Off("xtal") /\ R[9] = Off("A") /\ R[10] = Off("B")
      /\ R[11] = Css("main") /\ R[12] = Poll(2) /\ R[13] = Pres(1) /\ R[14] = Poll(0)
<1> DEFINE sl == SwitchMck("slow", 1)
           rc == ToRc
           of == AllOff
           mn == SwitchMck("main", 1)
           j1 == sl \o rc
           j2 == j1 \o of
           j3 == j2 \o mn
<1>1. /\ sl \in Seq(Ops) /\ Len(sl) = 4 /\ sl[1] = Css("slow") /\ sl[2] = Poll(2)
      /\ sl[3] = Pres(1) /\ sl[4] = Poll(0)
  BY SwitchesAre
<1>2. /\ rc \in Seq(Ops) /\ Len(rc) = 3 /\ rc[1] = On("rc") /\ rc[2] = Wait({"rc"})
      /\ rc[3] = Select("rc")
  BY Accesses DEF ToRc
<1>3. /\ of \in Seq(Ops) /\ Len(of) = 3 /\ of[1] = Off("xtal") /\ of[2] = Off("A")
      /\ of[3] = Off("B")
  BY OffsAre
<1>4. /\ mn \in Seq(Ops) /\ Len(mn) = 4 /\ mn[1] = Css("main") /\ mn[2] = Poll(2)
      /\ mn[3] = Pres(1) /\ mn[4] = Poll(0)
  BY SwitchesAre
<1>5. SaveOps = j3 BY DEF SaveOps
<1> HIDE DEF sl, rc, of, mn
<1>6. /\ j1 \in Seq(Ops) /\ Len(j1) = Len(sl) + Len(rc)
      /\ \A i \in 1 .. Len(sl) : j1[i] = sl[i]
      /\ \A i \in 1 .. Len(rc) : j1[Len(sl) + i] = rc[i]
  BY <1>1, <1>2, Joined, Zenon
<1> HIDE DEF j1
<1>7. /\ j1 \in Seq(Ops) /\ Len(j1) = 7
      /\ \A i \in 1 .. 4 : j1[i] = sl[i]
      /\ \A i \in 1 .. 3 : j1[4 + i] = rc[i]
  BY <1>1, <1>2, <1>6
<1>8. /\ j1[1] = sl[1] /\ j1[2] = sl[2] /\ j1[3] = sl[3] /\ j1[4] = sl[4]
      /\ j1[4 + 1] = rc[1] /\ j1[4 + 2] = rc[2] /\ j1[4 + 3] = rc[3]
  BY <1>7
<1>9. /\ j2 \in Seq(Ops) /\ Len(j2) = Len(j1) + Len(of)
      /\ \A i \in 1 .. Len(j1) : j2[i] = j1[i]
      /\ \A i \in 1 .. Len(of) : j2[Len(j1) + i] = of[i]
  BY <1>7, <1>8, <1>3, Joined, Zenon
<1> HIDE DEF j2
<1>10. /\ j2 \in Seq(Ops) /\ Len(j2) = 10
       /\ \A i \in 1 .. 7 : j2[i] = j1[i]
       /\ \A i \in 1 .. 3 : j2[7 + i] = of[i]
  BY <1>7, <1>8, <1>3, <1>9
<1>11. /\ j2[1] = sl[1] /\ j2[2] = sl[2] /\ j2[3] = sl[3] /\ j2[4] = sl[4] /\ j2[5] = rc[1]
       /\ j2[6] = rc[2] /\ j2[7] = rc[3] /\ j2[7 + 1] = of[1] /\ j2[7 + 2] = of[2]
       /\ j2[7 + 3] = of[3]
  BY <1>10, <1>7, <1>8
<1>12. /\ j3 \in Seq(Ops) /\ Len(j3) = Len(j2) + Len(mn)
       /\ \A i \in 1 .. Len(j2) : j3[i] = j2[i]
       /\ \A i \in 1 .. Len(mn) : j3[Len(j2) + i] = mn[i]
  BY <1>10, <1>11, <1>4, Joined, Zenon
<1> HIDE DEF j3
<1>13. /\ j3 \in Seq(Ops) /\ Len(j3) = 14
       /\ \A i \in 1 .. 10 : j3[i] = j2[i]
       /\ \A i \in 1 .. 4 : j3[10 + i] = mn[i]
  BY <1>10, <1>11, <1>4, <1>12
<1>14. /\ j3[1] = sl[1] /\ j3[2] = sl[2] /\ j3[3] = sl[3] /\ j3[4] = sl[4] /\ j3[5] = rc[1]
       /\ j3[6] = rc[2] /\ j3[7] = rc[3] /\ j3[8] = of[1] /\ j3[9] = of[2] /\ j3[10] = of[3]
       /\ j3[10 + 1] = mn[1] /\ j3[10 + 2] = mn[2] /\ j3[10 + 3] = mn[3]
       /\ j3[10 + 4] = mn[4]
  BY <1>13, <1>10, <1>11
<1> QED BY <1>1, <1>2, <1>3, <1>4, <1>13, <1>14, <1>5

LEMMA RestoreIs ==
  LET R == RestoreOps
  IN  /\ R \in Seq(Ops) /\ Len(R) = 16 /\ R[1] = Css("slow") /\ R[2] = Poll(2)
      /\ R[3] = Pres(1) /\ R[4] = Poll(0) /\ R[5] = On("xtal") /\ R[6] = Wait({"xtal"})
      /\ R[7] = Select("xtal") /\ R[8] = Off("rc") /\ R[9] = On("A") /\ R[10] = On("B")
      /\ R[11] = Wait({"A"}) /\ R[12] = Pres(2) /\ R[13] = WaitMck /\ R[14] = Css("A")
      /\ R[15] = WaitMck /\ R[16] = WaitAny(Plls)
<1> DEFINE sl == SwitchMck("slow", 1)
           xt == XtalNoRc
           pa == <<On("A")>>
           pb == <<On("B")>>
           wa == <<Wait({"A"})>>
           en == MckOnPll(Plls)
           j1 == sl \o xt
           j2 == j1 \o pa
           j3 == j2 \o pb
           j4 == j3 \o wa
           j5 == j4 \o en
<1>1. /\ sl \in Seq(Ops) /\ Len(sl) = 4 /\ sl[1] = Css("slow") /\ sl[2] = Poll(2)
      /\ sl[3] = Pres(1) /\ sl[4] = Poll(0)
  BY SwitchesAre
<1>2. /\ xt \in Seq(Ops) /\ Len(xt) = 4 /\ xt[1] = On("xtal") /\ xt[2] = Wait({"xtal"})
      /\ xt[3] = Select("xtal") /\ xt[4] = Off("rc")
  BY XtalThenOff
<1>3. /\ pa \in Seq(Ops) /\ Len(pa) = 1 /\ pa[1] = On("A")
  BY SwitchesAre, Accesses
<1>4. /\ pb \in Seq(Ops) /\ Len(pb) = 1 /\ pb[1] = On("B")
  BY SwitchesAre, Accesses
<1>5. /\ wa \in Seq(Ops) /\ Len(wa) = 1 /\ wa[1] = Wait({"A"})
  BY SwitchesAre, Accesses
<1>6. /\ en \in Seq(Ops) /\ Len(en) = 5 /\ en[1] = Pres(2) /\ en[2] = WaitMck
      /\ en[3] = Css("A") /\ en[4] = WaitMck /\ en[5] = WaitAny(Plls)
  BY MckOnPllIs DEF Plls
<1>7. RestoreOps = j5 BY DEF RestoreOps
<1> HIDE DEF sl, xt, pa, pb, wa, en
<1>8. /\ j1 \in Seq(Ops) /\ Len(j1) = Len(sl) + Len(xt)
      /\ \A i \in 1 .. Len(sl) : j1[i] = sl[i]
      /\ \A i \in 1 .. Len(xt) : j1[Len(sl) + i] = xt[i]
  BY <1>1, <1>2, Joined, Zenon
<1> HIDE DEF j1
<1>9. /\ j1 \in Seq(Ops) /\ Len(j1) = 8
      /\ \A i \in 1 .. 4 : j1[i] = sl[i]
      /\ \A i \in 1 .. 4 : j1[4 + i] = xt[i]
  BY <1>1, <1>2, <1>8
<1>10. /\ j1[1] = sl[1] /\ j1[2] = sl[2] /\ j1[3] = sl[3] /\ j1[4] = sl[4]
       /\ j1[4 + 1] = xt[1] /\ j1[4 + 2] = xt[2] /\ j1[4 + 3] = xt[3] /\ j1[4 + 4] = xt[4]
  BY <1>9
<1>11. /\ j2 \in Seq(Ops) /\ Len(j2) = Len(j1) + Len(pa)
       /\ \A i \in 1 .. Len(j1) : j2[i] = j1[i]
       /\ \A i \in 1 .. Len(pa) : j2[Len(j1) + i] = pa[i]
  BY <1>9, <1>10, <1>3, Joined, Zenon
<1> HIDE DEF j2
<1>12. /\ j2 \in Seq(Ops) /\ Len(j2) = 9
       /\ \A i \in 1 .. 8 : j2[i] = j1[i]
       /\ \A i \in 1 .. 1 : j2[8 + i] = pa[i]
  BY <1>9, <1>10, <1>3, <1>11
<1>13. /\ j2[1] = sl[1] /\ j2[2] = sl[2] /\ j2[3] = sl[3] /\ j2[4] = sl[4] /\ j2[5] = xt[1]
       /\ j2[6] = xt[2] /\ j2[7] = xt[3] /\ j2[8] = xt[4] /\ j2[8 + 1] = pa[1]
  BY <1>12, <1>9, <1>10
<1>14. /\ j3 \in Seq(Ops) /\ Len(j3) = Len(j2) + Len(pb)
       /\ \A i \in 1 .. Len(j2) : j3[i] = j2[i]
       /\ \A i \in 1 .. Len(pb) : j3[Len(j2) + i] = pb[i]
  BY <1>12, <1>13, <1>4, Joined, Zenon
<1> HIDE DEF j3
<1>15. /\ j3 \in Seq(Ops) /\ Len(j3) = 10
       /\ \A i \in 1 .. 9 : j3[i] = j2[i]
       /\ \A i \in 1 .. 1 : j3[9 + i] = pb[i]
  BY <1>12, <1>13, <1>4, <1>14
<1>16. /\ j3[1] = sl[1] /\ j3[2] = sl[2] /\ j3[3] = sl[3] /\ j3[4] = sl[4] /\ j3[5] = xt[1]
       /\ j3[6] = xt[2] /\ j3[7] = xt[3] /\ j3[8] = xt[4] /\ j3[9] = pa[1]
       /\ j3[9 + 1] = pb[1]
  BY <1>15, <1>12, <1>13
<1>17. /\ j4 \in Seq(Ops) /\ Len(j4) = Len(j3) + Len(wa)
       /\ \A i \in 1 .. Len(j3) : j4[i] = j3[i]
       /\ \A i \in 1 .. Len(wa) : j4[Len(j3) + i] = wa[i]
  BY <1>15, <1>16, <1>5, Joined, Zenon
<1> HIDE DEF j4
<1>18. /\ j4 \in Seq(Ops) /\ Len(j4) = 11
       /\ \A i \in 1 .. 10 : j4[i] = j3[i]
       /\ \A i \in 1 .. 1 : j4[10 + i] = wa[i]
  BY <1>15, <1>16, <1>5, <1>17
<1>19. /\ j4[1] = sl[1] /\ j4[2] = sl[2] /\ j4[3] = sl[3] /\ j4[4] = sl[4] /\ j4[5] = xt[1]
       /\ j4[6] = xt[2] /\ j4[7] = xt[3] /\ j4[8] = xt[4] /\ j4[9] = pa[1] /\ j4[10] = pb[1]
       /\ j4[10 + 1] = wa[1]
  BY <1>18, <1>15, <1>16
<1>20. /\ j5 \in Seq(Ops) /\ Len(j5) = Len(j4) + Len(en)
       /\ \A i \in 1 .. Len(j4) : j5[i] = j4[i]
       /\ \A i \in 1 .. Len(en) : j5[Len(j4) + i] = en[i]
  BY <1>18, <1>19, <1>6, Joined, Zenon
<1> HIDE DEF j5
<1>21. /\ j5 \in Seq(Ops) /\ Len(j5) = 16
       /\ \A i \in 1 .. 11 : j5[i] = j4[i]
       /\ \A i \in 1 .. 5 : j5[11 + i] = en[i]
  BY <1>18, <1>19, <1>6, <1>20
<1>22. /\ j5[1] = sl[1] /\ j5[2] = sl[2] /\ j5[3] = sl[3] /\ j5[4] = sl[4] /\ j5[5] = xt[1]
       /\ j5[6] = xt[2] /\ j5[7] = xt[3] /\ j5[8] = xt[4] /\ j5[9] = pa[1] /\ j5[10] = pb[1]
       /\ j5[11] = wa[1] /\ j5[11 + 1] = en[1] /\ j5[11 + 2] = en[2] /\ j5[11 + 3] = en[3]
       /\ j5[11 + 4] = en[4] /\ j5[11 + 5] = en[5]
  BY <1>21, <1>18, <1>19
<1> QED BY <1>1, <1>2, <1>3, <1>4, <1>5, <1>6, <1>21, <1>22, <1>7

LEMMA RestoreNoBIs ==
  LET R == RestoreOpsNoB
  IN  /\ R \in Seq(Ops) /\ Len(R) = 15 /\ R[1] = Css("slow") /\ R[2] = Poll(2)
      /\ R[3] = Pres(1) /\ R[4] = Poll(0) /\ R[5] = On("xtal") /\ R[6] = Wait({"xtal"})
      /\ R[7] = Select("xtal") /\ R[8] = Off("rc") /\ R[9] = On("A") /\ R[10] = Wait({"A"})
      /\ R[11] = Pres(2) /\ R[12] = WaitMck /\ R[13] = Css("A") /\ R[14] = WaitMck
      /\ R[15] = WaitAny({"A"})
<1> DEFINE sl == SwitchMck("slow", 1)
           xt == XtalNoRc
           pa == <<On("A")>>
           wa == <<Wait({"A"})>>
           en == MckOnPll({"A"})
           j1 == sl \o xt
           j2 == j1 \o pa
           j3 == j2 \o wa
           j4 == j3 \o en
<1>1. /\ sl \in Seq(Ops) /\ Len(sl) = 4 /\ sl[1] = Css("slow") /\ sl[2] = Poll(2)
      /\ sl[3] = Pres(1) /\ sl[4] = Poll(0)
  BY SwitchesAre
<1>2. /\ xt \in Seq(Ops) /\ Len(xt) = 4 /\ xt[1] = On("xtal") /\ xt[2] = Wait({"xtal"})
      /\ xt[3] = Select("xtal") /\ xt[4] = Off("rc")
  BY XtalThenOff
<1>3. /\ pa \in Seq(Ops) /\ Len(pa) = 1 /\ pa[1] = On("A")
  BY SwitchesAre, Accesses
<1>4. /\ wa \in Seq(Ops) /\ Len(wa) = 1 /\ wa[1] = Wait({"A"})
  BY SwitchesAre, Accesses
<1>5. /\ en \in Seq(Ops) /\ Len(en) = 5 /\ en[1] = Pres(2) /\ en[2] = WaitMck
      /\ en[3] = Css("A") /\ en[4] = WaitMck /\ en[5] = WaitAny({"A"})
  BY MckOnPllIs DEF Plls
<1>6. RestoreOpsNoB = j4 BY DEF RestoreOpsNoB
<1> HIDE DEF sl, xt, pa, wa, en
<1>7. /\ j1 \in Seq(Ops) /\ Len(j1) = Len(sl) + Len(xt)
      /\ \A i \in 1 .. Len(sl) : j1[i] = sl[i]
      /\ \A i \in 1 .. Len(xt) : j1[Len(sl) + i] = xt[i]
  BY <1>1, <1>2, Joined, Zenon
<1> HIDE DEF j1
<1>8. /\ j1 \in Seq(Ops) /\ Len(j1) = 8
      /\ \A i \in 1 .. 4 : j1[i] = sl[i]
      /\ \A i \in 1 .. 4 : j1[4 + i] = xt[i]
  BY <1>1, <1>2, <1>7
<1>9. /\ j1[1] = sl[1] /\ j1[2] = sl[2] /\ j1[3] = sl[3] /\ j1[4] = sl[4]
      /\ j1[4 + 1] = xt[1] /\ j1[4 + 2] = xt[2] /\ j1[4 + 3] = xt[3] /\ j1[4 + 4] = xt[4]
  BY <1>8
<1>10. /\ j2 \in Seq(Ops) /\ Len(j2) = Len(j1) + Len(pa)
       /\ \A i \in 1 .. Len(j1) : j2[i] = j1[i]
       /\ \A i \in 1 .. Len(pa) : j2[Len(j1) + i] = pa[i]
  BY <1>8, <1>9, <1>3, Joined, Zenon
<1> HIDE DEF j2
<1>11. /\ j2 \in Seq(Ops) /\ Len(j2) = 9
       /\ \A i \in 1 .. 8 : j2[i] = j1[i]
       /\ \A i \in 1 .. 1 : j2[8 + i] = pa[i]
  BY <1>8, <1>9, <1>3, <1>10
<1>12. /\ j2[1] = sl[1] /\ j2[2] = sl[2] /\ j2[3] = sl[3] /\ j2[4] = sl[4] /\ j2[5] = xt[1]
       /\ j2[6] = xt[2] /\ j2[7] = xt[3] /\ j2[8] = xt[4] /\ j2[8 + 1] = pa[1]
  BY <1>11, <1>8, <1>9
<1>13. /\ j3 \in Seq(Ops) /\ Len(j3) = Len(j2) + Len(wa)
       /\ \A i \in 1 .. Len(j2) : j3[i] = j2[i]
       /\ \A i \in 1 .. Len(wa) : j3[Len(j2) + i] = wa[i]
  BY <1>11, <1>12, <1>4, Joined, Zenon
<1> HIDE DEF j3
<1>14. /\ j3 \in Seq(Ops) /\ Len(j3) = 10
       /\ \A i \in 1 .. 9 : j3[i] = j2[i]
       /\ \A i \in 1 .. 1 : j3[9 + i] = wa[i]
  BY <1>11, <1>12, <1>4, <1>13
<1>15. /\ j3[1] = sl[1] /\ j3[2] = sl[2] /\ j3[3] = sl[3] /\ j3[4] = sl[4] /\ j3[5] = xt[1]
       /\ j3[6] = xt[2] /\ j3[7] = xt[3] /\ j3[8] = xt[4] /\ j3[9] = pa[1]
       /\ j3[9 + 1] = wa[1]
  BY <1>14, <1>11, <1>12
<1>16. /\ j4 \in Seq(Ops) /\ Len(j4) = Len(j3) + Len(en)
       /\ \A i \in 1 .. Len(j3) : j4[i] = j3[i]
       /\ \A i \in 1 .. Len(en) : j4[Len(j3) + i] = en[i]
  BY <1>14, <1>15, <1>5, Joined, Zenon
<1> HIDE DEF j4
<1>17. /\ j4 \in Seq(Ops) /\ Len(j4) = 15
       /\ \A i \in 1 .. 10 : j4[i] = j3[i]
       /\ \A i \in 1 .. 5 : j4[10 + i] = en[i]
  BY <1>14, <1>15, <1>5, <1>16
<1>18. /\ j4[1] = sl[1] /\ j4[2] = sl[2] /\ j4[3] = sl[3] /\ j4[4] = sl[4] /\ j4[5] = xt[1]
       /\ j4[6] = xt[2] /\ j4[7] = xt[3] /\ j4[8] = xt[4] /\ j4[9] = pa[1] /\ j4[10] = wa[1]
       /\ j4[10 + 1] = en[1] /\ j4[10 + 2] = en[2] /\ j4[10 + 3] = en[3]
       /\ j4[10 + 4] = en[4] /\ j4[10 + 5] = en[5]
  BY <1>17, <1>14, <1>15
<1> QED BY <1>1, <1>2, <1>3, <1>4, <1>5, <1>17, <1>18, <1>6

LEMMA RestoreNoBPrefix == SwitchMck("slow", 1) \o XtalNoRc \o <<On("A")>> \in Seq(Ops)
<1>1. SwitchMck("slow", 1) \in Seq(Ops) /\ XtalNoRc \in Seq(Ops) /\ <<On("A")>> \in Seq(Ops)
  BY SwitchesAre, XtalThenOff, Accesses
<1> QED BY <1>1, OpSeqs

-----------------------------------------------------------------------------
(* The hazards of the README that concern the clocks do not happen: a wait *)
(* ends when what it waits for is so.                                      *)
Patient == Deviations \intersect {"unlocked", "impatient"} = {}

(* What is left of a routine is its k-th access and what is left then.     *)
LEMMA WhatIsLeft ==
  ASSUME NEW R \in Seq(Ops), NEW k \in 1 .. Len(R) + 1
  PROVE  /\ k <= Len(R) => LET s == SubSeq(R, k, Len(R))
                           IN s # <<>> /\ Head(s) = R[k] /\ Tail(s) = SubSeq(R, k + 1, Len(R))
         /\ k = Len(R) + 1 <=> SubSeq(R, k, Len(R)) = <<>>
         /\ SubSeq(R, 1, Len(R)) = R
<1> DEFINE s == SubSeq(R, k, Len(R))
<1>0. R \in Seq(Ops) /\ Len(R) \in Nat /\ k \in Nat OBVIOUS
<1>1. /\ s \in Seq(Ops) /\ Len(s) = Len(R) + 1 - k
      /\ \A i \in 1 .. Len(s) : s[i] = R[k + i - 1]
  <2>1. \A j \in k .. Len(R) : R[j] \in Ops BY <1>0
  <2> QED BY <1>0, <2>1, SubSeqProperties
<1>2. ASSUME k <= Len(R)
      PROVE  s # <<>> /\ Head(s) = R[k] /\ Tail(s) = SubSeq(R, k + 1, Len(R))
  <2> DEFINE t == SubSeq(R, k + 1, Len(R))
  <2>1. \A j \in k + 1 .. Len(R) : R[j] \in Ops BY <1>0
  <2>2. /\ t \in Seq(Ops) /\ Len(t) = Len(R) - k
        /\ \A i \in 1 .. Len(t) : t[i] = R[k + i]
    BY <1>0, <1>2, <2>1, SubSeqProperties
  <2> HIDE DEF s, t
  <2>3. Len(s) \in Nat \ {0} /\ s # <<>> /\ s[1] = R[k] BY <1>0, <1>1, <1>2
  <2>4. Head(s) = s[1] /\ Len(Tail(s)) = Len(s) - 1 /\ Tail(s) \in Seq(Ops)
        /\ \A i \in 1 .. Len(s) - 1 : Tail(s)[i] = s[i + 1]
    BY <1>1, <2>3, HeadTailProperties
  <2>5. Len(Tail(s)) = Len(t)
    <3> DEFINE n == Len(R)
    <3>1. Len(Tail(s)) = (n + 1 - k) - 1 /\ Len(t) = n - k BY <1>1, <2>2, <2>4
    <3>2. n \in Nat /\ k \in Nat BY <1>0
    <3> HIDE DEF n
    <3> QED BY <3>1, <3>2
  <2>6. ASSUME NEW i \in 1 .. Len(Tail(s)) PROVE Tail(s)[i] = t[i]
    <3>1. i \in 1 .. Len(t) /\ i + 1 \in 1 .. Len(s) /\ i \in 1 .. Len(s) - 1
      BY <1>0, <1>1, <2>2, <2>5
    <3>2. Tail(s)[i] = s[i + 1] /\ s[i + 1] = R[k + (i + 1) - 1] /\ t[i] = R[k + i]
      BY <1>1, <2>2, <2>4, <3>1
    <3>3. k + (i + 1) - 1 = k + i BY <1>0, <3>1
    <3> QED BY <3>2, <3>3
  <2>7. Tail(s) = t BY <2>2, <2>4, <2>5, <2>6, SeqEqual
  <2> QED BY <2>3, <2>4, <2>7 DEF s, t
<1>3. k = Len(R) + 1 <=> s = <<>>
  <2> HIDE DEF s
  <2>1. s = <<>> <=> Len(s) = 0 BY <1>1, EmptySeq
  <2> QED BY <1>0, <1>1, <2>1
<1>4. SubSeq(R, 1, Len(R)) = R OBVIOUS
<1> QED BY <1>2, <1>3, <1>4

(* What an access does to the clocks, and what it waits for.               *)
Effect(op) ==
  /\ op[1] = "on" => osc' = osc \cup {op[2]} /\ UNCHANGED <<ready, sel, mckr, mck, usb, flash>>
  /\ op[1] = "off" => /\ osc' = osc \ {op[2]} /\ ready' = ready \ {op[2]}
                      /\ UNCHANGED <<sel, mckr, mck, usb, flash>>
  /\ op[1] = "select" => /\ sel' = op[2]
                         /\ ready' = IF sel = op[2] THEN ready ELSE ready \ Plls
                         /\ UNCHANGED <<osc, mckr, mck, usb, flash>>
  /\ op[1] = "css" => /\ mckr' = [mckr EXCEPT !.css = op[2]]
                      /\ UNCHANGED <<osc, ready, sel, mck, usb, flash>>
  /\ op[1] = "pres" => /\ mckr' = [mckr EXCEPT !.pres = op[2]]
                       /\ UNCHANGED <<osc, ready, sel, mck, usb, flash>>
  /\ op[1] \in {"wait", "any"} => op[2] \subseteq ready
  /\ op[1] \in {"mck", "poll"} => mck = mckr
  /\ op[1] \in {"wait", "any", "mck", "poll"} =>
       UNCHANGED <<osc, ready, sel, mckr, mck, usb, flash>>
  /\ op[1] = "flash" => flash' = op[2] /\ UNCHANGED <<osc, ready, sel, mckr, mck, usb>>
  /\ op[1] = "usb" => usb' = op[2] /\ UNCHANGED <<osc, ready, sel, mckr, mck, flash>>

LEMMA StepEffect ==
  ASSUME Patient, ClocksStep
  PROVE  todo # <<>> /\ todo' = Tail(todo) /\ Effect(Head(todo))
<1> USE DEF ClocksStep, Access, Arg, Done, Effect
<1>1. CASE SwitchOn BY <1>1 DEF SwitchOn
<1>2. CASE SwitchOff BY <1>2 DEF SwitchOff
<1>3. CASE SelectMain BY <1>3 DEF SelectMain
<1>4. CASE WriteMckr BY <1>4 DEF WriteMckr
<1>5. CASE EndWait BY <1>5 DEF EndWait, Patient
<1>6. CASE TimeOut BY <1>6 DEF TimeOut, Patient
<1>7. CASE WriteOther BY <1>7 DEF WriteOther
<1> QED BY <1>1, <1>2, <1>3, <1>4, <1>5, <1>6, <1>7

LEMMA Effects ==
  /\ \A s : Effect(On(s)) =>
       osc' = osc \cup {s} /\ UNCHANGED <<ready, sel, mckr, mck, usb, flash>>
  /\ \A s : Effect(Off(s)) =>
       osc' = osc \ {s} /\ ready' = ready \ {s} /\ UNCHANGED <<sel, mckr, mck, usb, flash>>
  /\ \A s : Effect(Select(s)) =>
       /\ sel' = s /\ ready' = IF sel = s THEN ready ELSE ready \ Plls
       /\ UNCHANGED <<osc, mckr, mck, usb, flash>>
  /\ \A s, a, b : Effect(Css(s)) /\ mckr = Speed(a, b) =>
       mckr' = Speed(s, b) /\ UNCHANGED <<osc, ready, sel, mck, usb, flash>>
  /\ \A p, a, b : Effect(Pres(p)) /\ mckr = Speed(a, b) =>
       mckr' = Speed(a, p) /\ UNCHANGED <<osc, ready, sel, mck, usb, flash>>
  /\ \A S : Effect(Wait(S)) \/ Effect(WaitAny(S)) =>
       S \subseteq ready /\ UNCHANGED <<osc, ready, sel, mckr, mck, usb, flash>>
  /\ \A n : Effect(WaitMck) \/ Effect(Poll(n)) =>
       mck = mckr /\ UNCHANGED <<osc, ready, sel, mckr, mck, usb, flash>>
  /\ \A f : Effect(Flash(f)) => flash' = f /\ UNCHANGED <<osc, ready, sel, mckr, mck, usb>>
  /\ Effect(UdpckOn) => usb' = TRUE /\ UNCHANGED <<osc, ready, sel, mckr, mck, flash>>
<1>1. ASSUME Effect(UdpckOn)
      PROVE  usb' = TRUE /\ UNCHANGED <<osc, ready, sel, mckr, mck, flash>>
  <2>1. UdpckOn[1] = "usb" /\ UdpckOn[2] = TRUE BY DEF UdpckOn, Udpck
  <2> QED BY <1>1, <2>1 DEF Effect
<1> HIDE DEF UdpckOn
<1> USE DEF Effect
<1>2. \A s : Effect(On(s)) =>
        osc' = osc \cup {s} /\ UNCHANGED <<ready, sel, mckr, mck, usb, flash>>
  BY DEF On
<1>3. \A s : Effect(Off(s)) =>
        osc' = osc \ {s} /\ ready' = ready \ {s} /\ UNCHANGED <<sel, mckr, mck, usb, flash>>
  BY DEF Off
<1>4. \A s : Effect(Select(s)) =>
        /\ sel' = s /\ ready' = IF sel = s THEN ready ELSE ready \ Plls
        /\ UNCHANGED <<osc, mckr, mck, usb, flash>>
  BY DEF Select
<1>5. \A s, a, b : Effect(Css(s)) /\ mckr = Speed(a, b) =>
        mckr' = Speed(s, b) /\ UNCHANGED <<osc, ready, sel, mck, usb, flash>>
  BY DEF Css, Speed
<1>6. \A p, a, b : Effect(Pres(p)) /\ mckr = Speed(a, b) =>
        mckr' = Speed(a, p) /\ UNCHANGED <<osc, ready, sel, mck, usb, flash>>
  BY DEF Pres, Speed
<1>7. \A S : Effect(Wait(S)) \/ Effect(WaitAny(S)) =>
        S \subseteq ready /\ UNCHANGED <<osc, ready, sel, mckr, mck, usb, flash>>
  BY DEF Wait, WaitAny
<1>8. \A n : Effect(WaitMck) \/ Effect(Poll(n)) =>
        mck = mckr /\ UNCHANGED <<osc, ready, sel, mckr, mck, usb, flash>>
  BY DEF WaitMck, Poll
<1>9. \A f : Effect(Flash(f)) => flash' = f /\ UNCHANGED <<osc, ready, sel, mckr, mck, usb>>
  BY DEF Flash
<1> HIDE DEF Effect
<1> QED BY <1>1, <1>2, <1>3, <1>4, <1>5, <1>6, <1>7, <1>8, <1>9

LEMMA SettleEffect ==
  ASSUME ClocksTypeOK, ClocksSettle
  PROVE  /\ ready \subseteq ready' /\ (mck' = mck \/ mck' = mckr)
         /\ UNCHANGED <<osc, sel, mckr, usb, flash, todo>>
BY DEF ClocksSettle, Settle

LEMMA RoutinesAre ==
  /\ "xtal" \in osc => SaveClocks = SaveOps
  /\ \A was \in SUBSET Sources : {"xtal", "A"} \subseteq was =>
       RestoreClocks(was, Full) = IF "B" \in was THEN RestoreOps ELSE RestoreOpsNoB
<1>3. "xtal" \in osc => SaveClocks = SaveOps
  BY DEF SaveClocks, SaveOps, SwitchMainToRc, ToRc, AllOff
<1>4. ASSUME NEW was \in SUBSET Sources, {"xtal", "A"} \subseteq was, "B" \in was
      PROVE  RestoreClocks(was, Full) = RestoreOps
  <2>1. was \intersect Plls = Plls BY <1>4 DEF Plls
  <2>2. Full.css = "A" /\ Full.pres = 2 BY DEF Full
  <2>3. "A" \in Plls /\ "B" \in Plls BY DEF Plls
  <2> QED BY <1>4, <2>1, <2>2, <2>3 DEF RestoreClocks, RestoreOps, XtalNoRc, MckOnPll
<1>5. ASSUME NEW was \in SUBSET Sources, {"xtal", "A"} \subseteq was, "B" \notin was
      PROVE  RestoreClocks(was, Full) = RestoreOpsNoB
  <2>1. was \intersect Plls = {"A"} /\ "B" \notin {"A"} BY <1>5 DEF Plls
  <2>2. Full.css = "A" /\ Full.pres = 2 BY DEF Full
  <2> DEFINE s == SwitchMck("slow", 1) \o XtalNoRc \o <<On("A")>>
  <2>3. s \in Seq(Ops) BY RestoreNoBPrefix
  <2> HIDE DEF s
  <2>4. s \o <<>> = s BY <2>3, ConcatEmptySeq
  <2>5. RestoreClocks(was, Full) = s \o <<>> \o <<Wait({"A"})>> \o MckOnPll({"A"})
    BY <1>5, <2>1, <2>2 DEF s, RestoreClocks, XtalNoRc, MckOnPll
  <2>6. RestoreOpsNoB = s \o <<Wait({"A"})>> \o MckOnPll({"A"})
    BY DEF s, RestoreOpsNoB
  <2> QED BY <2>4, <2>5, <2>6
<1> QED BY <1>3, <1>4, <1>5

LEMMA FullIs == Full = Speed("A", 2) BY DEF Full, Speed

(* From one access of a routine to the next.                               *)
LEMMA BootStep ==
  ASSUME NEW k \in 1 .. 11, BootAt(k), Effect(SysclkInit[k])
  PROVE  BootAt(k + 1)'
<1> USE BootIs, Effects, FullIs DEF BootAt, Lags
<1>1. CASE k = 8
  <2>1. mckr' = Speed("main", 2) /\ UNCHANGED <<osc, ready, sel, mck, usb, flash>> BY <1>1
  <2> QED BY <1>1, <2>1
<1>2. CASE k = 10
  <2>1. mckr' = Speed("A", 2) /\ UNCHANGED <<osc, ready, sel, mck, usb, flash>> BY <1>2
  <2> QED BY <1>2, <2>1
<1>3. CASE k \in {1, 2, 3, 4, 5} BY <1>3 DEF Plls
<1>4. CASE k \in {6, 7, 9, 11} BY <1>4
<1> HIDE BootIs, Effects, FullIs DEF BootAt, Lags
<1> QED BY <1>1, <1>2, <1>3, <1>4

LEMMA UsbStep ==
  ASSUME NEW k \in 1 .. 7, UsbAt(k), Effect(SysclkEnableUsb[k])
  PROVE  UsbAt(k + 1)'
<1> USE UsbIs, Effects, FullIs DEF UsbAt, Lags, FullSpeed
<1>1. CASE k \in {1, 2, 3, 4, 5} BY <1>1
<1>2. CASE k \in {6, 7} BY <1>2
<1> HIDE UsbIs, Effects, FullIs DEF UsbAt, Lags, FullSpeed
<1> QED BY <1>1, <1>2

LEMMA SaveStep ==
  ASSUME UNCHANGED saved, NEW k \in 1 .. 14, SaveAt(k), Effect(SaveOps[k])
  PROVE  SaveAt(k + 1)'
<1> USE SaveIs, Effects, FullIs DEF SaveAt, Lags, Saved
<1>1. CASE k = 1
  <2>1. mckr' = Speed("slow", 2) /\ UNCHANGED <<osc, ready, sel, mck, usb, flash>> BY <1>1
  <2> QED BY <1>1, <2>1
<1>2. CASE k = 3
  <2>1. mckr' = Speed("slow", 1) /\ UNCHANGED <<osc, ready, sel, mck, usb, flash>> BY <1>2
  <2> QED BY <1>2, <2>1
<1>3. CASE k = 11
  <2>1. mckr' = Speed("main", 1) /\ UNCHANGED <<osc, ready, sel, mck, usb, flash>> BY <1>3
  <2> QED BY <1>3, <2>1
<1>4. CASE k = 13
  <2>1. mckr' = Speed("main", 1) /\ UNCHANGED <<osc, ready, sel, mck, usb, flash>> BY <1>4
  <2> QED BY <1>4, <2>1
<1>5. CASE k \in {2, 4, 5, 6, 7} BY <1>5 DEF Plls
<1>6. CASE k \in {8, 9, 10, 12, 14} BY <1>6
<1> HIDE SaveIs, Effects, FullIs DEF SaveAt, Lags, Saved
<1> QED BY <1>1, <1>2, <1>3, <1>4, <1>5, <1>6

LEMMA RestoreStep ==
  ASSUME "B" \in saved.osc, UNCHANGED saved, NEW k \in 1 .. 16, RestoreAt(k), Effect(RestoreOps[k])
  PROVE  RestoreAt(k + 1)'
<1> USE RestoreIs, Effects, FullIs DEF RestoreAt, Lags, Saved
<1>1. CASE k = 1
  <2>1. mckr' = Speed("slow", 1) /\ UNCHANGED <<osc, ready, sel, mck, usb, flash>> BY <1>1
  <2> QED BY <1>1, <2>1
<1>2. CASE k = 3
  <2>1. mckr' = Speed("slow", 1) /\ UNCHANGED <<osc, ready, sel, mck, usb, flash>> BY <1>2
  <2> QED BY <1>2, <2>1
<1>3. CASE k = 12
  <2>1. mckr' = Speed("slow", 2) /\ UNCHANGED <<osc, ready, sel, mck, usb, flash>> BY <1>3
  <2> QED BY <1>3, <2>1
<1>4. CASE k = 14
  <2>1. mckr' = Speed("A", 2) /\ UNCHANGED <<osc, ready, sel, mck, usb, flash>> BY <1>4
  <2> QED BY <1>4, <2>1
<1>5. CASE k \in {2, 4, 5, 6, 7} BY <1>5 DEF Plls
<1>6. CASE k \in {8, 9, 10, 11, 13} BY <1>6
<1>7. CASE k \in {15, 16} BY <1>7 DEF Plls
<1> HIDE RestoreIs, Effects, FullIs DEF RestoreAt, Lags, Saved
<1> QED BY <1>1, <1>2, <1>3, <1>4, <1>5, <1>6, <1>7

LEMMA RestoreNoBStep ==
  ASSUME "B" \notin saved.osc, UNCHANGED saved,
         NEW k \in 1 .. 15, RestoreAt(Stage(k)), Effect(RestoreOpsNoB[k])
  PROVE  RestoreAt(Stage(k + 1))'
<1> USE RestoreNoBIs, Effects, FullIs DEF Stage, RestoreAt, Lags, Saved
<1>1. CASE k = 1
  <2>1. mckr' = Speed("slow", 1) /\ UNCHANGED <<osc, ready, sel, mck, usb, flash>> BY <1>1
  <2> QED BY <1>1, <2>1
<1>2. CASE k = 3
  <2>1. mckr' = Speed("slow", 1) /\ UNCHANGED <<osc, ready, sel, mck, usb, flash>> BY <1>2
  <2> QED BY <1>2, <2>1
<1>3. CASE k = 11
  <2>1. mckr' = Speed("slow", 2) /\ UNCHANGED <<osc, ready, sel, mck, usb, flash>> BY <1>3
  <2> QED BY <1>3, <2>1
<1>4. CASE k = 13
  <2>1. mckr' = Speed("A", 2) /\ UNCHANGED <<osc, ready, sel, mck, usb, flash>> BY <1>4
  <2> QED BY <1>4, <2>1
<1>5. CASE k \in {2, 4, 5, 6, 7} BY <1>5 DEF Plls
<1>6. CASE k \in {8, 9, 10, 12, 14} BY <1>6
<1>7. CASE k = 15 BY <1>7
<1> HIDE RestoreNoBIs, Effects, FullIs DEF Stage, RestoreAt, Lags, Saved
<1> QED BY <1>1, <1>2, <1>3, <1>4, <1>5, <1>6, <1>7

(* What settles changes nothing of it, and at each access the clocks are   *)
(* sound.                                                                  *)
LEMMA BootSettle ==
  ASSUME ClocksTypeOK, UNCHANGED saved, NEW k \in 1 .. 12, BootAt(k), ClocksSettle
  PROVE  BootAt(k)'
BY SettleEffect DEF BootAt, Lags

LEMMA BootSound == ASSUME NEW k \in 1 .. 12, BootAt(k) PROVE MckSound
BY DEF MckSound, Runs, BootAt, Lags, Speed, Full

LEMMA UsbSettle ==
  ASSUME ClocksTypeOK, UNCHANGED saved, NEW k \in 1 .. 8, UsbAt(k), ClocksSettle
  PROVE  UsbAt(k)'
BY SettleEffect DEF UsbAt, Lags, FullSpeed

LEMMA UsbSound == ASSUME NEW k \in 1 .. 8, UsbAt(k) PROVE MckSound
BY DEF MckSound, Runs, UsbAt, Lags, Speed, Full, FullSpeed

LEMMA SaveSettle ==
  ASSUME ClocksTypeOK, UNCHANGED saved, NEW k \in 1 .. 15, SaveAt(k), ClocksSettle
  PROVE  SaveAt(k)'
BY SettleEffect DEF SaveAt, Lags, Saved

LEMMA SaveSound == ASSUME NEW k \in 1 .. 15, SaveAt(k) PROVE MckSound
BY DEF MckSound, Runs, SaveAt, Lags, Speed, Full

LEMMA RestoreSettle ==
  ASSUME ClocksTypeOK, UNCHANGED saved, NEW k \in 1 .. 17, RestoreAt(k), ClocksSettle
  PROVE  RestoreAt(k)'
BY SettleEffect DEF RestoreAt, Lags, Saved

LEMMA RestoreSound == ASSUME NEW k \in 1 .. 17, RestoreAt(k) PROVE MckSound
BY DEF MckSound, Runs, RestoreAt, Lags, Speed, Full

(* A step of the routine R takes its k-th access.                          *)
LEMMA Follows ==
  ASSUME Patient, ClocksStep, NEW R \in Seq(Ops), NEW k \in 1 .. Len(R) + 1,
         todo = SubSeq(R, k, Len(R))
  PROVE  k \in 1 .. Len(R) /\ Effect(R[k]) /\ todo' = SubSeq(R, k + 1, Len(R))
<1>0. Len(R) \in Nat OBVIOUS
<1>1. todo # <<>> /\ todo' = Tail(todo) /\ Effect(Head(todo)) BY StepEffect
<1>2. k \in 1 .. Len(R) BY <1>0, <1>1, WhatIsLeft
<1>3. Head(todo) = R[k] /\ Tail(todo) = SubSeq(R, k + 1, Len(R)) BY <1>2, WhatIsLeft
<1> QED BY <1>1, <1>2, <1>3

(* Only sysclk_enable_usb switches the clock of USB.                       *)
LEMMA LeaveUsbAlone ==
  /\ \A k \in 1 .. 14 : Effect(SaveOps[k]) => usb' = usb
  /\ \A k \in 1 .. 16 : Effect(RestoreOps[k]) => usb' = usb
  /\ \A k \in 1 .. 15 : Effect(RestoreOpsNoB[k]) => usb' = usb
<1> DEFINE Kinds == {"on", "off", "select", "css", "pres", "wait", "any", "mck", "poll"}
<1>1. \A op : op[1] \in Kinds /\ Effect(op) => usb' = usb BY DEF Effect
<1> USE DEF On, Off, Select, Css, Pres, Wait, WaitAny, WaitMck, Poll
<1>2. \A k \in 1 .. 14 : SaveOps[k][1] \in Kinds BY SaveIs
<1>3. \A k \in 1 .. 16 : RestoreOps[k][1] \in Kinds BY RestoreIs
<1>4. \A k \in 1 .. 15 : RestoreOpsNoB[k][1] \in Kinds BY RestoreNoBIs
<1> QED BY <1>1, <1>2, <1>3, <1>4, Zenon

(* Each routine goes on as its predicate says, in whichever step.          *)
LEMMA BootGoesOn ==
  ASSUME Patient, ClocksTypeOK, UNCHANGED saved, Booting, ClocksStep \/ ClocksSettle
  PROVE  Booting'
<1> DEFINE R == SysclkInit
<1>1. PICK k \in 1 .. 12 : From(R, k) /\ BootAt(k) BY DEF Booting
<1>2. R \in Seq(Ops) /\ Len(R) = 11 /\ k \in 1 .. Len(R) + 1 BY BootIs
<1>3. CASE ClocksSettle
  <2>1. BootAt(k)' /\ todo' = todo BY <1>1, <1>3, BootSettle, SettleEffect
  <2> QED BY <1>1, <2>1 DEF Booting, From
<1>4. CASE ClocksStep
  <2>1. k \in 1 .. Len(R) /\ Effect(R[k]) /\ todo' = SubSeq(R, k + 1, Len(R))
    BY <1>1, <1>2, <1>4, Follows, Zenon DEF From
  <2>2. k \in 1 .. 11 /\ k + 1 \in 1 .. 12 BY <1>2, <2>1
  <2>3. BootAt(k + 1)' BY <1>1, <2>1, <2>2, BootStep
  <2>4. \E j \in 1 .. 12 : From(R, j)' /\ BootAt(j)' BY <2>1, <2>2, <2>3, Zenon DEF From
  <2> QED BY <2>3, <2>4 DEF Booting
<1> QED BY <1>3, <1>4

LEMMA UsbGoesOn ==
  ASSUME Patient, ClocksTypeOK, UNCHANGED saved, Enabling, ClocksStep \/ ClocksSettle
  PROVE  Enabling'
<1> DEFINE R == SysclkEnableUsb
<1>1. PICK k \in 1 .. 8 : From(R, k) /\ UsbAt(k) BY DEF Enabling
<1>2. R \in Seq(Ops) /\ Len(R) = 7 /\ k \in 1 .. Len(R) + 1 BY UsbIs
<1>3. CASE ClocksSettle
  <2>1. UsbAt(k)' /\ todo' = todo BY <1>1, <1>3, UsbSettle, SettleEffect
  <2> QED BY <1>1, <2>1 DEF Enabling, From
<1>4. CASE ClocksStep
  <2>1. k \in 1 .. Len(R) /\ Effect(R[k]) /\ todo' = SubSeq(R, k + 1, Len(R))
    BY <1>1, <1>2, <1>4, Follows, Zenon DEF From
  <2>2. k \in 1 .. 7 /\ k + 1 \in 1 .. 8 BY <1>2, <2>1
  <2>3. UsbAt(k + 1)' BY <1>1, <2>1, <2>2, UsbStep
  <2>4. \E j \in 1 .. 8 : From(R, j)' /\ UsbAt(j)' BY <2>1, <2>2, <2>3, Zenon DEF From
  <2> QED BY <2>3, <2>4 DEF Enabling
<1> QED BY <1>3, <1>4

LEMMA SaveGoesOn ==
  ASSUME Patient, ClocksTypeOK, UNCHANGED saved, Saving, ClocksStep \/ ClocksSettle
  PROVE  Saving' /\ usb' = usb
<1> DEFINE R == SaveOps
<1>1. PICK k \in 1 .. 15 : From(R, k) /\ SaveAt(k) BY DEF Saving
<1>2. R \in Seq(Ops) /\ Len(R) = 14 /\ k \in 1 .. Len(R) + 1 BY SaveIs
<1>3. CASE ClocksSettle
  <2>1. SaveAt(k)' /\ todo' = todo /\ usb' = usb BY <1>1, <1>3, SaveSettle, SettleEffect
  <2> QED BY <1>1, <2>1 DEF Saving, From
<1>4. CASE ClocksStep
  <2>1. k \in 1 .. Len(R) /\ Effect(R[k]) /\ todo' = SubSeq(R, k + 1, Len(R))
    BY <1>1, <1>2, <1>4, Follows, Zenon DEF From
  <2>2. k \in 1 .. 14 /\ k + 1 \in 1 .. 15 BY <1>2, <2>1
  <2>3. SaveAt(k + 1)' /\ usb' = usb BY <1>1, <2>1, <2>2, SaveStep, LeaveUsbAlone
  <2>4. \E j \in 1 .. 15 : From(R, j)' /\ SaveAt(j)' BY <2>1, <2>2, <2>3, Zenon DEF From
  <2> QED BY <2>3, <2>4 DEF Saving
<1> QED BY <1>3, <1>4

LEMMA RestoreGoesOn ==
  ASSUME Patient, ClocksTypeOK, UNCHANGED saved, Restoring, ClocksStep \/ ClocksSettle
  PROVE  Restoring' /\ usb' = usb
<1>0. \A k \in 1 .. 16 : Stage(k) \in 1 .. 17 BY DEF Stage
<1>1. CASE "B" \in saved.osc
  <2> DEFINE R == RestoreOps
  <2>1. PICK k \in 1 .. 17 : From(R, k) /\ RestoreAt(k) BY <1>1 DEF Restoring
  <2>2. R \in Seq(Ops) /\ Len(R) = 16 /\ k \in 1 .. Len(R) + 1 BY RestoreIs
  <2>3. CASE ClocksSettle
    <3>1. RestoreAt(k)' /\ todo' = todo /\ usb' = usb BY <2>1, <2>3, RestoreSettle, SettleEffect
    <3> QED BY <1>1, <2>1, <3>1 DEF Restoring, From
  <2>4. CASE ClocksStep
    <3>1. k \in 1 .. Len(R) /\ Effect(R[k]) /\ todo' = SubSeq(R, k + 1, Len(R))
      BY <2>1, <2>2, <2>4, Follows, Zenon DEF From
    <3>2. k \in 1 .. 16 /\ k + 1 \in 1 .. 17 BY <2>2, <3>1
    <3>3. RestoreAt(k + 1)' /\ usb' = usb
      BY <1>1, <2>1, <3>1, <3>2, RestoreStep, LeaveUsbAlone
    <3>4. \E j \in 1 .. 17 : From(R, j)' /\ RestoreAt(j)' BY <3>1, <3>2, <3>3, Zenon DEF From
    <3> QED BY <1>1, <3>3, <3>4 DEF Restoring
  <2> QED BY <2>3, <2>4
<1>2. CASE "B" \notin saved.osc
  <2> DEFINE R == RestoreOpsNoB
  <2>1. PICK k \in 1 .. 16 : From(R, k) /\ RestoreAt(Stage(k)) BY <1>2 DEF Restoring
  <2>2. R \in Seq(Ops) /\ Len(R) = 15 /\ k \in 1 .. Len(R) + 1 BY RestoreNoBIs
  <2>3. CASE ClocksSettle
    <3>1. RestoreAt(Stage(k))' /\ todo' = todo /\ usb' = usb
      BY <1>0, <2>1, <2>3, RestoreSettle, SettleEffect
    <3> QED BY <1>2, <2>1, <3>1 DEF Restoring, From
  <2>4. CASE ClocksStep
    <3>1. k \in 1 .. Len(R) /\ Effect(R[k]) /\ todo' = SubSeq(R, k + 1, Len(R))
      BY <2>1, <2>2, <2>4, Follows, Zenon DEF From
    <3>2. k \in 1 .. 15 /\ k + 1 \in 1 .. 16 BY <2>2, <3>1
    <3>3. RestoreAt(Stage(k + 1))' /\ usb' = usb
      BY <1>2, <2>1, <3>1, <3>2, RestoreNoBStep, LeaveUsbAlone
    <3>4. \E j \in 1 .. 16 : From(R, j)' /\ RestoreAt(Stage(j))' BY <3>1, <3>2, <3>3, Zenon DEF From
    <3> QED BY <1>2, <3>3, <3>4 DEF Restoring
  <2> QED BY <2>3, <2>4
<1> QED BY <1>1, <1>2

(* How each routine leaves the clocks when nothing is left of it.          *)
LEMMA RoutinesEnd ==
  ASSUME ClocksTypeOK, todo = <<>>
  PROVE  /\ Booting \/ Enabling \/ Restoring => FullSpeed
         /\ Saving => Low /\ flash = "full"
<1>1. ASSUME NEW R \in Seq(Ops), NEW k \in 1 .. Len(R) + 1, From(R, k)
      PROVE  k = Len(R) + 1
  BY <1>1, WhatIsLeft DEF From
<1>2. ASSUME Booting PROVE FullSpeed
  <2>1. PICK k \in 1 .. 12 : From(SysclkInit, k) /\ BootAt(k) BY <1>2 DEF Booting
  <2>2. SysclkInit \in Seq(Ops) /\ Len(SysclkInit) = 11 /\ k \in 1 .. Len(SysclkInit) + 1
    BY BootIs
  <2>3. k = 12
    <3>1. k = Len(SysclkInit) + 1 BY <1>1, <2>1, <2>2, Zenon
    <3> QED BY <2>2, <3>1
  <2>4. BootAt(12) BY <2>1, <2>3
  <2> QED BY <2>4, FullIs DEF BootAt, Lags, FullSpeed
<1>3. Enabling => FullSpeed BY DEF Enabling, UsbAt
<1>4. RestoreAt(17) => FullSpeed
  BY DEF RestoreAt, Lags, FullSpeed, Saved, ClocksTypeOK
<1>5. ASSUME Restoring PROVE FullSpeed
  <2>1. CASE "B" \in saved.osc
    <3> DEFINE R == RestoreOps
    <3>1. PICK k \in 1 .. 17 : From(R, k) /\ RestoreAt(k) BY <1>5, <2>1 DEF Restoring
    <3>2. R \in Seq(Ops) /\ Len(R) = 16 /\ k \in 1 .. Len(R) + 1 BY RestoreIs
    <3>3. k = Len(R) + 1 BY <1>1, <3>1, <3>2, Zenon
    <3>4. k = 17 BY <3>2, <3>3
    <3> QED BY <1>4, <3>1, <3>4
  <2>2. CASE "B" \notin saved.osc
    <3> DEFINE R == RestoreOpsNoB
    <3>1. PICK k \in 1 .. 16 : From(R, k) /\ RestoreAt(Stage(k)) BY <1>5, <2>2 DEF Restoring
    <3>2. R \in Seq(Ops) /\ Len(R) = 15 /\ k \in 1 .. Len(R) + 1 BY RestoreNoBIs
    <3>3. k = Len(R) + 1 BY <1>1, <3>1, <3>2, Zenon
    <3>4. k = 16 /\ Stage(16) = 17 BY <3>2, <3>3 DEF Stage
    <3> QED BY <1>4, <3>1, <3>4
  <2> QED BY <2>1, <2>2
<1>6. ASSUME Saving PROVE Low /\ flash = "full"
  <2>1. PICK k \in 1 .. 15 : From(SaveOps, k) /\ SaveAt(k) BY <1>6 DEF Saving
  <2>2. SaveOps \in Seq(Ops) /\ Len(SaveOps) = 14 /\ k \in 1 .. Len(SaveOps) + 1 BY SaveIs
  <2>3. k = Len(SaveOps) + 1 BY <1>1, <2>1, <2>2, Zenon
  <2>4. k = 15 BY <2>2, <2>3
  <2>5. SaveAt(15) BY <2>1, <2>4
  <2>6. osc = {"rc"}
    <3>1. "rc" \in ready /\ "xtal" \notin osc /\ "A" \notin osc /\ "B" \notin osc
      BY <2>5 DEF SaveAt
    <3>2. \A s \in osc : s \in {"rc", "xtal", "A", "B"} BY DEF ClocksTypeOK, Sources, Plls
    <3>3. "rc" \in osc BY <3>1 DEF ClocksTypeOK
    <3> QED BY <3>1, <3>2, <3>3
  <2>7. mckr = Speed("main", 1) /\ mck = mckr BY <2>5 DEF SaveAt, Lags
  <2> QED BY <2>5, <2>6, <2>7 DEF SaveAt, Low
<1> QED BY <1>2, <1>3, <1>5, <1>6

LEMMA InitClk == Init => ClkInv
<1> SUFFICES ASSUME Init PROVE ClkInv
  OBVIOUS
<1>1. SysclkInit \in Seq(Ops) BY BootIs
<1>2. From(SysclkInit, 1) BY <1>1, WhatIsLeft DEF From, Init, ClocksInit
<1>3. BootAt(1) BY DEF BootAt, Lags, Speed, Init, ClocksInit
<1>4. pc = "boot" /\ usb = FALSE BY DEF Init, ClocksInit
<1> QED BY <1>2, <1>3, <1>4 DEF ClkInv, Booting, ClocksRestored

(* The clocks' own steps.                                                  *)
LEMMA SetClocksClk ==
  ASSUME Patient, ClocksTypeOK, ClkInv, SetClocks
  PROVE  ClkInv'
<1>0. UNCHANGED <<enabled, pc, saved>> /\ (ClocksStep \/ ClocksSettle) BY DEF SetClocks
<1>1. ASSUME pc \notin {"boot", "enabling", "saving", "restoring"}, todo = <<>>
      PROVE  /\ ClocksSettle /\ UNCHANGED <<osc, sel, mckr, usb, flash, todo>>
             /\ ready \subseteq ready' /\ (mck' = mck \/ mck' = mckr)
  <2>1. ClocksSettle BY <1>0, <1>1, StepEffect
  <2> QED BY <2>1, SettleEffect
<1>2. CASE pc = "boot"
  <2>1. Booting' BY <1>0, <1>2, BootGoesOn DEF ClkInv
  <2>2. usb' = FALSE BY <2>1 DEF Booting, BootAt
  <2> QED BY <1>0, <1>2, <2>1, <2>2 DEF ClkInv, ClocksRestored
<1>3. CASE pc = "enabling"
  <2>1. Enabling' BY <1>0, <1>3, UsbGoesOn DEF ClkInv
  <2> QED BY <1>0, <1>3, <2>1 DEF ClkInv, ClocksRestored
<1>4. CASE pc = "saving"
  <2>1. Saving' /\ usb' = usb BY <1>0, <1>4, SaveGoesOn DEF ClkInv
  <2> QED BY <1>0, <1>4, <2>1 DEF ClkInv, ClocksRestored
<1>5. CASE pc = "restoring"
  <2>1. Restoring' /\ usb' = usb BY <1>0, <1>5, RestoreGoesOn DEF ClkInv
  <2> QED BY <1>0, <1>5, <2>1 DEF ClkInv, ClocksRestored
<1>6. CASE pc \in {"toWait", "wait", "woken"}
  <2>1. Low /\ todo = <<>> BY <1>6 DEF ClkInv, Low
  <2>2. Low' BY <1>0, <1>1, <1>6, <2>1 DEF Low, Saved
  <2> QED BY <1>0, <1>1, <1>6, <2>1, <2>2 DEF ClkInv, ClocksRestored
<1>7. CASE ClocksRestored /\ pc \notin {"boot", "enabling"}
  <2>1. FullSpeed /\ todo = <<>> BY <1>7 DEF ClkInv
  <2>2. FullSpeed' /\ todo' = <<>> /\ usb' = usb
    BY <1>1, <1>7, <2>1 DEF FullSpeed, ClocksRestored
  <2> QED BY <1>0, <1>7, <2>2 DEF ClkInv, ClocksRestored
<1> QED BY <1>2, <1>3, <1>4, <1>5, <1>6, <1>7 DEF ClocksRestored

(* The steps that begin a routine find the clocks that it needs.           *)
LEMMA BeginClk ==
  ASSUME Rest, ClkInv, EnableClocks \/ (Decide /\ UNCHANGED enabled)
                       \/ (StartRestore /\ UNCHANGED enabled)
  PROVE  ClkInv'
<1>0. ClocksTypeOK /\ saved.osc \in SUBSET Sources BY DEF Rest
<1>1. CASE EnableClocks
  <2>1. pc = "run" /\ ~enabled /\ pc' = "enabling" /\ todo' = SysclkEnableUsb
        /\ UNCHANGED <<enabled, saved, osc, ready, sel, mckr, mck, usb, flash>>
    BY <1>1 DEF EnableClocks
  <2>2. FullSpeed /\ usb = FALSE BY <1>0, <2>1 DEF ClkInv, ClocksRestored, ClocksTypeOK
  <2>3. UsbAt(1)' BY <2>1, <2>2 DEF UsbAt, FullSpeed
  <2>4. SysclkEnableUsb = SubSeq(SysclkEnableUsb, 1, Len(SysclkEnableUsb)) BY UsbIs, WhatIsLeft
  <2>5. From(SysclkEnableUsb, 1)' BY <2>1, <2>4 DEF From
  <2>6. Enabling' BY <2>3, <2>5 DEF Enabling
  <2> QED BY <2>1, <2>6 DEF ClkInv, ClocksRestored
<1>2. CASE Decide /\ UNCHANGED enabled
  <2>1. pc = "decide" /\ FullSpeed /\ todo = <<>> BY <1>2 DEF Decide, ClkInv, ClocksRestored
  <2>2. CASE locks["WFI"] > 0
    <3>1. pc' = "toWfi" /\ UNCHANGED <<saved, clocks, enabled>> BY <1>2, <2>2 DEF Decide
    <3> QED BY <2>1, <3>1 DEF ClkInv, ClocksRestored, clocks, FullSpeed
  <2>3. CASE ~(locks["WFI"] > 0)
    <3>1. /\ pc' = "saving" /\ todo' = SaveClocks
          /\ saved' = [saved EXCEPT !.osc = osc, !.mck = mckr]
          /\ UNCHANGED <<enabled, osc, ready, sel, mckr, mck, usb, flash>>
      BY <1>2, <2>3 DEF Decide
    <3>2. saved'.osc = osc /\ saved'.mck = mckr
      BY <3>1 DEF Rest
    <3>3. {"xtal", "A"} \subseteq osc /\ (usb = TRUE => "B" \in osc)
      BY <1>0, <2>1 DEF FullSpeed, ClocksTypeOK
    <3>4. Saved' BY <2>1, <3>1, <3>2, <3>3 DEF Saved, FullSpeed
    <3>5. SaveAt(1)' BY <2>1, <3>1, <3>4 DEF SaveAt, FullSpeed
    <3>6. SaveClocks = SaveOps BY <3>3, RoutinesAre
    <3>7. SaveOps = SubSeq(SaveOps, 1, Len(SaveOps)) BY SaveIs, WhatIsLeft
    <3>8. From(SaveOps, 1)' BY <3>1, <3>6, <3>7 DEF From
    <3>9. Saving' BY <3>5, <3>8 DEF Saving
    <3> QED BY <2>1, <3>1, <3>9 DEF ClkInv, ClocksRestored
  <2> QED BY <2>2, <2>3
<1>3. CASE StartRestore /\ UNCHANGED enabled
  <2>1. /\ pc = "woken" /\ pc' = "restoring" /\ todo' = RestoreClocks(saved.osc, saved.mck)
        /\ UNCHANGED <<saved, enabled, osc, ready, sel, mckr, mck, usb, flash>>
    BY <1>3 DEF StartRestore
  <2>2. Low /\ flash = "full" BY <2>1 DEF ClkInv
  <2>3. RestoreAt(1)' BY <2>1, <2>2 DEF Low, RestoreAt, Saved
  <2>4. saved.mck = Full /\ {"xtal", "A"} \subseteq saved.osc BY <2>2 DEF Low, Saved
  <2>5. todo' = IF "B" \in saved.osc THEN RestoreOps ELSE RestoreOpsNoB
    BY <1>0, <2>1, <2>4, RoutinesAre
  <2>6. /\ RestoreOps = SubSeq(RestoreOps, 1, Len(RestoreOps))
        /\ RestoreOpsNoB = SubSeq(RestoreOpsNoB, 1, Len(RestoreOpsNoB))
    BY RestoreIs, RestoreNoBIs, WhatIsLeft
  <2>7. CASE "B" \in saved.osc
    <3>1. From(RestoreOps, 1)' BY <2>5, <2>6, <2>7 DEF From
    <3> QED BY <2>1, <2>3, <2>7, <3>1 DEF Restoring, ClkInv, ClocksRestored
  <2>8. CASE "B" \notin saved.osc
    <3>1. From(RestoreOpsNoB, 1)' /\ Stage(1) = 1 BY <2>5, <2>6, <2>8 DEF From, Stage
    <3> QED BY <2>1, <2>3, <2>8, <3>1 DEF Restoring, ClkInv, ClocksRestored
  <2> QED BY <2>7, <2>8
<1> QED BY <1>1, <1>2, <1>3

(* The steps that find a routine at its end.                               *)
LEMMA EndClk ==
  ASSUME Rest, ClkInv, Boot \/ Enable \/ ((EndSave \/ Restore) /\ UNCHANGED enabled)
  PROVE  ClkInv'
<1>0. ClocksTypeOK /\ UNCHANGED <<saved, clocks>> /\ todo = <<>>
  BY DEF Rest, Boot, Enable, EndSave, Restore
<1>1. UNCHANGED <<osc, ready, sel, mckr, mck, usb, flash, todo>> BY <1>0 DEF clocks
<1>2. CASE EndSave /\ UNCHANGED enabled
  <2>1. pc = "saving" /\ pc' = "toWait" BY <1>2 DEF EndSave
  <2>2. Low /\ flash = "full" BY <1>0, <2>1, RoutinesEnd DEF ClkInv
  <2>3. Low' /\ flash' = "full" BY <1>0, <1>1, <2>2 DEF Low, Saved
  <2> QED BY <1>1, <1>2, <2>1, <2>3 DEF ClkInv, ClocksRestored
<1>3. CASE Boot \/ Enable \/ (Restore /\ UNCHANGED enabled)
  <2>1. /\ pc' = "run" /\ pc \in {"boot", "enabling", "restoring"}
        /\ usb = TRUE => enabled' = TRUE \/ enabled' = enabled
        /\ enabled' = enabled \/ enabled' = TRUE
    BY <1>3 DEF Boot, Enable, Restore
  <2>2. FullSpeed BY <1>0, <2>1, RoutinesEnd DEF ClkInv
  <2>3. FullSpeed' /\ todo' = <<>> BY <1>0, <1>1, <2>2 DEF FullSpeed
  <2>4. pc = "enabling" => enabled' = TRUE BY <1>3 DEF Boot, Enable, Restore
  <2>5. usb' = TRUE => enabled' BY <1>1, <2>1, <2>4 DEF ClkInv
  <2> QED BY <2>1, <2>3, <2>5 DEF ClkInv, ClocksRestored
<1> QED BY <1>2, <1>3

(* Asleep, the flash does not wait; and while it is disabled, the device   *)
(* needs no clock.                                                         *)
LEMMA AsleepClk ==
  ASSUME Rest, ClkInv, Disable \/ ((FallAsleep \/ WakeUp) /\ UNCHANGED enabled)
  PROVE  ClkInv'
<1>1. CASE Disable
  <2>1. pc = "run" /\ pc' = "run" /\ usb' = FALSE
        /\ UNCHANGED <<osc, ready, sel, mckr, mck, flash, todo>>
    BY <1>1 DEF Disable
  <2>2. FullSpeed /\ todo = <<>> BY <2>1 DEF ClkInv, ClocksRestored
  <2>3. FullSpeed' /\ todo' = <<>> BY <2>1, <2>2 DEF FullSpeed
  <2> QED BY <2>1, <2>3 DEF ClkInv, ClocksRestored
<1>2. CASE FallAsleep /\ UNCHANGED enabled
  <2>1. /\ pc = "toWait" /\ pc' = "wait" /\ flash' = "none"
        /\ saved' = [saved EXCEPT !.flash = flash]
        /\ UNCHANGED <<enabled, osc, ready, sel, mckr, mck, usb, todo>>
    BY <1>2 DEF FallAsleep
  <2>2. Low /\ flash = "full" BY <2>1 DEF ClkInv
  <2>3. saved'.flash = "full" /\ saved'.osc = saved.osc /\ saved'.mck = saved.mck
    BY <2>1, <2>2 DEF Rest
  <2>4. Low' BY <2>1, <2>2, <2>3 DEF Low, Saved
  <2> QED BY <2>1, <2>3, <2>4 DEF ClkInv, ClocksRestored
<1>3. CASE WakeUp /\ UNCHANGED enabled
  <2>1. /\ pc = "wait" /\ pc' = "woken" /\ flash' = saved.flash
        /\ UNCHANGED <<enabled, saved, osc, ready, sel, mckr, mck, usb, todo>>
    BY <1>3 DEF WakeUp
  <2>2. Low /\ saved.flash = "full" BY <2>1 DEF ClkInv
  <2>3. Low' BY <2>1, <2>2 DEF Low, Saved
  <2> QED BY <2>1, <2>2, <2>3 DEF ClkInv, ClocksRestored
<1> QED BY <1>1, <1>2, <1>3

(* Other steps leave the clocks to the interrupts and the program.         *)
Interrupted ==
  pc' = pc \/ {pc, pc'} \subseteq {"run", "test", "unlock", "store", "decide", "toWfi", "wfi"}

LEMMA OthersClk ==
  ASSUME ClkInv, Interrupted, UNCHANGED <<enabled, saved, clocks>>
  PROVE  ClkInv'
<1>0. UNCHANGED <<osc, ready, sel, mckr, mck, usb, flash, todo>> BY DEF clocks
<1>1. FullSpeed' = FullSpeed /\ Low' = Low BY <1>0 DEF FullSpeed, Low, Saved
<1>2. CASE pc' = pc
  <2>1. Booting' = Booting BY <1>0 DEF Booting, From, BootAt, Lags
  <2>2. Enabling' = Enabling BY <1>0 DEF Enabling, From, UsbAt, FullSpeed
  <2>3. Saving' = Saving BY <1>0 DEF Saving, From, SaveAt, Lags, Saved
  <2>4. Restoring' = Restoring BY <1>0 DEF Restoring, From, RestoreAt, Lags, Saved
  <2> QED BY <1>0, <1>1, <1>2, <2>1, <2>2, <2>3, <2>4 DEF ClkInv, ClocksRestored
<1>3. CASE {pc, pc'} \subseteq {"run", "test", "unlock", "store", "decide", "toWfi", "wfi"}
  BY <1>0, <1>1, <1>3 DEF ClkInv, ClocksRestored
<1> QED BY <1>2, <1>3 DEF Interrupted

LEMMA NextClk ==
  ASSUME Patient, Rest, ClkInv, [Next]_vars
  PROVE  ClkInv'
<1>0. ClocksTypeOK BY DEF Rest
<1>1. CASE SetClocks BY <1>0, <1>1, SetClocksClk
<1>2. CASE Boot \/ Enable BY <1>2, EndClk
<1>3. CASE EnableClocks BY <1>3, BeginClk
<1>4. CASE Disable BY <1>4, AsleepClk
<1>5. CASE Sleep
  <2>0. UNCHANGED enabled BY <1>5 DEF Sleep, GoOn
  <2>1. CASE Decide \/ StartRestore BY <2>0, <2>1, BeginClk
  <2>2. CASE EndSave \/ Restore BY <2>0, <2>2, EndClk
  <2>3. CASE FallAsleep \/ WakeUp BY <2>0, <2>3, AsleepClk
  <2>4. ASSUME EnterSleep \/ FallAsleepWfi
               \/ (pc = "wfi" /\ pc' = "run" /\ UNCHANGED <<masked, saved, clocks>>)
        PROVE  ClkInv'
    <3>1. Interrupted /\ UNCHANGED <<saved, clocks>>
      BY <2>4 DEF EnterSleep, FallAsleepWfi, Interrupted
    <3> QED BY <2>0, <3>1, OthersClk
  <2> QED BY <1>5, <2>1, <2>2, <2>3, <2>4 DEF Sleep, GoOn, Awake, AwakeElsewhere
<1>6. ASSUME Attach \/ Host \/ Detach \/ Isr \/ UNCHANGED vars PROVE ClkInv'
  <2>1. UNCHANGED <<enabled, saved, clocks>>
    BY <1>6 DEF Attach, Host, HostSuspends, HostResumes, HostResets, HostEndsReset, Detach,
                DetachDevice, TestIdle, Unlock, StoreIdle, Isr, IsrPostpones, IsrWakeUp,
                IsrSuspend, IsrReset, IsrServes, cpu, vars
  <2>2. Interrupted
    BY <1>6 DEF Attach, Host, HostSuspends, HostResumes, HostResets, HostEndsReset, Detach,
                DetachDevice, TestIdle, Unlock, StoreIdle, Isr, IsrPostpones, IsrWakeUp,
                IsrSuspend, IsrReset, IsrServes, cpu, vars, Interrupted
  <2> QED BY <2>1, <2>2, OthersClk
<1> QED BY <1>1, <1>2, <1>3, <1>4, <1>5, <1>6 DEF Next

(* In each phase the invariant says that the clocks are sound.             *)
LEMMA ClkSound == ASSUME Rest, ClkInv PROVE ClocksSound
<1>1. ASSUME FullSpeed PROVE MckSound BY <1>1 DEF FullSpeed, MckSound, Runs, Full
<1>2. ASSUME Low PROVE MckSound /\ osc = {"rc"} /\ sel = "rc" /\ mck.css = "main"
  BY <1>2 DEF Low, MckSound, Runs, Speed
<1>3. ASSUME Booting PROVE MckSound BY <1>3, BootSound DEF Booting
<1>4. ASSUME Enabling PROVE MckSound BY <1>4, UsbSound DEF Enabling
<1>5. ASSUME Saving PROVE MckSound BY <1>5, SaveSound DEF Saving
<1>6. ASSUME Restoring PROVE MckSound
  <2>1. \A k \in 1 .. 16 : Stage(k) \in 1 .. 17 BY DEF Stage
  <2> QED BY <1>6, <2>1, RestoreSound DEF Restoring
<1> QED BY <1>1, <1>2, <1>3, <1>4, <1>5, <1>6 DEF ClocksSound, ClkInv, ClocksRestored

(* At every time the master clock has a source that runs, is no faster     *)
(* than the flash allows, the processor waits on the fast RC alone, and    *)
(* the program and its interrupts find the clocks of board_init and        *)
(* udd_enable: whatever the bus does, and however late line events are     *)
(* served, when no wait for a clock ends early.                            *)
THEOREM ClocksStaySound == Patient => (Spec => []ClocksSound)
<1> SUFFICES ASSUME Patient PROVE Spec => []ClocksSound
  OBVIOUS
<1>1. Init => Rest /\ ClkInv BY InitRest, InitClk
<1>2. Rest /\ ClkInv /\ [Next]_vars => Rest' /\ ClkInv' BY NextRest, NextClk
<1>3. Rest /\ ClkInv => ClocksSound BY ClkSound
<1> QED BY <1>1, <1>2, <1>3, PTL DEF Spec
=============================================================================
