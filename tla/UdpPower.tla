------------------------------ MODULE UdpPower ------------------------------
(***************************************************************************)
(* The power states of the USB device driver udp_device.c.  In IDLE, the   *)
(* state of a bus in use, the peripheral needs its clock and the processor *)
(* may sleep in WFI at most; in SUSPEND its clock is off and the processor *)
(* may sleep in WAIT.  The driver tells the sleep manager (sleepmgr.h) by  *)
(* lock counters: one that it holds in WFI while IDLE, and one in WAIT     *)
(* while it is enabled.  The main program attaches, detaches and sleeps    *)
(* (pmc_sleep, sleep.c), and the interrupt routine follows the bus.        *)
(*                                                                         *)
(* Endpoint events and starts of frame, which the routine serves first,    *)
(* delay what is modelled here and change none of it.  Of the sleep modes  *)
(* BACKUP is left out, from which the program does not return.  The main   *)
(* program is one that sleeps when idle, as udc.h:301 suggests; main.c     *)
(* attaches the device and never sleeps.                                   *)
(***************************************************************************)
EXTENDS Clocks

CONSTANTS
  Byte,   \* lock counters are counted modulo Byte
  Prompt  \* are line events served before the bus changes once more

ASSUME ByteAssumption == Byte \in Nat /\ Byte > 2
ASSUME DeviationsAssumption ==
  /\ Prompt \in BOOLEAN
  /\ Deviations \subseteq {"late", "race", "unclocked", "unlocked", "impatient"}

VARIABLES
  enabled,  \* between udd_enable and udd_disable
  bus,      \* "off" when detached, else "active", "suspended" or "reset"
  flags,    \* pending line events: UDP_ISR
  enables,  \* those that interrupt: UDP_IMR (a reset always does)
  clock,    \* the clock of the peripheral
  idle,     \* udd_b_idle
  locks,    \* sleepmgr_locks
  pc,       \* the main program: "run" or the step that comes next
  masked,   \* interrupts are disabled
  saved     \* what pmc_save_clock_settings saved

cpu  == <<pc, masked, saved, clocks>>
line == <<flags, enables, clock>>
vars == <<enabled, bus, line, idle, locks, cpu>>

Init ==
  /\ enabled = FALSE /\ bus = "off" /\ flags = {} /\ enables = {}
  /\ clock = FALSE /\ idle = FALSE
  /\ locks = [WFI |-> 0, WAIT |-> 0]
  /\ pc = "boot" /\ masked = FALSE
  /\ saved = [osc |-> {}, mck |-> Full, flash |-> "full"]
  /\ ClocksInit

(* board_init sets the clocks up before it starts USB.                     *)
Boot ==
  /\ pc = "boot" /\ todo = <<>>
  /\ pc' = "run"
  /\ UNCHANGED <<enabled, bus, line, idle, locks, masked, saved, clocks>>

-----------------------------------------------------------------------------
(* Sleep manager.                                                          *)

LockMode(l, mode)   == [l EXCEPT ![mode] = (@ + 1) % Byte]
UnlockMode(l, mode) == [l EXCEPT ![mode] = (@ + Byte - 1) % Byte]

(* Mutant of SleepMode: every resume locks.                                *)
SleepModeAlways(b, was, l) ==
  IF b THEN LockMode(l, "WFI") ELSE IF was THEN UnlockMode(l, "WFI") ELSE l

(* udd_sleep_mode, without its store: the locks after entering or leaving  *)
(* IDLE, which change only when the state does.                            *)
SleepMode(b, was, l) ==
  IF b = was THEN l
  ELSE IF b THEN LockMode(l, "WFI") ELSE UnlockMode(l, "WFI")

EnterSleepMode(b) == idle' = b /\ locks' = SleepMode(b, idle, locks)

-----------------------------------------------------------------------------
(* Attaching and detaching, by the main program.                           *)

LineEvents == {"suspend", "wakeup"}

(* udd_enable, in a critical section: first the clocks, then the locks and *)
(* the udd_attach it ends with.                                            *)
EnableClocks ==
  /\ pc = "run" /\ ~enabled
  /\ pc' = "enabling" /\ masked' = TRUE
  /\ clock' = TRUE /\ todo' = SysclkEnableUsb
  /\ UNCHANGED <<enabled, bus, flags, enables, idle, locks, saved,
                 osc, ready, sel, mckr, mck, usb, flash>>

Enable ==
  /\ pc = "enabling" /\ todo = <<>>
  /\ pc' = "run" /\ masked' = FALSE
  /\ enabled' = TRUE
  /\ idle' = TRUE
  /\ locks' = SleepMode(TRUE, FALSE, LockMode(locks, "WAIT"))
  /\ bus' = IF bus = "off" THEN "active" ELSE bus
  /\ enables' = enables \cup LineEvents
  /\ UNCHANGED <<flags, clock, saved, clocks>>

(* udd_attach, in a critical section; board_init attaches once more after  *)
(* udc_start has.  The bus is taken to be in use.                          *)
Attach ==
  /\ pc = "run" /\ enabled /\ bus # "suspended"
  /\ EnterSleepMode(TRUE)
  /\ clock' = TRUE
  /\ bus' = IF bus = "off" THEN "active" ELSE bus
  /\ enables' = enables \cup LineEvents
  /\ UNCHANGED <<enabled, flags, cpu>>

(* The register that detaches is written with the clock on, or is not.     *)
LeavesBus ==
  \/ clock /\ bus' = "off"
  \/ ~clock /\ "unclocked" \in Deviations /\ UNCHANGED bus

(* udd_detach called by udc_detach, in no critical section: the device     *)
(* leaves the bus, and then udd_sleep_mode tests, unlocks and stores.      *)
DetachDevice ==
  /\ pc = "run" /\ enabled /\ bus # "off"
  /\ flags \intersect LineEvents # {} => "race" \in Deviations
  /\ LeavesBus
  /\ pc' = "test"
  /\ UNCHANGED <<enabled, line, idle, locks, masked, saved, clocks>>

TestIdle ==
  /\ pc = "test"
  /\ pc' = IF idle THEN "unlock" ELSE "store"
  /\ UNCHANGED <<enabled, bus, line, idle, locks, masked, saved, clocks>>

Unlock ==
  /\ pc = "unlock"
  /\ locks' = UnlockMode(locks, "WFI")
  /\ pc' = "store"
  /\ UNCHANGED <<enabled, bus, line, idle, masked, saved, clocks>>

StoreIdle ==
  /\ pc = "store"
  /\ idle' = FALSE
  /\ pc' = "run"
  /\ UNCHANGED <<enabled, bus, line, locks, masked, saved, clocks>>

(* udd_disable, in a critical section.  A line event that is pending is    *)
(* served after it.                                                        *)
Disable ==
  /\ pc = "run" /\ enabled
  /\ flags # {} => "late" \in Deviations
  /\ LeavesBus \/ (bus = "off" /\ UNCHANGED bus)
  /\ enabled' = FALSE /\ clock' = FALSE /\ usb' = FALSE
  /\ idle' = FALSE
  /\ locks' = UnlockMode(SleepMode(FALSE, idle, locks), "WAIT")
  /\ UNCHANGED <<flags, enables, pc, masked, saved,
                 osc, ready, sel, mckr, mck, flash, todo>>

-----------------------------------------------------------------------------
(* The interrupt routine.                                                  *)

Pending == flags \intersect (enables \cup {"reset"})

IsrEnters == Pending # {} /\ ~masked /\ pc # "wait"

(* Mutant of ClocksRestored: the routine does not look.                    *)
ClocksRestoredAlways == TRUE

(* pmc_is_wakeup_clocks_restored: not between the decision to sleep in     *)
(* WAIT and the end of pmc_restore_clock_setting.                          *)
ClocksRestored == pc \notin {"saving", "toWait", "wait", "woken", "restoring"}

(* With the clocks not restored, interrupts are left to be served later.   *)
IsrPostpones ==
  /\ IsrEnters /\ ~ClocksRestored /\ "suspend" \notin flags
  /\ masked' = TRUE
  /\ UNCHANGED <<enabled, bus, line, idle, locks, pc, saved, clocks>>

IsrServes ==
  /\ IsrEnters /\ (ClocksRestored \/ "suspend" \in flags)
  /\ pc' = IF pc = "wfi" THEN "run" ELSE pc
  /\ UNCHANGED <<enabled, bus, masked, saved, clocks>>

(* Any of the three wake-up events: resume. *)
IsrWakeUp ==
  /\ IsrServes /\ "wakeup" \in Pending
  /\ flags' = flags \ {"wakeup", "suspend"}
  /\ enables' = (enables \ {"wakeup"}) \cup {"suspend"}
  /\ clock' = TRUE
  /\ EnterSleepMode(TRUE)

(* Mutant of IsrSuspend: the wake-up interrupts stay off.                  *)
IsrSuspendDeaf ==
  /\ IsrServes /\ "wakeup" \notin Pending /\ "suspend" \in Pending
  /\ flags' = flags \ {"suspend"}
  /\ enables' = enables \ {"suspend"}
  /\ clock' = FALSE
  /\ EnterSleepMode(FALSE)

IsrSuspend ==
  /\ IsrServes /\ "wakeup" \notin Pending /\ "suspend" \in Pending
  /\ flags' = flags \ {"suspend"}
  /\ enables' = (enables \ {"suspend"}) \cup {"wakeup"}
  /\ clock' = FALSE
  /\ EnterSleepMode(FALSE)

IsrReset ==
  /\ IsrServes /\ Pending = {"reset"}
  /\ flags' = flags \ {"reset"}
  /\ enables' = enables \cup {"suspend"}
  /\ clock' = TRUE
  /\ UNCHANGED <<idle, locks>>

Isr == IsrPostpones \/ IsrWakeUp \/ IsrSuspend \/ IsrReset

-----------------------------------------------------------------------------
(* Sleeping, by the main program.                                          *)

(* sleepmgr_enter_sleep disables interrupts; one that is pending before is *)
(* served before.                                                          *)
EnterSleep ==
  /\ pc = "run" /\ Pending = {}
  /\ locks # [WFI |-> 0, WAIT |-> 0]
  /\ pc' = "decide" /\ masked' = TRUE
  /\ UNCHANGED <<saved, clocks>>

(* The deepest mode that the locks allow.  For WFI, pmc_sleep enables      *)
(* interrupts just before it sleeps; for WAIT, it saves the clocks first.  *)
Decide ==
  /\ pc = "decide"
  /\ IF locks["WFI"] > 0
     THEN /\ pc' = "toWfi" /\ masked' = FALSE
          /\ UNCHANGED <<saved, clocks>>
     ELSE /\ pc' = "saving"
          /\ saved' = [saved EXCEPT !.osc = osc, !.mck = mckr]
          /\ todo' = SaveClocks
          /\ UNCHANGED <<masked, osc, ready, sel, mckr, mck, usb, flash>>

EndSave ==
  /\ pc = "saving" /\ todo = <<>>
  /\ pc' = "toWait" /\ masked' = FALSE
  /\ UNCHANGED <<saved, clocks>>

FallAsleepWfi == pc = "toWfi" /\ pc' = "wfi" /\ UNCHANGED <<masked, saved, clocks>>

(* pmc_enable_waitmode: the flash does not wait, asleep. *)
FallAsleep ==
  /\ pc = "toWait" /\ pc' = "wait"
  /\ flash' = "none" /\ saved' = [saved EXCEPT !.flash = flash]
  /\ UNCHANGED <<masked, osc, ready, sel, mckr, mck, usb, todo>>

WakeUp ==
  /\ pc = "wait" /\ pc' = "woken"
  /\ flash' = saved.flash
  /\ UNCHANGED <<masked, saved, osc, ready, sel, mckr, mck, usb, todo>>

(* A line event that is pending is a fast start-up from WAIT. *)
Awake == flags \intersect {"wakeup", "reset"} # {} /\ WakeUp

(* So are other events, and in WFI any interrupt. *)
AwakeElsewhere ==
  \/ WakeUp
  \/ pc = "wfi" /\ pc' = "run" /\ UNCHANGED <<masked, saved, clocks>>

StartRestore ==
  /\ pc = "woken"
  /\ pc' = "restoring" /\ masked' = TRUE
  /\ todo' = RestoreClocks(saved.osc, saved.mck)
  /\ UNCHANGED <<saved, osc, ready, sel, mckr, mck, usb, flash>>

(* Mutant of Restore: interrupts that were postponed stay disabled.        *)
RestoreMasked ==
  /\ pc = "restoring" /\ todo = <<>>
  /\ pc' = "run"
  /\ UNCHANGED <<masked, saved, clocks>>

(* The clocks are restored, and interrupts enabled. *)
Restore ==
  /\ pc = "restoring" /\ todo = <<>>
  /\ pc' = "run" /\ masked' = FALSE
  /\ UNCHANGED <<saved, clocks>>

-----------------------------------------------------------------------------
(* The bus.  With Prompt, a bus that falls silent or ends a reset finds no *)
(* event waiting: both take milliseconds.                                  *)

Served(pending) == Prompt => pending = {}

HostSuspends ==
  /\ bus = "active" /\ Served(flags)
  /\ bus' = "suspended" /\ flags' = flags \cup {"suspend"}
  /\ UNCHANGED <<enabled, enables, clock, idle, locks, cpu>>

HostResumes ==
  /\ bus = "suspended"
  /\ bus' = "active" /\ flags' = flags \cup {"wakeup"}
  /\ UNCHANGED <<enabled, enables, clock, idle, locks, cpu>>

(* A reset of a bus that is suspended is activity, too. *)
HostResets ==
  /\ bus \in {"active", "suspended"}
  /\ bus' = "reset"
  /\ flags' = IF bus = "suspended" THEN flags \cup {"wakeup"} ELSE flags
  /\ UNCHANGED <<enabled, enables, clock, idle, locks, cpu>>

(* The end of the reset clears the interrupt masks. *)
HostEndsReset ==
  /\ bus = "reset" /\ Served(Pending)
  /\ bus' = "active"
  /\ flags' = flags \cup {"reset"} /\ enables' = {}
  /\ UNCHANGED <<enabled, clock, idle, locks, cpu>>

Host == HostSuspends \/ HostResumes \/ HostResets \/ HostEndsReset

-----------------------------------------------------------------------------
Detach == DetachDevice \/ TestIdle \/ Unlock \/ StoreIdle

GoOn ==
  /\ \/ Decide \/ EndSave \/ FallAsleepWfi \/ FallAsleep
     \/ Awake \/ StartRestore \/ Restore
  /\ UNCHANGED <<enabled, bus, line, idle, locks>>

Sleep == GoOn \/ ((EnterSleep \/ AwakeElsewhere) /\ UNCHANGED <<enabled, bus, line, idle, locks>>)

SetClocks ==
  /\ ClocksStep \/ ClocksSettle
  /\ UNCHANGED <<enabled, bus, line, idle, locks, pc, masked, saved>>

Next ==
  \/ Boot \/ EnableClocks \/ Enable \/ Attach \/ Disable \/ Detach \/ Sleep \/ SetClocks
  \/ Isr \/ Host

Spec == Init /\ [][Next]_vars

(* Interrupts are served, the clocks settle, and a main program that began *)
(* to sleep or to detach goes on.                                          *)
FairSpec ==
  /\ Spec
  /\ WF_vars(Isr)
  /\ WF_vars(SetClocks)
  /\ WF_vars(Boot \/ Enable)
  /\ WF_vars(GoOn)
  /\ WF_vars(TestIdle \/ Unlock \/ StoreIdle)

-----------------------------------------------------------------------------
(* Every variable has its type, a device off the bus waits for no bus      *)
(* event but late ones, and interrupts are disabled only around sleeping.  *)
TypeOK ==
  /\ enabled \in BOOLEAN /\ clock \in BOOLEAN /\ idle \in BOOLEAN
  /\ bus \in {"off", "active", "suspended", "reset"} /\ (bus # "off" => enabled)
  /\ flags \subseteq LineEvents \cup {"reset"} /\ enables \subseteq LineEvents
  /\ locks \in [{"WFI", "WAIT"} -> 0 .. Byte - 1]
  /\ pc \in {"boot", "run", "enabling", "test", "unlock", "store", "decide", "toWfi", "wfi",
             "saving", "toWait", "wait", "woken", "restoring"}
  /\ masked \in BOOLEAN
  /\ masked => pc \in {"enabling", "decide", "saving", "toWait", "wait", "woken", "restoring"}
  /\ saved \in [osc : SUBSET Sources, mck : Mcks, flash : {"full", "none"}]
  /\ ClocksTypeOK

(* The locks of the driver are those of its state, however often it is     *)
(* attached and whatever the bus does meanwhile (sleepmgr.h asserts that   *)
(* no counter wraps); in IDLE the peripheral has its clock, and the        *)
(* processor does not sleep in WAIT ("authorizes up to sleep mode WFI",    *)
(* udp_device.c), though it decides to before it lets interrupts come.     *)
SleepsOnlyInSuspend ==
  /\ locks["WFI"] = IF idle /\ pc # "store" THEN 1 ELSE 0
  /\ locks["WAIT"] = IF enabled THEN 1 ELSE 0
  /\ idle => clock
  /\ pc = "wait" => ~idle

(* Whatever the processor switches through, its clock runs at a speed that *)
(* the flash keeps up with; it falls asleep in WAIT on the fast RC alone,  *)
(* and the program, its interrupts included, finds again the clocks that   *)
(* board_init and udd_enable set up.                                       *)
ClocksSound ==
  /\ MckSound
  /\ pc = "wait" => osc = {"rc"} /\ sel = "rc" /\ mck.css = "main"
  /\ ClocksRestored /\ pc \notin {"boot", "enabling"} => FullSpeed

(* The driver's state follows the bus: with the bus in use it comes to     *)
(* IDLE, with a suspended one it leaves it, unless the bus changes again;  *)
(* no resume is lost on the way to sleep.                                  *)
PowerFollowsBus ==
  /\ bus = "active" ~> idle \/ bus # "active"
  /\ bus = "suspended" ~> ~idle \/ bus # "suspended"
=============================================================================
