------------------------------- MODULE Clocks -------------------------------
(***************************************************************************)
(* The clocks of the SAM4S as sysclk.c, pmc.c and sleep.c set them up,     *)
(* bring them down before the processor waits, and bring them up again.    *)
(* The master clock comes from one of three sources:                       *)
(*                                                                         *)
(*    slow clock                                                           *)
(*    main clock   <-  fast RC or crystal                                  *)
(*    PLL A        <-  main clock                                          *)
(*                                                                         *)
(* and PLL B, fed from the main clock too, is that of USB.  A routine of   *)
(* the three files is the sequence of its register accesses and waits;     *)
(* todo holds those that remain.  The hardware settles at any time.        *)
(***************************************************************************)
EXTENDS Rates, Sequences

CONSTANT
  Deviations  \* which of the known deviations may happen, see the README

VARIABLES
  osc,    \* what is switched on: MOSCRCEN, MOSCXTEN, MULA # 0, MULB # 0
  ready,  \* what is stable: MOSCRCS, MOSCXTS, LOCKA, LOCKB
  sel,    \* MOSCSEL: the source of the main clock
  mckr,   \* PMC_MCKR: source and divider of the master clock
  mck,    \* those that it has; MCKRDY says that they are the same
  usb,    \* PMC_SCER_UDP: the clock of USB
  flash,  \* flash wait states (EEFC_FMR): those of full speed or none
  todo    \* accesses that remain of the routine that runs

clocks == <<osc, ready, sel, mckr, mck, usb, flash, todo>>

Plls    == {"A", "B"}
Sources == {"rc", "xtal"} \cup Plls
Mcks    == [css : {"slow", "main", "A"}, pres : {1, 2}]
Full    == [css |-> "A", pres |-> 2]

-----------------------------------------------------------------------------
(* Register accesses and waits.                                            *)

On(s)      == <<"on", s>>
Off(s)     == <<"off", s>>
Select(s)  == <<"select", s>>
Css(c)     == <<"css", c>>
Pres(p)    == <<"pres", p>>
Wait(S)    == <<"wait", S>>
WaitAny(S) == <<"any", S>>
WaitMck    == <<"mck", 0>>
Flash(f)   == <<"flash", f>>
Udpck(b)   == <<"usb", b>>

(* A wait for MCKRDY that gives up after PMC_TIMEOUT polls; the caller     *)
(* returns, leaving out the n accesses that follow.                        *)
Poll(n)    == <<"poll", n>>

Ops ==
  {On(s) : s \in Sources} \cup {Off(s) : s \in Sources}
  \cup {Select(s) : s \in {"rc", "xtal"}} \cup {Css(c) : c \in {"slow", "main", "A"}}
  \cup {Pres(p) : p \in {1, 2}} \cup {Wait({s}) : s \in Sources}
  \cup {WaitAny(S) : S \in SUBSET Plls} \cup {WaitMck, Poll(0), Poll(2)}
  \cup {Flash("full"), Udpck(TRUE)}

-----------------------------------------------------------------------------
(* The routines.                                                           *)

(* pmc_switch_mck_to_sclk and pmc_switch_mck_to_mainck: first the source,  *)
(* then the divider.                                                       *)
SwitchMck(c, p) == <<Css(c), Poll(2), Pres(p), Poll(0)>>

(* Mutant of SwitchMckToPll: the source first, as for the slower ones.     *)
SwitchMckToPllFast(p) == SwitchMck("A", p)

(* pmc_switch_mck_to_pllack: first the divider, then the source. *)
SwitchMckToPll(p) == <<Pres(p), Poll(2), Css("A"), Poll(0)>>

(* pmc_switch_mainck_to_fastrc. *)
SwitchMainToRc ==
  IF "xtal" \in osc THEN <<On("rc"), Wait({"rc"}), Select("rc")>>
  ELSE <<On("rc"), On("xtal"), Wait({"rc"}), Select("rc"), Off("xtal")>>

(* pmc_switch_mainck_to_xtal. *)
SwitchMainToXtal == <<On("xtal"), Wait({"xtal"}), Select("xtal")>>

(* pll_enable and pll_wait_for_lock. *)
EnablePll(s) == <<Off(s), On(s), Wait({s})>>

(* sysclk_init: PLL A from the crystal, divided by two. *)
SysclkInit ==
  <<Flash("full")>> \o SwitchMainToXtal \o EnablePll("A") \o SwitchMckToPll(2)

(* sysclk_enable_usb. *)
SysclkEnableUsb == SwitchMainToXtal \o EnablePll("B") \o <<Udpck(TRUE)>>

(* pmc_save_clock_settings, after it has read what there is to save: the   *)
(* master clock comes from the fast RC, the rest is switched off.          *)
SaveClocks ==
  SwitchMck("slow", 1) \o SwitchMainToRc
  \o <<Off("xtal"), Off("A"), Off("B")>> \o SwitchMck("main", 1)

(* pmc_restore_clock_setting, of what was on and how the master clock was. *)
RestoreClocks(was, m) ==
  LET plls == was \intersect Plls
      PllOn(s) == IF s \in plls THEN <<On(s)>> ELSE <<>>
  IN  SwitchMck("slow", 1)
      \o (IF "xtal" \in was THEN SwitchMainToXtal \o <<Off("rc")>> ELSE <<>>)
      \o PllOn("A") \o PllOn("B")
      \o (IF m.css = "A" THEN <<Wait({"A"})>> ELSE <<>>)
      \o <<Pres(m.pres), WaitMck, Css(m.css), WaitMck, WaitAny(plls)>>

-----------------------------------------------------------------------------
ClocksInit ==
  /\ osc = {"rc"} /\ ready = {"rc"} /\ sel = "rc"
  /\ mckr = [css |-> "main", pres |-> 1] /\ mck = mckr
  /\ usb = FALSE /\ flash = "none"
  /\ todo = SysclkInit

Access(kind) == todo # <<>> /\ Head(todo)[1] = kind
Arg == Head(todo)[2]

Done == todo' = Tail(todo)

(* What is switched on again stays as it is.                               *)
SwitchOn ==
  /\ Access("on") /\ Done
  /\ osc' = osc \cup {Arg}
  /\ UNCHANGED <<ready, sel, mckr, mck, usb, flash>>

SwitchOff ==
  /\ Access("off") /\ Done
  /\ osc' = osc \ {Arg} /\ ready' = ready \ {Arg}
  /\ UNCHANGED <<sel, mckr, mck, usb, flash>>

(* With another main clock the PLLs have to lock again.                    *)
SelectMain ==
  /\ Access("select") /\ Done
  /\ sel' = Arg
  /\ ready' = IF sel = Arg THEN ready ELSE ready \ Plls
  /\ UNCHANGED <<osc, mckr, mck, usb, flash>>

WriteMckr ==
  /\ \/ Access("css") /\ mckr' = [mckr EXCEPT !.css = Arg]
     \/ Access("pres") /\ mckr' = [mckr EXCEPT !.pres = Arg]
  /\ Done
  /\ UNCHANGED <<osc, ready, sel, mck, usb, flash>>

(* The last wait of pmc_restore_clock_setting, for PLLs restored, ends     *)
(* with the first of them.                                                 *)
EndWait ==
  /\ \/ Access("wait") /\ Arg \subseteq ready
     \/ /\ Access("any") /\ Arg \intersect ready # {}
        /\ "unlocked" \in Deviations \/ Arg \subseteq ready
     \/ (Access("mck") \/ Access("poll")) /\ mck = mckr
  /\ Done
  /\ UNCHANGED <<osc, ready, sel, mckr, mck, usb, flash>>

TimeOut ==
  /\ Access("poll") /\ mck # mckr /\ "impatient" \in Deviations
  /\ todo' = SubSeq(todo, Arg + 2, Len(todo))
  /\ UNCHANGED <<osc, ready, sel, mckr, mck, usb, flash>>

WriteOther ==
  /\ \/ Access("flash") /\ flash' = Arg /\ UNCHANGED usb
     \/ Access("usb") /\ usb' = Arg /\ UNCHANGED flash
  /\ Done
  /\ UNCHANGED <<osc, ready, sel, mckr, mck>>

ClocksStep ==
  SwitchOn \/ SwitchOff \/ SelectMain \/ WriteMckr \/ EndWait \/ TimeOut \/ WriteOther

(* The hardware: oscillators and PLLs become stable, and the master clock  *)
(* changes to a source that is.                                            *)
Runs(c) == c = "slow" \/ (c = "main" /\ sel \in ready) \/ (c = "A" /\ "A" \in ready)

Settle ==
  \/ \E s \in osc \ ready :
       /\ s \in Plls => sel \in ready
       /\ ready' = ready \cup {s} /\ UNCHANGED mck
  \/ Runs(mckr.css) /\ mck # mckr /\ mck' = mckr /\ UNCHANGED ready

ClocksSettle == Settle /\ UNCHANGED <<osc, sel, mckr, usb, flash, todo>>

-----------------------------------------------------------------------------
ClocksTypeOK ==
  /\ osc \subseteq Sources /\ ready \subseteq osc /\ sel \in {"rc", "xtal"}
  /\ mckr \in Mcks /\ mck \in Mcks
  /\ usb \in BOOLEAN /\ flash \in {"full", "none"}
  /\ todo \in Seq(Ops)

(* The clock that the master clock comes from runs; at the speed of PLL A  *)
(* it is divided (CONFIG_SYSCLK_PRES), and the flash waits.                *)
MckSound ==
  /\ Runs(mck.css)
  /\ mck.css = "A" => mck.pres = 2 /\ flash = "full"

(* The clocks that the rest of the program works with: those of board_init *)
(* and of USB.                                                             *)
FullSpeed ==
  /\ mck = Full /\ mckr = Full /\ flash = "full"
  /\ sel = "xtal" /\ {"xtal", "A"} \subseteq ready
  /\ usb => "B" \in ready
=============================================================================
