------------------------------- MODULE Rates -------------------------------
(***************************************************************************)
(* The arithmetic of the set-up: what conf_clock.h makes of the crystal,   *)
(* and the routines that turn rates into register fields.  Rates are in    *)
(* Hz.  A constant module: TLC evaluates its assumptions in the run of     *)
(* UdpPower, which extends Clocks; its integers have 32 bits, and it       *)
(* reports an overflow, so that no product here overflows a word of the    *)
(* program.                                                                *)
(***************************************************************************)
EXTENDS Naturals

Xtal == 12 * 1000000  \* BOARD_FREQ_MAINCK_XTAL
Slow == 32 * 1000     \* CHIP_FREQ_SLCK_RC
Max  == 120 * 1000000 \* CHIP_FREQ_CPU_MAX

(* conf_clock.h: multiplier and divider of the PLLs, both of the crystal.  *)
PllA == [mul |-> 20, div |-> 1]
PllB == [mul |-> 16, div |-> 2]

MainDiv == 2  \* CONFIG_SYSCLK_PRES
UsbDiv  == 2  \* CONFIG_USBCLK_DIV

(* pll_get_default_rate and the frequency that pll_config_init calculates. *)
DefaultRate(pll) == (Xtal * pll.mul) \div pll.div
VcoHz(pll)       == (Xtal \div pll.div) * pll.mul

CpuHz == DefaultRate(PllA) \div MainDiv  \* sysclk_get_cpu_hz

(* SystemCoreClockUpdate for master clock m, with the main clock at rate   *)
(* main.                                                                   *)
SystemCoreClock(m, main) ==
  (CASE m.css = "slow" -> Slow
     [] m.css = "main" -> main
     [] m.css = "A"    -> (main * PllA.mul) \div PllA.div) \div m.pres

(* system_init_flash: the wait states for a rate, CHIP_FREQ_FWS_0 to _4.   *)
FlashWaits(hz) ==
  LET limits == [f \in 0 .. 4 |-> 20 * 1000000 * (f + 1)]
      enough == {f \in 0 .. 4 : hz < limits[f]}
  IN  IF enough = {} THEN 5 ELSE CHOOSE f \in enough : \A g \in enough : f <= g

(* spi_calc_baudrate_div, with div_ceil; 0 for the error. *)
BaudrateDiv(baud, hz) ==
  LET div == (hz + baud - 1) \div baud
  IN  IF div \in 1 .. 255 THEN div ELSE 0

(* pmc_us_to_moscxtst: the start-up time of the crystal, in units of eight *)
(* periods of the slow clock.                                              *)
MoscXtSt(us, slow) ==
  LET units == ((us * slow) \div 8) \div 1000000
  IN  IF units < 256 THEN units ELSE 255

-----------------------------------------------------------------------------
(* Both PLLs are within their limits (pll.h), the processor runs at its    *)
(* maximum, and USB at 48 MHz.                                             *)
ASSUME ConfiguredRates ==
  /\ \A pll \in {PllA, PllB} :
       /\ Xtal \div pll.div \in 3 * 1000000 .. 32 * 1000000
       /\ VcoHz(pll) \in 80 * 1000000 .. 240 * 1000000
       /\ VcoHz(pll) = DefaultRate(pll)
  /\ CpuHz = Max
  /\ DefaultRate(PllB) \div UsbDiv = 48 * 1000000

(* What the two ways to find out the rate of the processor say agrees, and *)
(* the flash waits 5 cycles, as at any rate behind its last limit; no rate *)
(* at a limit gets the wait states of those below.                         *)
ASSUME RatesAgree ==
  /\ SystemCoreClock([css |-> "A", pres |-> MainDiv], Xtal) = CpuHz
  /\ FlashWaits(CpuHz) = 5
  /\ \A mhz \in 1 .. 120 : FlashWaits(mhz * 1000000) =
       IF mhz >= 100 THEN 5 ELSE mhz \div 20

(* The divider gives the fastest rate that is not above the one asked for; *)
(* the panel gets 2 MHz.                                                   *)
ASSUME BaudrateNotAbove ==
  /\ BaudrateDiv(2000000, CpuHz) = 60
  /\ \A khz \in 100 .. 1000 :
       LET baud == khz * 1000
           div  == BaudrateDiv(baud, CpuHz)
       IN  IF div = 0 THEN CpuHz > 255 * baud
           ELSE CpuHz <= div * baud /\ (div > 1 => CpuHz > (div - 1) * baud)

(* The crystal is given at least the time user_board.h says, 50 ms.        *)
ASSUME StartUpTime == MoscXtSt(50000, Slow) * 8 * 1000 >= 50 * Slow

(* Between two restarts of the watchdog, a refresh of 242 lines of 54      *)
(* words of 8 bits at 2 MHz, it counts to less than the 4095 units of 128  *)
(* slow cycles after which it resets.                                      *)
ASSUME WatchdogSuffices == ((242 * 54 * 8) \div 2000 + 1) * Slow < 4095 * 128 * 1000
=============================================================================
