------------------------------ MODULE SysClock ------------------------------
(***************************************************************************)
(* The system clock (system_ab32vgx.c): set_sysclk moves the whole chip    *)
(* from one clock to another, one register at a time, while the audio      *)
(* modules, the flash and the SD card run from that clock. An action is    *)
(* one write that the hardware sees; where ie is TRUE the CPU takes        *)
(* interrupts in between, and the thread of the SD driver may run.         *)
(*                                                                         *)
(* PLL0 takes a while to run at the rate it is given. It is taken to keep  *)
(* its rate until it has the new one, and never to be left above 240 MHz.  *)
(*                                                                         *)
(* A SYSCLK_ constant, and the PLL0DIV_ or OSCDIV_ value sysclk_sel_tbl    *)
(* gives it, is named by its rate in MHz: the enumeration is in rising     *)
(* order, so the code's comparisons are those of the rates. SPI1 and the   *)
(* clock of the sample-rate converter have no limit in the code and are    *)
(* left out, as is cnt_1us, which nothing reads.                           *)
(***************************************************************************)
EXTENDS Integers

CONSTANT OtherMhz   \* a rate at which the boot code may leave PLL0

ASSUME OtherMhzAssumption == OtherMhz \in 1 .. 239

VARIABLES
    sys,    \* sys.sys_clk, sys.clk_sel, and has sys.uart0baud been set?
    hw,     \* CLKCON0: sysclk and spll selection; CLKCON2: spll divider;
            \* PLL0CON, PLL0DIV: the state of PLL0 and its rate
    mod,    \* CLKCON2, CLKCON3: the modules' dividers
    spi,    \* SPI0BAUD, the divider of the flash
    sd,     \* SD0CON bit 0 and SD0BAUD
    drv,    \* rthw_sdio_iocfg: where it is, sd_baud and what
            \* sysclk_update_baud made of it
    torn,   \* SD0BAUD was computed for the clock before (history)
    uart,   \* the clock for which UART0BAUD was computed; 0: garbage
    ie,     \* PICCON bit 0
    pc, req, uart_baud, cpu_ie   \* set_sysclk: where it is, its argument
                                 \* and locals

vars == <<sys, hw, mod, spi, sd, drv, torn, uart, ie, pc, req, uart_baud, cpu_ie>>

sdvars == <<sd, drv, torn>>   \* the SD card and its driver

Rates == {2, 12, 13, 24, 26, 30, 48, 60, 80, 120}

\* clk_sel <= PLL0DIV_120M
FromPll(clk) == clk \notin {2, 13, 26}

\* the table of set_sysclk: spll_div and spi_baud
SpllDiv(clk) ==
    CASE clk = 12 -> 19 [] clk = 24 -> 9 [] clk = 30 -> 7 [] clk = 48 -> 4
      [] clk = 60 -> 3 [] clk = 80 -> 2 [] clk = 120 -> 1
      [] clk = 26 -> 0 [] clk = 13 -> 1 [] clk = 2 -> 1

\* Mutant: 80 MHz has the flash divider of 60 MHz.
SpiBaudLow(clk) ==
    CASE clk \in {2, 12, 13, 24} -> 0 [] clk \in {26, 30, 48} -> 1
      [] clk \in {60, 80} -> 2 [] clk = 120 -> 4

SpiBaud(clk) ==
    CASE clk \in {2, 12, 13, 24} -> 0 [] clk \in {26, 30, 48} -> 1
      [] clk = 60 -> 2 [] clk = 80 -> 3 [] clk = 120 -> 4

\* out of reset: sys is zero, which reads SYSCLK_2M and PLL0DIV_12M; the
\* chip runs from the 2 MHz oscillator and the boot code may have used PLL0
Init ==
    /\ sys = [clk |-> 2, sel |-> 12, baud |-> FALSE]
    /\ hw \in [src : {"rc2m"}, in : {"pll0"}, div : {0},
               pll : {"off", "stable"}, mhz : {240, OtherMhz}]
    /\ mod = [sbc |-> 0, aec |-> 0, audec |-> 0]
    /\ spi = 0 /\ sd = [en |-> FALSE, baud |-> 0] /\ uart = 0
    /\ drv = [pc |-> "idle", baud |-> 0, val |-> 0] /\ torn = FALSE
    /\ ie \in BOOLEAN /\ cpu_ie = FALSE
    /\ pc = "rest" /\ req = 48 /\ uart_baud = 0

-----------------------------------------------------------------------------
(* set_sysclk.                                                             *)

\* The call; nothing happens if the clock is selected already. Before the
\* first call, that of rt_hw_systick_init, nothing is selected: it asks for
\* SYSCLK_48M.
SetSysclk(clk) ==
    /\ pc = "rest" /\ sys.sel # clk /\ (sys.clk = 2 /\ sys.sel = 12 => clk = 48)
    /\ pc' = "pll" /\ req' = clk
    /\ UNCHANGED <<sys, hw, mod, spi, sdvars, uart, ie, uart_baud, cpu_ie>>

\* PLL0 is switched on unless it is on, whatever its rate
PllOn ==
    /\ pc = "pll" /\ pc' = "wait"
    /\ hw' = IF FromPll(req) /\ hw.pll = "off"
             THEN [hw EXCEPT !.pll = "starting", !.mhz = 240] ELSE hw
    /\ UNCHANGED <<sys, mod, spi, sdvars, uart, ie, req, uart_baud, cpu_ie>>

\* Mutant: "wait pll0 stable" is forgotten.
PllWaitNot ==
    /\ pc = "wait" /\ pc' = "store"
    /\ UNCHANGED <<sys, hw, mod, spi, sdvars, uart, ie, req, uart_baud, cpu_ie>>

\* delay_us(1000), for a PLL that was switched on
PllWait ==
    /\ pc = "wait" /\ hw.pll # "starting" /\ pc' = "store"
    /\ UNCHANGED <<sys, hw, mod, spi, sdvars, uart, ie, req, uart_baud, cpu_ie>>

\* PLL0 has reached the 240 MHz it was set to
Settle ==
    /\ hw.pll \in {"starting", "retuning"}
    /\ hw' = [hw EXCEPT !.pll = "stable", !.mhz = 240]
    /\ UNCHANGED <<sys, mod, spi, sdvars, uart, ie, pc, req, uart_baud, cpu_ie>>

\* Mutant: the UART divider is computed before the new clock is recorded.
StoreStale ==
    /\ pc = "store" /\ pc' = "safety"
    /\ sys' = [sys EXCEPT !.clk = req, !.sel = req]
    /\ uart_baud' = IF sys.baud THEN sys.clk ELSE 0
    /\ UNCHANGED <<hw, mod, spi, sdvars, uart, ie, req, cpu_ie>>

\* sys is written, and the UART divider computed from it; a division by zero
\* as long as set_sys_uart0baud has not been called
Store ==
    /\ pc = "store" /\ pc' = "safety"
    /\ sys' = [sys EXCEPT !.clk = req, !.sel = req]
    /\ uart_baud' = IF sys.baud THEN req ELSE 0
    /\ UNCHANGED <<hw, mod, spi, sdvars, uart, ie, req, cpu_ie>>

\* set_sysclk_do: interrupts off; set_peripherals_clkdiv_safety
Safety ==
    /\ pc = "safety" /\ pc' = "rc2m" /\ cpu_ie' = ie /\ ie' = FALSE
    /\ mod' = [sbc |-> 2, aec |-> 2, audec |-> 2]
    /\ UNCHANGED <<sys, hw, spi, sdvars, uart, req, uart_baud>>

\* Mutant: the old clock is kept while the divider is changed.
ToRc2mSkipped ==
    /\ pc = "rc2m" /\ pc' = "reset"
    /\ UNCHANGED <<sys, hw, mod, spi, sdvars, uart, ie, req, uart_baud, cpu_ie>>

ToRc2m ==
    /\ pc = "rc2m" /\ pc' = "reset" /\ hw' = [hw EXCEPT !.src = "rc2m"]
    /\ UNCHANGED <<sys, mod, spi, sdvars, uart, ie, req, uart_baud, cpu_ie>>

ResetDiv ==
    /\ pc = "reset" /\ pc' = "source" /\ hw' = [hw EXCEPT !.div = 0]
    /\ UNCHANGED <<sys, mod, spi, sdvars, uart, ie, req, uart_baud, cpu_ie>>

\* the input of the divider; PLL0 at another rate is set to 240 MHz, and
\* ToSpll does not wait for it
Source ==
    /\ pc = "source" /\ pc' = "div"
    /\ hw' = [hw EXCEPT
                !.in = IF FromPll(req) THEN "pll0" ELSE "xosc",
                !.pll = IF FromPll(req) /\ hw.pll = "stable" /\ hw.mhz # 240
                        THEN "retuning" ELSE @]
    /\ UNCHANGED <<sys, mod, spi, sdvars, uart, ie, req, uart_baud, cpu_ie>>

SetDiv ==
    /\ pc = "div" /\ pc' = "spll" /\ hw' = [hw EXCEPT !.div = SpllDiv(req)]
    /\ UNCHANGED <<sys, mod, spi, sdvars, uart, ie, req, uart_baud, cpu_ie>>

ToSpll ==
    /\ pc = "spll" /\ pc' = "spi" /\ hw' = [hw EXCEPT !.src = "spll"]
    /\ UNCHANGED <<sys, mod, spi, sdvars, uart, ie, req, uart_baud, cpu_ie>>

\* SPI0BAUD; interrupts as they were before (cpu_ie)
SetSpi ==
    /\ pc = "spi" /\ pc' = "periph" /\ spi' = SpiBaud(req)
    /\ ie' = cpu_ie /\ cpu_ie' = FALSE
    /\ UNCHANGED <<sys, hw, mod, sdvars, uart, req, uart_baud>>

\* set_peripherals_clkdiv
ModDiv(clk) == IF clk > 80 THEN 2 ELSE IF clk >= 60 THEN 1 ELSE 0

Peripherals ==
    LET n == ModDiv(sys.clk)
    IN  /\ pc = "periph" /\ pc' = "sd"
        /\ mod' = [sbc |-> n, aec |-> n, audec |-> n]
        /\ UNCHANGED <<sys, hw, spi, sdvars, uart, ie, req, uart_baud, cpu_ie>>

\* Mutant: SD0BAUD keeps the divider of the clock before.
UpdateSdNot ==
    /\ pc = "sd" /\ pc' = "uart"
    /\ UNCHANGED <<sys, hw, mod, spi, sdvars, uart, ie, req, uart_baud, cpu_ie>>

\* update_sd0baud; get_sd_rate is 0
Sd0baud(clk) ==
    IF clk <= 30 THEN 1 ELSE IF clk <= 60 THEN 3 ELSE IF clk = 80 THEN 5 ELSE 9

UpdateSd ==
    /\ pc = "sd" /\ pc' = "uart"
    /\ sd' = IF ~sd.en THEN sd ELSE [sd EXCEPT !.baud = Sd0baud(sys.clk)]
    /\ torn' = (torn /\ ~sd.en)
    /\ UNCHANGED <<sys, hw, mod, spi, drv, uart, ie, req, uart_baud, cpu_ie>>

\* update_uart0baud_in_sysclk, once the last character is sent
UpdateUart ==
    /\ pc = "uart" /\ pc' = "rest" /\ uart' = uart_baud /\ uart_baud' = 0
    /\ UNCHANGED <<sys, hw, mod, spi, sdvars, ie, req, cpu_ie>>

-----------------------------------------------------------------------------
(* The users of the clock: the console and the SD driver.                  *)

SetUart0baud ==
    /\ ~sys.baud /\ sys' = [sys EXCEPT !.baud = TRUE]
    /\ pc = "rest"
    /\ UNCHANGED <<hw, mod, spi, sdvars, uart, ie, pc, req, uart_baud, cpu_ie>>

\* sysclk_update_baud, a uint8_t: the divider of the SD driver, which is
\* written for 48 MHz, for the clock in use
UpdateBaud(clk, baud) ==
    (IF clk = 120 THEN ((baud + 1) * 25) \div 10 - 1
     ELSE IF clk >= 80 THEN (baud + 1) * 2 - 1
     ELSE IF clk <= 30 THEN ((baud + 1) \div 2) - 1 ELSE baud) % 256

\* rthw_sdio_iocfg, under the lock of the driver, in a thread, so with
\* interrupts on: power off
Sd(from) ==
    /\ ie /\ sys.sel = sys.clk /\ drv.pc = from
    /\ UNCHANGED <<sys, hw, mod, spi, uart, ie, pc, req, uart_baud, cpu_ie>>

SdOff ==
    /\ Sd("idle") /\ sd.en /\ sd' = [sd EXCEPT !.en = FALSE]
    /\ UNCHANGED <<drv, torn>>

\* power up: SD0CON = 0, sd_baud = 199; after a millisecond, SD0CON |= BIT(0)
SdUp ==
    /\ Sd("idle") /\ sd' = [sd EXCEPT !.en = FALSE]
    /\ drv' = [drv EXCEPT !.pc = "enable", !.baud = 199]
    /\ UNCHANGED torn

SdEnable ==
    /\ Sd("enable") /\ sd' = [sd EXCEPT !.en = TRUE]
    /\ drv' = [drv EXCEPT !.pc = "read"]
    /\ UNCHANGED torn

\* power on, at the card's full speed: sd_baud = 3
SdOn ==
    /\ Sd("idle") /\ sd.en /\ drv' = [drv EXCEPT !.pc = "read", !.baud = 3]
    /\ UNCHANGED <<sd, torn>>

\* SD0BAUD = sysclk_update_baud(sd_baud): sys.sys_clk is read, and then
\* SD0BAUD written
SdRead ==
    /\ Sd("read")
    /\ drv' = [drv EXCEPT !.pc = "write", !.val = UpdateBaud(sys.clk, drv.baud)]
    /\ UNCHANGED <<sd, torn>>

SdWrite ==
    /\ Sd("write") /\ drv' = [drv EXCEPT !.pc = "idle"]
    /\ sd' = [sd EXCEPT !.baud = drv.val]
    /\ torn' = (drv.val # UpdateBaud(sys.clk, drv.baud))

Next ==
    \/ \E clk \in Rates : SetSysclk(clk)
    \/ PllOn \/ PllWait \/ Settle \/ Store \/ Safety \/ ToRc2m \/ ResetDiv \/ Source \/ SetDiv
    \/ ToSpll \/ SetSpi \/ Peripherals \/ UpdateSd \/ UpdateUart
    \/ SetUart0baud \/ SdOff \/ SdUp \/ SdEnable \/ SdOn \/ SdRead \/ SdWrite

Spec == Init /\ [][Next]_vars

-----------------------------------------------------------------------------
(* Properties.                                                             *)

SysType == [clk : Rates, sel : Rates, baud : BOOLEAN]

HwType == [src : {"rc2m", "spll"}, in : {"pll0", "xosc"}, div : 0 .. 31,
           pll : {"off", "starting", "retuning", "stable"}, mhz : {240, OtherMhz}]

SdDriverType == [pc : {"idle", "enable", "read", "write"}, baud : {0, 3, 199},
                 val : 0 .. 255]

\* Every register holds a value of its field: dividers of 4 and 5 bits, a
\* byte in SD0BAUD (sysclk_update_baud multiplies 200 by 2 or by 2.5).
TypeOK ==
    /\ sys \in SysType /\ hw \in HwType
    /\ mod \in [sbc : 0 .. 15, aec : 0 .. 15, audec : 0 .. 15]
    /\ spi \in 0 .. 4 /\ sd \in [en : BOOLEAN, baud : 0 .. 255]
    /\ drv \in SdDriverType /\ torn \in BOOLEAN
    /\ uart \in Rates \cup {0} /\ uart_baud \in Rates \cup {0}
    /\ ie \in BOOLEAN /\ cpu_ie \in BOOLEAN /\ req \in Rates
    /\ pc \in {"rest", "pll", "wait", "store", "safety", "rc2m", "reset",
               "source", "div", "spll", "spi", "periph", "sd", "uart"}

\* the clock's input and its divider, in the hardware's registers x
SourceMhz(x) == IF x.src = "rc2m" THEN 2
                ELSE IF x.in = "pll0" THEN x.mhz ELSE 26
Divider(x) == IF x.src = "rc2m" THEN 1 ELSE x.div + 1

\* does a module behind a divider of n + 1 run at mhz at most?
AtMost(x, mhz, n) == SourceMhz(x) <= mhz * (Divider(x) * (n + 1))

\* The chip never runs from a PLL that is off or still starting, nor from one
\* that is stable at another rate than the 240 MHz from which the table is
\* computed. From a PLL that was on at another rate it does run while that
\* settles, for set_sysclk_do selects it at once.
ClockAlive ==
    hw.src = "spll" /\ hw.in = "pll0" =>
        /\ hw.pll \in {"stable", "retuning"}
        /\ hw.pll = "stable" => hw.mhz = 240

\* "sbcenc must stay within 48 MHz, the aec RAM within 50 MHz, audec within
\* 48 MHz": at every instant of every change of clock, for the reason the
\* comment of set_peripherals_clkdiv_safety gives, that a module must never
\* be overclocked.
ModulesNotOverclocked ==
    /\ AtMost(hw, 48, mod.sbc) /\ AtMost(hw, 50, mod.aec)
    /\ AtMost(hw, 48, mod.audec)

\* The flash clock is 24 MHz at most whenever the CPU may fetch from it, that
\* is outside the stretch of set_sysclk_do that runs from the cache.
FlashWithinLimit == pc # "spi" => AtMost(hw, 24, spi)

\* When set_sysclk has returned, the clock is the one that get_sysclk_nhz
\* reports (which the timers and dividers of all drivers are computed from)
\* and UART0BAUD was computed for it, unless uart0baud was not set. SYSCLK_2M
\* is one exception: its row of the table divides 26 MHz by two; the other is
\* a PLL0 that was on at another rate, as long as it settles. Every register
\* holds a value of its field (TypeOK).
RecordIsTrue ==
    /\ TypeOK
    /\ pc = "rest" /\ sys.clk # 2 /\ hw.pll # "retuning" =>
        /\ SourceMhz(hw) = sys.clk * Divider(hw)
        /\ hw.src = "spll"
        /\ uart \in {0, sys.clk}

\* "no more than 14 MHz": so is an enabled SD card clocked when set_sysclk and
\* the SD driver are both done, whoever of them wrote SD0BAUD last and for
\* whichever clock, but at 15 MHz when the clock is 30 or 60 MHz. Excepted is a
\* divider that the driver had computed for the clock before the one that it
\* was written under.
SdLimit(clk) == IF clk \in {30, 60} THEN 15 ELSE 14

SdWithinLimit ==
    pc = "rest" /\ drv.pc = "idle" /\ sd.en /\ ~torn =>
        AtMost(hw, SdLimit(sys.clk), sd.baud)
=============================================================================
