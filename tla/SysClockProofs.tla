--------------------------- MODULE SysClockProofs ---------------------------
(***************************************************************************)
(* SysClock, whatever rate PLL0 was left at and in whatever order clocks   *)
(* are asked for: nothing is overclocked at any step of set_sysclk, the    *)
(* PLL has been started whenever it is used, and what is recorded          *)
(* afterwards is true. As PLL0 may take its new rate at any time, limits   *)
(* are proved for the highest rate, that of Fastest.                       *)
(***************************************************************************)
EXTENDS SysClock, TLAPS

\* the registers with PLL0 at the rate it is set to
Fastest == [hw EXCEPT !.mhz = 240]

\* PLL0 has been started, and has its rate once it is stable
Runs(x) == x.pll \in {"stable", "retuning"} /\ (x.pll = "stable" => x.mhz = 240)

\* the source and divider that set_sysclk_do selects for clk
InputIs(x, clk) == /\ FromPll(clk) => x.in = "pll0" /\ Runs(x)
                   /\ ~FromPll(clk) => x.in = "xosc"
RunsAt(x, clk)  == x.src = "spll" /\ InputIs(x, clk) /\ x.div = SpllDiv(clk)

\* how far set_sysclk has come
Recorded  == pc \in {"safety", "rc2m", "reset", "source", "div", "spll", "spi",
                     "periph", "sd", "uart"}
Safe      == pc \in {"rc2m", "reset", "source", "div", "spll", "spi", "periph"}
Oscillator == pc \in {"reset", "source", "div", "spll"}
Switched  == pc \in {"spi", "periph", "sd", "uart"}

\* Each step of set_sysclk finds what the steps before it have written.
Progress ==
    /\ Recorded => sys.clk = req /\ sys.sel = req /\ uart_baud \in {0, req}
    /\ pc = "wait" /\ FromPll(req) => hw.pll # "off"
    /\ pc \notin {"rest", "pll", "wait"} /\ FromPll(req) =>
           hw.pll \in {"stable", "retuning"}
    /\ Safe => mod = [sbc |-> 2, aec |-> 2, audec |-> 2]
    /\ Oscillator => hw.src = "rc2m"
    /\ pc \in {"div", "spll"} => InputIs(hw, req)
    /\ pc = "spll" => hw.div = SpllDiv(req)
    /\ Switched => RunsAt(hw, req)

\* At rest the chip runs at the recorded clock, but for the time before the
\* first call, when sys is still zero.
Settled ==
    pc = "rest" => \/ sys.sel = sys.clk /\ RunsAt(hw, sys.clk)
                   \/ sys.clk = 2 /\ sys.sel = 12
UartFits == pc = "rest" => uart \in {0, sys.clk} \/ sys.sel # sys.clk

\* SdWithinLimit, from update_sd0baud on.
SdFits == pc \in {"uart", "rest"} /\ drv.pc = "idle" /\ sd.en /\ ~torn =>
              AtMost(Fastest, SdLimit(sys.clk), sd.baud)
SdDriver == drv.pc # "idle" => drv.baud \in {3, 199}

\* The limits of the modules and of the flash, and that the dividers of
\* set_peripherals_clkdiv_safety are enough for every clock.
ModulesFit == /\ AtMost(Fastest, 48, mod.sbc) /\ AtMost(Fastest, 50, mod.aec)
              /\ AtMost(Fastest, 48, mod.audec)
FlashFits  == pc # "spi" => AtMost(Fastest, 24, spi)
SafeDividers == AtMost(Fastest, 48, 2) /\ AtMost(Fastest, 50, 2)
Limits     == ModulesFit /\ FlashFits /\ SafeDividers

IInv ==
    /\ TypeOK /\ Progress /\ Settled /\ UartFits /\ SdFits /\ SdDriver
    /\ ClockAlive /\ Limits

-----------------------------------------------------------------------------
(* The table.                                                              *)

\* The rows of the table are computed for a source of 240 or of 26 MHz.
LEMMA RowExact ==
    ASSUME NEW clk \in Rates, NEW x \in HwType, RunsAt(x, clk), x.pll # "retuning"
    PROVE  clk # 2 => SourceMhz(x) = clk * Divider(x)
BY DEF Rates, RunsAt, InputIs, Runs, FromPll, SpllDiv, SourceMhz, Divider

\* What the dividers for a clock make of it.
LEMMA RowWithinLimits ==
    ASSUME NEW clk \in Rates, NEW x, x.src = "spll", x.mhz = 240,
           FromPll(clk) => x.in = "pll0", ~FromPll(clk) => x.in = "xosc",
           x.div = SpllDiv(clk)
    PROVE  /\ AtMost(x, 48, 2) /\ AtMost(x, 50, 2)
           /\ AtMost(x, 48, ModDiv(clk)) /\ AtMost(x, 50, ModDiv(clk))
           /\ AtMost(x, 24, SpiBaud(clk))
           /\ AtMost(x, SdLimit(clk), Sd0baud(clk))
           /\ AtMost(x, SdLimit(clk), UpdateBaud(clk, 199))
           /\ AtMost(x, SdLimit(clk), UpdateBaud(clk, 3))
<1>1. SourceMhz(x) = (IF FromPll(clk) THEN 240 ELSE 26) /\ Divider(x) = SpllDiv(clk) + 1
  BY DEF SourceMhz, Divider
<1>2. AtMost(x, 48, 2) /\ AtMost(x, 50, 2)
  BY <1>1 DEF AtMost, Rates, FromPll, SpllDiv
<1>3. AtMost(x, 48, ModDiv(clk)) /\ AtMost(x, 50, ModDiv(clk))
  BY <1>1 DEF AtMost, Rates, FromPll, SpllDiv, ModDiv
<1>4. AtMost(x, 24, SpiBaud(clk))
  BY <1>1 DEF AtMost, Rates, FromPll, SpllDiv, SpiBaud
<1>5. AtMost(x, SdLimit(clk), Sd0baud(clk))
  BY <1>1 DEF AtMost, Rates, FromPll, SpllDiv, Sd0baud, SdLimit
<1>6. AtMost(x, SdLimit(clk), UpdateBaud(clk, 199))
  BY <1>1 DEF AtMost, Rates, FromPll, SpllDiv, UpdateBaud, SdLimit
<1>7. AtMost(x, SdLimit(clk), UpdateBaud(clk, 3))
  BY <1>1 DEF AtMost, Rates, FromPll, SpllDiv, UpdateBaud, SdLimit
<1> QED BY <1>2, <1>3, <1>4, <1>5, <1>6, <1>7

\* The fields the code computes fit their registers.
LEMMA RowTypes ==
    ASSUME NEW clk \in Rates
    PROVE  /\ SpllDiv(clk) \in 0 .. 31 /\ SpiBaud(clk) \in 0 .. 4
           /\ ModDiv(clk) \in 0 .. 15 /\ Sd0baud(clk) \in 0 .. 255
           /\ \A baud \in {0, 3, 199} : UpdateBaud(clk, baud) \in 0 .. 255
<1>1. SpllDiv(clk) \in 0 .. 31 /\ SpiBaud(clk) \in 0 .. 4
  BY DEF Rates, SpllDiv, SpiBaud
<1>2. ModDiv(clk) \in 0 .. 15 /\ Sd0baud(clk) \in 0 .. 255
  BY DEF Rates, ModDiv, Sd0baud
<1>3. \A baud \in {0, 3, 199} : UpdateBaud(clk, baud) \in 0 .. 255
  BY DEF Rates, UpdateBaud
<1> QED BY <1>1, <1>2, <1>3

\* Nothing is too fast for the 2 MHz oscillator.
LEMMA OscillatorSlow ==
    ASSUME NEW x, x.src = "rc2m", NEW mhz \in Nat, mhz >= 2, NEW n \in Nat
    PROVE  AtMost(x, mhz, n)
<1>1. SourceMhz(x) = 2 /\ Divider(x) = 1
  BY DEF SourceMhz, Divider
<1>2. mhz * (n + 1) >= 2
  <2>1. mhz * (n + 1) = mhz * n + mhz /\ mhz * n \in Nat
    OBVIOUS
  <2> QED BY <2>1
<1> QED BY <1>1, <1>2 DEF AtMost

-----------------------------------------------------------------------------
(* The records, field by field.                                            *)

\* Fastest follows the selection and the divider.
LEMMA FastestIs ==
    ASSUME NEW x \in HwType
    PROVE  LET y == [x EXCEPT !.mhz = 240]
           IN  y.src = x.src /\ y.in = x.in /\ y.div = x.div /\ y.mhz = 240
BY DEF HwType

\* The clock is the same if its source and divider are.
LEMMA SameClock ==
    ASSUME NEW x, NEW y, y.src = x.src, y.in = x.in, y.div = x.div, y.mhz = x.mhz
    PROVE  \A mhz, n : AtMost(y, mhz, n) = AtMost(x, mhz, n)
<1>1. SourceMhz(y) = SourceMhz(x) /\ Divider(y) = Divider(x)
  BY DEF SourceMhz, Divider
<1> QED BY <1>1 DEF AtMost

\* A limit that PLL0 keeps at 240 MHz it keeps at every rate it may have.
LEMMA FastestLimits ==
    ASSUME hw \in HwType, NEW mhz \in Nat, NEW n \in Nat, AtMost(Fastest, mhz, n)
    PROVE  AtMost(hw, mhz, n)
<1>1. /\ Fastest.src = hw.src /\ Fastest.in = hw.in /\ Fastest.div = hw.div
      /\ Fastest.mhz = 240
  BY FastestIs DEF Fastest
<1>2. hw.mhz \in Nat /\ hw.mhz <= 240 /\ hw.div \in 0 .. 31
  BY OtherMhzAssumption DEF HwType
<1>3. /\ Divider(hw) = Divider(Fastest) /\ SourceMhz(hw) <= SourceMhz(Fastest)
      /\ SourceMhz(hw) \in Nat /\ SourceMhz(Fastest) \in Nat
      /\ Divider(hw) \in Nat
  BY <1>1, <1>2 DEF SourceMhz, Divider
<1> QED
  <2>1. SourceMhz(Fastest) <= mhz * (Divider(Fastest) * (n + 1))
    BY DEF AtMost
  <2>2. mhz * (Divider(hw) * (n + 1)) \in Nat
    BY <1>3
  <2> QED BY <1>3, <2>1, <2>2 DEF AtMost

\* The fields of sys, of the dividers of the modules and of the SD driver.
LEMMA Fields ==
    ASSUME TypeOK
    PROVE  /\ hw \in HwType /\ sys \in SysType
           /\ sys.clk \in Rates /\ sys.sel \in Rates /\ req \in Rates
           /\ mod.sbc \in Nat /\ mod.aec \in Nat /\ mod.audec \in Nat /\ spi \in Nat
           /\ sd.en \in BOOLEAN /\ torn \in BOOLEAN
           /\ drv \in SdDriverType /\ sd \in [en : BOOLEAN, baud : 0 .. 255]
<1>1. /\ hw \in HwType /\ sys \in SysType /\ req \in Rates /\ spi \in 0 .. 4
      /\ mod \in [sbc : 0 .. 15, aec : 0 .. 15, audec : 0 .. 15]
      /\ sd \in [en : BOOLEAN, baud : 0 .. 255]
      /\ drv \in SdDriverType /\ torn \in BOOLEAN
  BY DEF TypeOK
<1>2. mod.sbc \in 0 .. 15 /\ mod.aec \in 0 .. 15 /\ mod.audec \in 0 .. 15
  BY <1>1
<1> QED BY <1>1, <1>2 DEF HwType, SysType

\* What a clock's row does for the fastest rate of its source.
LEMMA RowFits ==
    ASSUME TypeOK, NEW clk \in Rates, RunsAt(hw, clk)
    PROVE  /\ SafeDividers
           /\ AtMost(Fastest, 48, ModDiv(clk)) /\ AtMost(Fastest, 50, ModDiv(clk))
           /\ AtMost(Fastest, 24, SpiBaud(clk))
           /\ AtMost(Fastest, SdLimit(clk), Sd0baud(clk))
           /\ AtMost(Fastest, SdLimit(clk), UpdateBaud(clk, 199))
           /\ AtMost(Fastest, SdLimit(clk), UpdateBaud(clk, 3))
<1>1. /\ Fastest.src = hw.src /\ Fastest.in = hw.in /\ Fastest.div = hw.div
      /\ Fastest.mhz = 240
  BY Fields, FastestIs DEF Fastest
<1>2. /\ hw.src = "spll" /\ hw.div = SpllDiv(clk)
      /\ (FromPll(clk) => hw.in = "pll0") /\ (~FromPll(clk) => hw.in = "xosc")
  BY DEF RunsAt, InputIs
<1> HIDE DEF Fastest
<1> QED BY <1>1, <1>2, RowWithinLimits DEF SafeDividers

\* So at the step that selects a clock.
LEMMA RowSafe == TypeOK /\ req \in Rates /\ RunsAt(hw, req) => SafeDividers
BY RowFits

\* Where source and divider stay as they are, so do all limits.
LEMMA LimitsKept ==
    ASSUME hw \in HwType, hw' \in HwType, hw'.src = hw.src, hw'.in = hw.in,
           hw'.div = hw.div
    PROVE  /\ \A mhz, n : AtMost(Fastest', mhz, n) = AtMost(Fastest, mhz, n)
           /\ SafeDividers => SafeDividers'
           /\ ModulesFit /\ mod' = mod => ModulesFit'
           /\ FlashFits /\ spi' = spi /\ pc # "spi" => FlashFits'
           /\ SdFits /\ sd' = sd /\ drv' = drv /\ torn' = torn /\ sys' = sys
              /\ (pc' \in {"uart", "rest"} => pc \in {"uart", "rest"}) => SdFits'
<1>1. /\ Fastest.src = hw.src /\ Fastest.in = hw.in /\ Fastest.div = hw.div
      /\ Fastest.mhz = 240
  BY FastestIs DEF Fastest
<1>2. /\ Fastest'.src = hw'.src /\ Fastest'.in = hw'.in /\ Fastest'.div = hw'.div
      /\ Fastest'.mhz = 240
  BY FastestIs DEF Fastest
<1>3. \A mhz, n : AtMost(Fastest', mhz, n) = AtMost(Fastest, mhz, n)
  BY <1>1, <1>2, SameClock
<1>4. SafeDividers => SafeDividers'
  BY <1>3 DEF SafeDividers
<1>5. ModulesFit /\ mod' = mod => ModulesFit'
  BY <1>3 DEF ModulesFit
<1>6. FlashFits /\ spi' = spi /\ pc # "spi" => FlashFits'
  BY <1>3 DEF FlashFits
<1>7. SdFits /\ sd' = sd /\ drv' = drv /\ torn' = torn /\ sys' = sys
      /\ (pc' \in {"uart", "rest"} => pc \in {"uart", "rest"}) => SdFits'
  BY <1>3 DEF SdFits
<1> QED BY <1>3, <1>4, <1>5, <1>6, <1>7

\* The oscillator is within every limit.
LEMMA OscillatorFits == TypeOK /\ hw.src = "rc2m" => Limits
<1> SUFFICES ASSUME TypeOK, hw.src = "rc2m" PROVE Limits
  OBVIOUS
<1>1. Fastest.src = "rc2m"
  BY Fields, FastestIs DEF Fastest
<1> HIDE DEF Fastest
<1> QED
  BY <1>1, Fields, OscillatorSlow DEF Limits, ModulesFit, FlashFits, SafeDividers

-----------------------------------------------------------------------------
(* The invariant.                                                          *)

\* Out of reset.
LEMMA InitIInv == Init => IInv
<1> SUFFICES ASSUME Init PROVE IInv
  OBVIOUS
<1>1. hw \in HwType /\ hw.src = "rc2m"
  BY DEF Init, HwType
<1>2. sys \in SysType /\ sys.clk = 2 /\ sys.sel = 12
  BY DEF Init, SysType, Rates
<1>3. /\ mod \in [sbc : 0 .. 15, aec : 0 .. 15, audec : 0 .. 15]
      /\ mod.sbc = 0 /\ mod.aec = 0 /\ mod.audec = 0
      /\ sd \in [en : BOOLEAN, baud : 0 .. 255] /\ ~sd.en
      /\ drv \in SdDriverType /\ drv.pc = "idle"
  BY DEF Init, SdDriverType
<1>4. /\ spi = 0 /\ uart = 0 /\ uart_baud = 0 /\ req = 48 /\ pc = "rest"
      /\ ie \in BOOLEAN /\ cpu_ie \in BOOLEAN /\ torn \in BOOLEAN
  BY Zenon DEF Init
<1>5. TypeOK
  BY <1>1, <1>2, <1>3, <1>4 DEF TypeOK, Rates
<1>6. Limits
  BY <1>1, <1>5, OscillatorFits
<1> QED
  BY <1>1, <1>2, <1>3, <1>4, <1>5, <1>6
     DEF IInv, Progress, Settled, UartFits, SdFits, SdDriver, ClockAlive, Recorded, Safe,
         Oscillator, Switched

\* SetSysclk begins at rest and changes no register.
LEMMA CallKeeps == ASSUME IInv, NEW clk \in Rates, SetSysclk(clk) PROVE IInv'
<1>1. /\ pc = "rest" /\ pc' = "pll" /\ req' = clk
      /\ UNCHANGED <<sys, hw, mod, spi, sd, drv, torn, uart, ie, uart_baud, cpu_ie>>
  BY DEF SetSysclk, sdvars
<1>2. TypeOK'
  BY <1>1 DEF IInv, TypeOK
<1>3. Limits'
  BY <1>1, Fields, LimitsKept DEF IInv, Limits
<1> QED
  BY <1>1, <1>2, <1>3 DEF IInv, Progress, Settled, UartFits, SdFits, SdDriver, ClockAlive,
       Recorded, Safe, Oscillator, Switched

\* PllOn starts the PLL only where it is not in use.
LEMMA PllOnKeeps == ASSUME IInv, PllOn PROVE IInv'
<1>1. TypeOK /\ ClockAlive /\ Limits /\ hw \in HwType
  BY Fields DEF IInv
<1>2. /\ pc = "pll" /\ pc' = "wait"
      /\ UNCHANGED <<sys, mod, spi, sd, drv, torn, uart, ie, req, uart_baud, cpu_ie>>
  BY DEF PllOn, sdvars
<1>3. /\ hw' \in HwType /\ hw'.src = hw.src /\ hw'.in = hw.in /\ hw'.div = hw.div
      /\ (hw.pll # "off" => hw'.pll = hw.pll /\ hw'.mhz = hw.mhz)
      /\ (FromPll(req) => hw'.pll # "off")
  <2>1. CASE FromPll(req) /\ hw.pll = "off"
    <3>1. hw' = [hw EXCEPT !.pll = "starting", !.mhz = 240]
      BY <2>1 DEF PllOn
    <3> QED BY <1>1, <2>1, <3>1 DEF HwType
  <2>2. CASE ~(FromPll(req) /\ hw.pll = "off")
    <3>1. hw' = hw
      BY <2>2 DEF PllOn
    <3> QED BY <1>1, <2>2, <3>1
  <2> QED BY <2>1, <2>2
<1>4. TypeOK' /\ ClockAlive'
  BY <1>1, <1>2, <1>3 DEF TypeOK, ClockAlive
<1>5. Limits'
  BY <1>1, <1>2, <1>3, LimitsKept DEF Limits
<1> QED
  BY <1>2, <1>3, <1>4, <1>5 DEF IInv, Progress, Settled, UartFits, SdFits, SdDriver,
       Recorded, Safe, Oscillator, Switched

\* PllWait passes only a PLL that is no longer starting.
LEMMA PllWaitKeeps == ASSUME IInv, PllWait PROVE IInv'
<1>1. /\ pc = "wait" /\ pc' = "store" /\ hw.pll # "starting"
      /\ UNCHANGED <<sys, hw, mod, spi, sd, drv, torn, uart, ie, req, uart_baud, cpu_ie>>
  BY DEF PllWait, sdvars
<1>2. TypeOK'
  BY <1>1 DEF IInv, TypeOK
<1>3. Limits'
  BY <1>1, Fields, LimitsKept DEF IInv, Limits
<1>4. FromPll(req) => hw.pll \in {"stable", "retuning"}
  BY <1>1, Fields DEF IInv, Progress, HwType
<1> QED
  BY <1>1, <1>2, <1>3, <1>4 DEF IInv, Progress, Settled, UartFits, SdFits, SdDriver,
       ClockAlive, Recorded, Safe, Oscillator, Switched

\* Settle gives PLL0 the rate for which everything has been computed.
LEMMA SettleKeeps == ASSUME IInv, Settle PROVE IInv'
<1>1. /\ TypeOK /\ ClockAlive /\ Limits /\ SdFits /\ Progress /\ Settled /\ hw \in HwType
  BY Fields DEF IInv
<1>2. /\ hw.pll \in {"starting", "retuning"}
      /\ hw' = [hw EXCEPT !.pll = "stable", !.mhz = 240]
      /\ UNCHANGED <<sys, mod, spi, sd, drv, torn, uart, ie, pc, req, uart_baud, cpu_ie>>
  BY DEF Settle, sdvars
<1>3. /\ hw' \in HwType /\ hw'.src = hw.src /\ hw'.in = hw.in /\ hw'.div = hw.div
      /\ hw'.pll = "stable" /\ hw'.mhz = 240
  BY <1>1, <1>2 DEF HwType
<1>4. TypeOK' /\ ClockAlive'
  BY <1>1, <1>2, <1>3 DEF TypeOK, ClockAlive
<1>5. Limits'
  <2>1. SafeDividers' /\ ModulesFit'
    BY <1>1, <1>2, <1>3, LimitsKept DEF Limits
  <2>2. FlashFits'
    BY <1>1, <1>2, <1>3, LimitsKept DEF Limits, FlashFits
  <2> QED BY <2>1, <2>2 DEF Limits
<1>6. SdFits'
  BY <1>1, <1>2, <1>3, LimitsKept
<1>7. \A clk : /\ InputIs(hw, clk) => InputIs(hw', clk)
               /\ RunsAt(hw, clk) => RunsAt(hw', clk)
  BY <1>3 DEF InputIs, RunsAt, Runs
<1>8. Progress'
  BY <1>1, <1>2, <1>3, <1>7 DEF Progress, Recorded, Safe, Oscillator, Switched
<1>9. Settled'
  BY <1>1, <1>2, <1>7 DEF Settled
<1> QED
  BY <1>2, <1>4, <1>5, <1>6, <1>8, <1>9 DEF IInv, UartFits, SdDriver

\* Store records the clock that is to come.
LEMMA StoreKeeps == ASSUME IInv, Store PROVE IInv'
<1>1. TypeOK /\ Progress /\ ClockAlive /\ Limits /\ SdDriver /\ hw \in HwType
  BY Fields DEF IInv
<1>2. /\ pc = "store" /\ pc' = "safety" /\ uart_baud' \in {0, req}
      /\ hw' = hw /\ UNCHANGED <<mod, spi, sd, drv, torn, uart, ie, req, cpu_ie>>
      /\ sys' = [sys EXCEPT !.clk = req, !.sel = req]
  BY DEF Store, sdvars
<1>3. sys' \in SysType /\ sys'.clk = req /\ sys'.sel = req
  BY <1>1, <1>2, Fields DEF SysType
<1>4. TypeOK'
  BY <1>1, <1>2, <1>3 DEF TypeOK
<1>5. Limits'
  BY <1>1, <1>2, LimitsKept DEF Limits
<1> QED
  BY <1>1, <1>2, <1>3, <1>4, <1>5 DEF IInv, Progress, Settled, UartFits, SdFits, SdDriver,
       ClockAlive, Recorded, Safe, Oscillator, Switched

\* Safety slows the modules down while the old clock still runs.
LEMMA SafetyKeeps == ASSUME IInv, Safety PROVE IInv'
<1>1. TypeOK /\ Progress /\ ClockAlive /\ Limits /\ SdDriver /\ hw \in HwType
  BY Fields DEF IInv
<1>2. /\ pc = "safety" /\ pc' = "rc2m" /\ cpu_ie' = ie /\ ie' = FALSE
      /\ mod' = [sbc |-> 2, aec |-> 2, audec |-> 2]
      /\ hw' = hw /\ UNCHANGED <<sys, spi, sd, drv, torn, uart, req, uart_baud>>
  BY DEF Safety, sdvars
<1>3. /\ mod' \in [sbc : 0 .. 15, aec : 0 .. 15, audec : 0 .. 15]
      /\ mod'.sbc = 2 /\ mod'.aec = 2 /\ mod'.audec = 2
  BY <1>2
<1>4. cpu_ie' \in BOOLEAN /\ ie' \in BOOLEAN
  BY <1>1, <1>2 DEF TypeOK
<1>5. TypeOK'
  BY <1>1, <1>2, <1>3, <1>4 DEF TypeOK
<1>6. SafeDividers' /\ FlashFits'
  BY <1>1, <1>2, LimitsKept DEF Limits
<1>7. Limits'
  BY <1>3, <1>6 DEF Limits, ModulesFit, SafeDividers
<1> QED
  BY <1>1, <1>2, <1>5, <1>7 DEF IInv, Progress, Settled, UartFits, SdFits, SdDriver,
       ClockAlive, Recorded, Safe, Oscillator, Switched

\* ToRc2m leaves the divider for the oscillator.
LEMMA ToRc2mKeeps == ASSUME IInv, ToRc2m PROVE IInv'
<1>1. TypeOK /\ Progress /\ SdDriver /\ hw \in HwType /\ req \in Rates
  BY Fields DEF IInv
<1>2. /\ pc = "rc2m" /\ pc' = "reset" /\ hw' = [hw EXCEPT !.src = "rc2m"]
      /\ UNCHANGED <<sys, mod, spi, sd, drv, torn, uart, ie, req, uart_baud, cpu_ie>>
  BY DEF ToRc2m, sdvars
<1>3. /\ hw' \in HwType /\ hw'.src = "rc2m" /\ hw'.pll = hw.pll
  BY <1>1, <1>2 DEF HwType
<1>4. TypeOK'
  BY <1>1, <1>2, <1>3 DEF TypeOK
<1>5. Limits'
  <2>1. (hw.src = "rc2m")'
    BY <1>3
  <2> QED BY <1>4, <2>1, OscillatorFits, PTL
<1> QED
  BY <1>1, <1>2, <1>3, <1>4, <1>5 DEF IInv, Progress, Settled, UartFits, SdFits, SdDriver,
       ClockAlive, Recorded, Safe, Oscillator, Switched

\* ResetDiv changes a divider that is not in use.
LEMMA ResetDivKeeps == ASSUME IInv, ResetDiv PROVE IInv'
<1>1. TypeOK /\ Progress /\ SdDriver /\ hw \in HwType /\ req \in Rates
  BY Fields DEF IInv
<1>2. /\ pc = "reset" /\ pc' = "source" /\ hw' = [hw EXCEPT !.div = 0]
      /\ UNCHANGED <<sys, mod, spi, sd, drv, torn, uart, ie, req, uart_baud, cpu_ie>>
  BY DEF ResetDiv, sdvars
<1>3. /\ hw' \in HwType /\ hw'.src = "rc2m" /\ hw'.pll = hw.pll
  BY <1>1, <1>2 DEF HwType, Progress, Oscillator
<1>4. TypeOK'
  BY <1>1, <1>2, <1>3 DEF TypeOK
<1>5. Limits'
  <2>1. (hw.src = "rc2m")'
    BY <1>3
  <2> QED BY <1>4, <2>1, OscillatorFits, PTL
<1> QED
  BY <1>1, <1>2, <1>3, <1>4, <1>5 DEF IInv, Progress, Settled, UartFits, SdFits, SdDriver,
       ClockAlive, Recorded, Safe, Oscillator, Switched

\* Source selects and retunes an input that is not in use.
LEMMA SourceKeeps == ASSUME IInv, Source PROVE IInv'
<1>1. TypeOK /\ Progress /\ SdDriver /\ hw \in HwType /\ req \in Rates
  BY Fields DEF IInv
<1>2. /\ pc = "source" /\ pc' = "div"
      /\ UNCHANGED <<sys, mod, spi, sd, drv, torn, uart, ie, req, uart_baud, cpu_ie>>
  BY DEF Source, sdvars
<1>3. /\ hw' \in HwType /\ hw'.src = "rc2m" /\ InputIs(hw', req)
      /\ FromPll(req) => hw'.pll \in {"stable", "retuning"}
  <2>1. hw.src = "rc2m" /\ (FromPll(req) => hw.pll \in {"stable", "retuning"})
    BY <1>1, <1>2 DEF Progress, Oscillator
  <2> DEFINE in == IF FromPll(req) THEN "pll0" ELSE "xosc"
             pll == IF FromPll(req) /\ hw.pll = "stable" /\ hw.mhz # 240
                    THEN "retuning" ELSE hw.pll
  <2>2. hw' = [hw EXCEPT !.in = in, !.pll = pll]
    BY DEF Source
  <2>3. in \in {"pll0", "xosc"} /\ pll \in {"off", "starting", "retuning", "stable"}
    BY <1>1 DEF HwType
  <2>4. /\ (FromPll(req) => in = "pll0" /\ pll \in {"stable", "retuning"}
                            /\ (pll = "stable" => hw.mhz = 240))
        /\ (~FromPll(req) => in = "xosc")
    BY <2>1
  <2> HIDE DEF in, pll
  <2>5. /\ hw' \in HwType /\ hw'.src = hw.src /\ hw'.in = in /\ hw'.pll = pll
        /\ hw'.mhz = hw.mhz
    BY <1>1, <2>2, <2>3 DEF HwType
  <2> QED BY <2>1, <2>4, <2>5 DEF InputIs, Runs
<1>4. TypeOK'
  BY <1>1, <1>2, <1>3 DEF TypeOK
<1>5. Limits'
  <2>1. (hw.src = "rc2m")'
    BY <1>3
  <2> QED BY <1>4, <2>1, OscillatorFits, PTL
<1> QED
  BY <1>1, <1>2, <1>3, <1>4, <1>5 DEF IInv, Progress, Settled, UartFits, SdFits, SdDriver,
       ClockAlive, Recorded, Safe, Oscillator, Switched

\* SetDiv writes the divider of the table before it is used.
LEMMA SetDivKeeps == ASSUME IInv, SetDiv PROVE IInv'
<1>1. TypeOK /\ Progress /\ SdDriver /\ hw \in HwType /\ req \in Rates
  BY Fields DEF IInv
<1>2. /\ pc = "div" /\ pc' = "spll" /\ hw' = [hw EXCEPT !.div = SpllDiv(req)]
      /\ UNCHANGED <<sys, mod, spi, sd, drv, torn, uart, ie, req, uart_baud, cpu_ie>>
  BY DEF SetDiv, sdvars
<1>3. /\ hw' \in HwType /\ hw'.src = "rc2m" /\ hw'.pll = hw.pll
      /\ InputIs(hw', req) /\ hw'.div = SpllDiv(req)
  <2>1. hw.src = "rc2m" /\ InputIs(hw, req)
    BY <1>1, <1>2 DEF Progress, Oscillator
  <2>2. SpllDiv(req) \in 0 .. 31
    BY <1>1, RowTypes
  <2> QED BY <1>1, <1>2, <2>1, <2>2 DEF HwType, InputIs, Runs
<1>4. TypeOK'
  BY <1>1, <1>2, <1>3 DEF TypeOK
<1>5. Limits'
  <2>1. (hw.src = "rc2m")'
    BY <1>3
  <2> QED BY <1>4, <2>1, OscillatorFits, PTL
<1> QED
  BY <1>1, <1>2, <1>3, <1>4, <1>5 DEF IInv, Progress, Settled, UartFits, SdFits, SdDriver,
       ClockAlive, Recorded, Safe, Oscillator, Switched

\* ToSpll takes the new clock: its input runs, and no module is too fast.
LEMMA ToSpllKeeps == ASSUME IInv, ToSpll PROVE IInv'
<1>1. TypeOK /\ Progress /\ SdDriver /\ hw \in HwType /\ req \in Rates
  BY Fields DEF IInv
<1>2. /\ pc = "spll" /\ pc' = "spi" /\ hw' = [hw EXCEPT !.src = "spll"]
      /\ UNCHANGED <<sys, mod, spi, sd, drv, torn, uart, ie, req, uart_baud, cpu_ie>>
  BY DEF ToSpll, sdvars
<1>3. hw' \in HwType /\ hw'.src = "spll" /\ hw'.in = hw.in /\ hw'.div = hw.div
      /\ hw'.mhz = hw.mhz /\ hw'.pll = hw.pll
  BY <1>1, <1>2 DEF HwType
<1>4. RunsAt(hw', req)
  BY <1>1, <1>2, <1>3 DEF Progress, RunsAt, InputIs, Runs
<1>5. TypeOK' /\ req' \in Rates
  BY <1>1, <1>2, <1>3 DEF TypeOK
<1>6. ClockAlive'
  BY <1>3, <1>4, <1>1 DEF ClockAlive, RunsAt, InputIs, Runs, FromPll
<1>7. SafeDividers'
  <2>1. RunsAt(hw, req)' /\ (req \in Rates)'
    BY <1>2, <1>4, <1>5 DEF RunsAt, InputIs, Runs
  <2> QED BY <1>5, <2>1, RowSafe, PTL
<1>8. mod'.sbc = 2 /\ mod'.aec = 2 /\ mod'.audec = 2
  BY <1>1, <1>2 DEF Progress, Safe
<1>9. Limits'
  BY <1>2, <1>7, <1>8 DEF Limits, ModulesFit, FlashFits, SafeDividers
<1> QED
  BY <1>1, <1>2, <1>3, <1>4, <1>5, <1>6, <1>9 DEF IInv, Progress, Settled, UartFits,
       SdFits, SdDriver, Recorded, Safe, Oscillator, Switched

\* SetSpi divides the new clock for the flash before it is used again.
LEMMA SetSpiKeeps == ASSUME IInv, SetSpi PROVE IInv'
<1>1. /\ TypeOK /\ Progress /\ ClockAlive /\ Limits /\ SdDriver
      /\ hw \in HwType /\ req \in Rates
  BY Fields DEF IInv
<1>2. /\ pc = "spi" /\ pc' = "periph" /\ spi' = SpiBaud(req)
      /\ ie' = cpu_ie /\ cpu_ie' = FALSE
      /\ hw' = hw /\ UNCHANGED <<sys, mod, sd, drv, torn, uart, req, uart_baud>>
  BY DEF SetSpi, sdvars
<1>3. ie' \in BOOLEAN /\ cpu_ie' \in BOOLEAN
  BY <1>1, <1>2 DEF TypeOK
<1>4. TypeOK'
  BY <1>1, <1>2, <1>3, RowTypes DEF TypeOK
<1>5. RunsAt(hw, req)
  BY <1>1, <1>2 DEF Progress, Switched
<1>6. Limits'
  <2>1. SafeDividers' /\ ModulesFit'
    BY <1>1, <1>2, LimitsKept DEF Limits
  <2>2. AtMost(Fastest, 24, SpiBaud(req)) /\ Fastest' = Fastest
    BY <1>1, <1>2, <1>5, RowFits DEF Fastest
  <2> QED BY <1>2, <2>1, <2>2 DEF Limits, FlashFits
<1> QED
  BY <1>1, <1>2, <1>4, <1>5, <1>6 DEF IInv, Progress, Settled, UartFits, SdFits, SdDriver,
       Recorded, Safe, Oscillator, Switched, ClockAlive

\* Peripherals gives the modules the fastest clock they stand.
LEMMA PeripheralsKeeps == ASSUME IInv, Peripherals PROVE IInv'
<1>1. /\ TypeOK /\ Progress /\ ClockAlive /\ Limits /\ SdDriver
      /\ hw \in HwType /\ req \in Rates
  BY Fields DEF IInv
<1> DEFINE n == ModDiv(sys.clk)
<1>2. /\ pc = "periph" /\ pc' = "sd" /\ mod' = [sbc |-> n, aec |-> n, audec |-> n]
      /\ hw' = hw
      /\ UNCHANGED <<sys, spi, sd, drv, torn, uart, ie, req, uart_baud, cpu_ie>>
  BY DEF Peripherals, sdvars
<1>3. RunsAt(hw, req) /\ sys.clk = req
  BY <1>1, <1>2 DEF Progress, Switched, Recorded
<1>4. n \in 0 .. 15 /\ AtMost(Fastest, 48, n) /\ AtMost(Fastest, 50, n)
  BY <1>1, <1>3, RowTypes, RowFits
<1> HIDE DEF n
<1>5. /\ mod' \in [sbc : 0 .. 15, aec : 0 .. 15, audec : 0 .. 15]
      /\ mod'.sbc = n /\ mod'.aec = n /\ mod'.audec = n
  BY <1>2, <1>4
<1>6. TypeOK'
  BY <1>1, <1>2, <1>5 DEF TypeOK
<1>7. Limits'
  <2>1. SafeDividers' /\ FlashFits'
    BY <1>1, <1>2, LimitsKept DEF Limits
  <2>2. Fastest' = Fastest
    BY <1>2 DEF Fastest
  <2> QED BY <1>4, <1>5, <2>1, <2>2 DEF Limits, ModulesFit
<1> QED
  BY <1>1, <1>2, <1>3, <1>6, <1>7 DEF IInv, Progress, Settled, UartFits, SdFits, SdDriver,
       Recorded, Safe, Oscillator, Switched, ClockAlive

\* UpdateSd fits SD0BAUD to the new clock.
LEMMA UpdateSdKeeps == ASSUME IInv, UpdateSd PROVE IInv'
<1>1. /\ TypeOK /\ Progress /\ ClockAlive /\ Limits /\ SdDriver
      /\ hw \in HwType /\ req \in Rates
  BY Fields DEF IInv
<1>2. /\ pc = "sd" /\ pc' = "uart" /\ hw' = hw /\ torn' = (torn /\ ~sd.en)
      /\ UNCHANGED <<sys, mod, spi, drv, uart, ie, req, uart_baud, cpu_ie>>
  BY DEF UpdateSd
<1>3. RunsAt(hw, req) /\ sys.clk = req
  BY <1>1, <1>2 DEF Progress, Switched, Recorded
<1>4. Sd0baud(req) \in 0 .. 255 /\ AtMost(Fastest, SdLimit(req), Sd0baud(req))
  BY <1>1, <1>3, RowTypes, RowFits
<1>5. sd \in [en : BOOLEAN, baud : 0 .. 255]
  BY <1>1 DEF TypeOK
<1>6. /\ sd' \in [en : BOOLEAN, baud : 0 .. 255]
      /\ sd'.en => sd'.baud = Sd0baud(req)
  <2>1. CASE ~sd.en
    <3>1. sd' = sd
      BY <2>1 DEF UpdateSd
    <3> QED BY <2>1, <3>1, <1>5
  <2>2. CASE sd.en
    <3>1. sd' = [sd EXCEPT !.baud = Sd0baud(req)]
      BY <2>2, <1>3 DEF UpdateSd
    <3> QED BY <2>2, <3>1, <1>4, <1>5
  <2> QED BY <2>1, <2>2
<1>7. TypeOK'
  BY <1>1, <1>2, <1>6 DEF TypeOK
<1>8. SdFits'
  <2>1. Fastest' = Fastest /\ sys'.clk = req
    BY <1>2, <1>3 DEF Fastest
  <2> QED BY <1>2, <1>4, <1>6, <2>1 DEF SdFits
<1>9. Limits'
  BY <1>1, <1>2, LimitsKept DEF Limits
<1> QED
  BY <1>1, <1>2, <1>3, <1>7, <1>8, <1>9 DEF IInv, Progress, Settled, UartFits, SdDriver,
       Recorded, Safe, Oscillator, Switched, ClockAlive

\* UpdateUart ends the call: everything it has recorded holds.
LEMMA UpdateUartKeeps == ASSUME IInv, UpdateUart PROVE IInv'
<1>1. TypeOK /\ Progress /\ SdFits /\ SdDriver /\ ClockAlive /\ Limits /\ hw \in HwType
  BY Fields DEF IInv
<1>2. /\ pc = "uart" /\ pc' = "rest" /\ uart' = uart_baud /\ uart_baud' = 0
      /\ hw' = hw /\ UNCHANGED <<sys, mod, spi, sd, drv, torn, ie, req, cpu_ie>>
  BY DEF UpdateUart, sdvars
<1>3. RunsAt(hw, req) /\ sys.clk = req /\ sys.sel = req /\ uart_baud \in {0, req}
  BY <1>1, <1>2 DEF Progress, Switched, Recorded
<1>4. TypeOK'
  BY <1>1, <1>2 DEF TypeOK
<1>5. Settled' /\ UartFits'
  BY <1>2, <1>3 DEF Settled, UartFits
<1>6. Limits' /\ SdFits'
  BY <1>1, <1>2, LimitsKept DEF Limits
<1> QED
  BY <1>1, <1>2, <1>4, <1>5, <1>6 DEF IInv, Progress, SdDriver, Recorded, Safe,
       Oscillator, Switched, ClockAlive

\* SetUart0baud only notes the rate.
LEMMA SetUart0baudKeeps == ASSUME IInv, SetUart0baud PROVE IInv'
<1>1. /\ TypeOK /\ SdFits /\ Settled /\ UartFits /\ ClockAlive /\ Limits /\ SdDriver
      /\ sys \in SysType /\ hw \in HwType
  BY Fields DEF IInv
<1>2. /\ pc = "rest" /\ pc' = pc /\ sys' = [sys EXCEPT !.baud = TRUE]
      /\ hw' = hw /\ UNCHANGED <<mod, spi, sd, drv, torn, uart, ie, req, uart_baud, cpu_ie>>
  BY DEF SetUart0baud, sdvars
<1>3. sys' \in SysType /\ sys'.clk = sys.clk /\ sys'.sel = sys.sel
  BY <1>1, <1>2 DEF SysType
<1>4. TypeOK'
  BY <1>1, <1>2, <1>3 DEF TypeOK
<1>5. Limits' /\ Fastest' = Fastest
  BY <1>1, <1>2, LimitsKept DEF Limits, Fastest
<1> QED
  BY <1>1, <1>2, <1>3, <1>4, <1>5 DEF IInv, Progress, Settled, UartFits, SdFits, SdDriver,
       Recorded, Safe, Oscillator, Switched, ClockAlive

-----------------------------------------------------------------------------
(* The SD driver.                                                          *)

\* What no step of the driver touches stays as it is.
LEMMA SdStep ==
    ASSUME IInv, NEW from, Sd(from),
           sd' \in [en : BOOLEAN, baud : 0 .. 255], drv' \in SdDriverType,
           torn' \in BOOLEAN, SdDriver', SdFits'
    PROVE  IInv'
<1>1. /\ TypeOK /\ Progress /\ Settled /\ UartFits /\ ClockAlive /\ Limits
      /\ hw \in HwType
  BY Fields DEF IInv
<1>2. UNCHANGED <<sys, hw, mod, spi, uart, ie, pc, req, uart_baud, cpu_ie>>
  BY DEF Sd
<1>3. TypeOK'
  BY <1>1, <1>2 DEF TypeOK
<1>4. Limits'
  BY <1>1, <1>2 DEF Limits, ModulesFit, FlashFits, SafeDividers, Fastest
<1> QED
  BY <1>1, <1>2, <1>3, <1>4 DEF IInv, Progress, Settled, UartFits, ClockAlive, Recorded,
       Safe, Oscillator, Switched

\* Until the driver has written SD0BAUD there is nothing to show.
LEMMA SdPowerKeeps ==
    ASSUME IInv, SdOff \/ SdUp \/ SdEnable \/ SdOn \/ SdRead PROVE IInv'
<1>1. /\ SdFits /\ SdDriver /\ drv \in SdDriverType /\ sys.clk \in Rates
      /\ sd \in [en : BOOLEAN, baud : 0 .. 255] /\ torn \in BOOLEAN
  BY Fields DEF IInv
<1>2. CASE SdOff
  <2>1. /\ Sd("idle") /\ sd' = [sd EXCEPT !.en = FALSE] /\ drv' = drv /\ torn' = torn
    BY <1>2 DEF SdOff
  <2>2. sd' \in [en : BOOLEAN, baud : 0 .. 255] /\ ~sd'.en
    BY <1>1, <2>1
  <2>3. SdFits' /\ SdDriver'
    BY <1>1, <2>1, <2>2 DEF SdFits, SdDriver
  <2> QED BY <1>1, <2>1, <2>2, <2>3, SdStep
<1>3. CASE SdUp
  <2>1. /\ Sd("idle") /\ sd' = [sd EXCEPT !.en = FALSE] /\ torn' = torn
        /\ drv' = [drv EXCEPT !.pc = "enable", !.baud = 199]
    BY <1>3 DEF SdUp
  <2>2. /\ sd' \in [en : BOOLEAN, baud : 0 .. 255]
        /\ drv' \in SdDriverType /\ drv'.pc = "enable" /\ drv'.baud = 199
    BY <1>1, <2>1 DEF SdDriverType
  <2>3. SdFits' /\ SdDriver'
    BY <2>2 DEF SdFits, SdDriver
  <2> QED BY <1>1, <2>1, <2>2, <2>3, SdStep
<1>4. CASE SdEnable
  <2>1. /\ Sd("enable") /\ sd' = [sd EXCEPT !.en = TRUE] /\ torn' = torn
        /\ drv' = [drv EXCEPT !.pc = "read"] /\ drv.pc = "enable"
    BY <1>4 DEF SdEnable, Sd
  <2>2. /\ sd' \in [en : BOOLEAN, baud : 0 .. 255]
        /\ drv' \in SdDriverType /\ drv'.pc = "read" /\ drv'.baud = drv.baud
    BY <1>1, <2>1 DEF SdDriverType
  <2>3. SdFits' /\ SdDriver'
    BY <1>1, <2>1, <2>2 DEF SdFits, SdDriver
  <2> QED BY <1>1, <2>1, <2>2, <2>3, SdStep
<1>5. CASE SdOn
  <2>1. /\ Sd("idle") /\ sd' = sd /\ torn' = torn
        /\ drv' = [drv EXCEPT !.pc = "read", !.baud = 3]
    BY <1>5 DEF SdOn
  <2>2. /\ drv' \in SdDriverType /\ drv'.pc = "read" /\ drv'.baud = 3
    BY <1>1, <2>1 DEF SdDriverType
  <2>3. SdFits' /\ SdDriver'
    BY <2>2 DEF SdFits, SdDriver
  <2> QED BY <1>1, <2>1, <2>2, <2>3, SdStep
<1>6. CASE SdRead
  <2> DEFINE v == UpdateBaud(sys.clk, drv.baud)
  <2>1. /\ Sd("read") /\ drv.pc = "read" /\ sd' = sd /\ torn' = torn
        /\ drv' = [drv EXCEPT !.pc = "write", !.val = v]
    BY <1>6 DEF SdRead, Sd
  <2>2. v \in 0 .. 255
    BY <1>1, RowTypes DEF SdDriverType
  <2> HIDE DEF v
  <2>3. /\ drv' \in SdDriverType /\ drv'.pc = "write" /\ drv'.baud = drv.baud
    BY <1>1, <2>1, <2>2 DEF SdDriverType
  <2>4. SdFits' /\ SdDriver'
    BY <1>1, <2>1, <2>3 DEF SdFits, SdDriver
  <2> QED BY <1>1, <2>1, <2>3, <2>4, SdStep
<1> QED BY <1>2, <1>3, <1>4, <1>5, <1>6

\* What it has written fits the clock that is recorded, or is torn.
LEMMA SdWriteKeeps == ASSUME IInv, SdWrite PROVE IInv'
<1>1. /\ TypeOK /\ Progress /\ Settled /\ SdDriver /\ hw \in HwType
      /\ drv \in SdDriverType /\ sys.clk \in Rates
      /\ sd \in [en : BOOLEAN, baud : 0 .. 255]
  BY Fields DEF IInv
<1>2. /\ Sd("write") /\ drv.pc = "write" /\ sys.sel = sys.clk
      /\ drv' = [drv EXCEPT !.pc = "idle"] /\ sd' = [sd EXCEPT !.baud = drv.val]
      /\ torn' = (drv.val # UpdateBaud(sys.clk, drv.baud))
      /\ pc' = pc /\ hw' = hw /\ sys' = sys
  BY DEF SdWrite, Sd
<1>3. /\ drv' \in SdDriverType /\ drv'.pc = "idle" /\ torn' \in BOOLEAN
      /\ sd' \in [en : BOOLEAN, baud : 0 .. 255] /\ sd'.baud = drv.val
  BY <1>1, <1>2 DEF SdDriverType
<1>4. drv.baud \in {3, 199}
  BY <1>1, <1>2 DEF SdDriver
<1>5. ASSUME pc \in {"uart", "rest"}, ~torn'
      PROVE  AtMost(Fastest, SdLimit(sys.clk), drv.val)
  <2>1. RunsAt(hw, sys.clk)
    <3>1. CASE pc = "uart"
      BY <1>1, <3>1 DEF Progress, Recorded, Switched
    <3>2. CASE pc = "rest"
      BY <1>1, <1>2, <3>2 DEF Settled
    <3> QED BY <1>5, <3>1, <3>2
  <2>2. drv.val = UpdateBaud(sys.clk, drv.baud)
    BY <1>2, <1>5
  <2>3. /\ AtMost(Fastest, SdLimit(sys.clk), UpdateBaud(sys.clk, 199))
        /\ AtMost(Fastest, SdLimit(sys.clk), UpdateBaud(sys.clk, 3))
    BY <1>1, <2>1, RowFits
  <2> QED BY <1>4, <2>2, <2>3
<1>6. SdFits' /\ SdDriver'
  <2>1. Fastest' = Fastest
    BY <1>2 DEF Fastest
  <2> QED BY <1>2, <1>3, <1>5, <2>1 DEF SdFits, SdDriver
<1> QED BY <1>2, <1>3, <1>6, SdStep

-----------------------------------------------------------------------------
(* All steps together.                                                     *)

\* Nothing changes.
LEMMA StutterKeeps == ASSUME IInv, UNCHANGED vars PROVE IInv'
BY DEF IInv, vars, TypeOK, Progress, Settled, UartFits, SdFits, SdDriver, Recorded, Safe,
       Oscillator, Switched, ClockAlive, Limits, ModulesFit, FlashFits, SafeDividers, Fastest

\* Every step of set_sysclk, of PLL0 and of the users of the clock.
LEMMA NextIInv == IInv /\ [Next]_vars => IInv'
<1> SUFFICES ASSUME IInv, [Next]_vars PROVE IInv'
  OBVIOUS
<1>1. CASE \E clk \in Rates : SetSysclk(clk)
  BY <1>1, CallKeeps
<1>2. CASE PllOn \/ PllWait \/ Settle \/ Store \/ Safety \/ ToRc2m \/ ResetDiv
  BY <1>2, PllOnKeeps, PllWaitKeeps, SettleKeeps, StoreKeeps, SafetyKeeps, ToRc2mKeeps,
     ResetDivKeeps
<1>3. CASE Source \/ SetDiv \/ ToSpll \/ SetSpi \/ Peripherals
  BY <1>3, SourceKeeps, SetDivKeeps, ToSpllKeeps, SetSpiKeeps, PeripheralsKeeps
<1>4. CASE UpdateSd \/ UpdateUart \/ SetUart0baud
  BY <1>4, UpdateSdKeeps, UpdateUartKeeps, SetUart0baudKeeps
<1>5. CASE SdOff \/ SdUp \/ SdEnable \/ SdOn \/ SdRead \/ SdWrite
  BY <1>5, SdPowerKeeps, SdWriteKeeps
<1>6. CASE UNCHANGED vars
  BY <1>6, StutterKeeps
<1> QED BY <1>1, <1>2, <1>3, <1>4, <1>5, <1>6 DEF Next

\* IInv holds throughout.
LEMMA Invariance == Spec => []IInv
BY InitIInv, NextIInv, PTL DEF Spec

-----------------------------------------------------------------------------
(* The theorems.                                                           *)

\* The chip never runs from a PLL that is off or that was switched on and has
\* not settled (delay_us(1000)), nor from one that is stable at another rate
\* than 240 MHz, whatever rate the boot code left it at.
THEOREM ClockNeverStops == Spec => []ClockAlive
<1>1. IInv => ClockAlive
  BY DEF IInv
<1> QED BY <1>1, Invariance, PTL

\* No step of any change of clock runs an audio module or the aec RAM above
\* its limit (set_peripherals_clkdiv_safety, set_peripherals_clkdiv).
THEOREM NeverOverclocked == Spec => []ModulesNotOverclocked
<1>1. ASSUME IInv PROVE ModulesNotOverclocked
  <2>1. /\ ModulesFit /\ hw \in HwType
        /\ mod.sbc \in Nat /\ mod.aec \in Nat /\ mod.audec \in Nat
    BY <1>1, Fields DEF IInv, Limits
  <2>2. AtMost(hw, 48, mod.sbc) /\ AtMost(hw, 50, mod.aec) /\ AtMost(hw, 48, mod.audec)
    BY <2>1, FastestLimits DEF ModulesFit
  <2> QED BY <2>2 DEF ModulesNotOverclocked
<1> QED BY <1>1, Invariance, PTL

\* The flash is clocked at 24 MHz at most whenever it is read.
THEOREM FlashReadable == Spec => []FlashWithinLimit
<1>1. ASSUME IInv PROVE FlashWithinLimit
  <2>1. FlashFits /\ hw \in HwType /\ spi \in Nat
    BY <1>1, Fields DEF IInv, Limits
  <2> QED BY <2>1, FastestLimits DEF FlashFits, FlashWithinLimit
<1> QED BY <1>1, Invariance, PTL

\* When set_sysclk has returned the chip runs at the clock it has recorded,
\* unless that is SYSCLK_2M or PLL0 was on at another rate and settles, and
\* UART0BAUD was computed for it, unless uart0baud was not set.
THEOREM RecordedClockRuns == Spec => []RecordIsTrue
<1>1. ASSUME IInv PROVE RecordIsTrue
  <2>1. TypeOK /\ Settled /\ UartFits /\ hw \in HwType /\ sys.clk \in Rates
    BY <1>1, Fields DEF IInv
  <2>2. ASSUME pc = "rest", sys.clk # 2, hw.pll # "retuning"
        PROVE  /\ SourceMhz(hw) = sys.clk * Divider(hw)
               /\ hw.src = "spll" /\ uart \in {0, sys.clk}
    <3>1. RunsAt(hw, sys.clk) /\ sys.sel = sys.clk
      BY <2>1, <2>2 DEF Settled
    <3>2. SourceMhz(hw) = sys.clk * Divider(hw)
      BY <2>1, <2>2, <3>1, RowExact
    <3> QED BY <2>1, <2>2, <3>1, <3>2 DEF UartFits, RunsAt
  <2> QED BY <2>1, <2>2 DEF RecordIsTrue
<1> QED BY <1>1, Invariance, PTL

\* When set_sysclk and the SD driver are both done, an enabled SD card is
\* clocked at 14 MHz at most, at 15 MHz under a clock of 30 or 60 MHz, whether
\* update_sd0baud or the driver wrote SD0BAUD last, unless the driver had
\* computed it for the clock before the one that it was written under.
THEOREM SdCardClock == Spec => []SdWithinLimit
<1>1. ASSUME IInv PROVE SdWithinLimit
  <2>1. SdFits /\ hw \in HwType /\ sd.baud \in Nat /\ SdLimit(sys.clk) \in Nat
    BY <1>1, Fields DEF IInv, SdLimit
  <2> QED BY <2>1, FastestLimits DEF SdFits, SdWithinLimit
<1> QED BY <1>1, Invariance, PTL
=============================================================================
