-------------------------- MODULE RadioSetupProofs --------------------------
(***************************************************************************)
(* Theorems of RadioSetup, for every set of configurations and payloads    *)
(* and every number of failures: a chip on the air is set up for one whole *)
(* configuration, the one the driver holds while the radio can be used, a  *)
(* frame keeps its length, and the correction of a receive timestamp is    *)
(* monotone.                                                               *)
(*                                                                         *)
(* None of these is inductive: they say nothing of a setup half done.      *)
(* SetupInv adds how far the call under way has got (Progress) and what    *)
(* the chip and the driver must hold by then: what init() has provided,    *)
(* which registers already have the settings of the configuration that     *)
(* DriverRuntime has stored, and that the radio is idle all the while.     *)
(***************************************************************************)
EXTENDS RadioSetup, SequenceTheorems, TLAPS

-----------------------------------------------------------------------------
(* The accesses of a call, by their number *)

Registers == BaseNames \cup TuningNames

\* The accesses that are no registers of a configuration.
Others == OtherNames \cup {"reset", "mask", "auto", "xti", "lde", "leds",
              "idle", "rx", "tx", "length", "configure",
              "select_tuning_values"}

\* Names by kind: what a configuration sets, what it does not, and what is no
\* register.
LEMMA NamesApart ==
    /\ Registers \subseteq Names /\ Registers \cap Others = {}
    /\ Names = Registers \cup OtherNames
    /\ {"TX_FCTRL", "USR_SFD", "SYS_MASK"} \subseteq BaseNames
    /\ {"SYS_CTRL", "TX_BUFFER", "PMSC", "LDE", "LEDS"} = OtherNames
    /\ TuningNames \cap BaseNames = {}
<1>1. \A i \in 1..Len(TuningOrder) :
         TuningOrder[i] \notin Others /\ TuningOrder[i] \notin BaseNames
  BY DEF TuningOrder, Others, OtherNames, BaseNames
<1>2. \A r \in TuningNames : r \notin Others /\ r \notin BaseNames
  BY <1>1 DEF TuningNames
<1>3. BaseNames \cap Others = {}
  BY DEF BaseNames, Others, OtherNames
<1>4. {"TX_FCTRL", "USR_SFD", "SYS_MASK"} \subseteq BaseNames
  BY DEF BaseNames
<1> QED BY <1>2, <1>3, <1>4 DEF Registers, Names, OtherNames

\* One list of accesses after another.
Join(s, u) == s \o u

IsJoined(r, s, u, S) ==
    /\ r \in Seq(S) /\ Len(r) = Len(s) + Len(u)
    /\ \A i \in 1..Len(s) : r[i] = s[i]
    /\ \A i \in 1..Len(u) : r[Len(s) + i] = u[i]

\* It is as long as both, and has the elements of one before the other's.
LEMMA Joined ==
    ASSUME NEW S, NEW s \in Seq(S), NEW u \in Seq(S)
    PROVE  IsJoined(Join(s, u), s, u, S)
<1>1. /\ s \o u \in Seq(S) /\ Len(s \o u) = Len(s) + Len(u)
      /\ \A i \in 1..Len(s) + Len(u) :
            (s \o u)[i] = IF i <= Len(s) THEN s[i] ELSE u[i - Len(s)]
  BY ConcatProperties
<1>2. Len(s) \in Nat /\ Len(u) \in Nat
  OBVIOUS
<1>3. \A m, n \in Nat :
        /\ \A i \in 1..m : i \in 1..m + n /\ i <= m
        /\ \A i \in 1..n : m + i \in 1..m + n /\ ~ (m + i <= m) /\ m + i - m = i
  OBVIOUS
<1> QED BY ONLY <1>1, <1>2, <1>3 DEF Join, IsJoined

\* What is left of a call from its k-th access on.
Remaining(steps, k) == SubSeq(steps, k, Len(steps))

\* One access after the other.
LEMMA RemainingSteps ==
    ASSUME NEW S, NEW steps \in Seq(S)
    PROVE  /\ Remaining(steps, 1) = steps
           /\ \A k \in 1..Len(steps) :
                 /\ Remaining(steps, k) # <<>>
                 /\ Head(Remaining(steps, k)) = steps[k]
                 /\ Tail(Remaining(steps, k)) = Remaining(steps, k + 1)
           /\ Remaining(steps, Len(steps) + 1) = <<>>
BY DEF Remaining

Steps == Registers \cup Others

\* reconfigure() puts the radio to idle, then sets every register of the
\* configuration, TX_FCTRL not before it has composed it.
LEMMA ReconfigurationSteps ==
    /\ Reconfiguration \in Seq(Steps) /\ Len(Reconfiguration) = 29
    /\ Reconfiguration[1] = "idle" /\ Reconfiguration[2] = "USR_SFD"
    /\ Reconfiguration[9] = "select_tuning_values"
    /\ \A k \in 2..29 : k # 9 => Reconfiguration[k] \in Registers
    /\ \A r \in Registers : \E k \in 1..29 : Reconfiguration[k] = r
<1> DEFINE a == <<"idle", "USR_SFD", "PANADR", "EUI", "SYS_CFG", "SYS_MASK",
                  "CHAN_CTRL", "TX_FCTRL">>
           c == <<"TX_ANTD", "LDE_RXANTD">>
<1>1. /\ Len(TuningOrder) = 18
      /\ \A S : (\A i \in 1..18 : TuningOrder[i] \in S) => TuningOrder \in Seq(S)
  BY DEF TuningOrder
<1>2. TuningOrder \in Seq(Steps)
  BY <1>1 DEF Steps, Registers, TuningNames
<1>3. /\ Len(a) = 8 /\ \A i \in 2..8 : a[i] \in BaseNames
      /\ Len(c) = 2 /\ \A i \in 1..2 : c[i] \in BaseNames
      /\ a[1] = "idle" /\ a[2] = "USR_SFD"
      /\ \A r \in BaseNames : (\E i \in 2..8 : a[i] = r) \/ \E i \in 1..2 : c[i] = r
  BY DEF BaseNames
<1>4. /\ \A S : (\A i \in 1..8 : a[i] \in S) => a \in Seq(S)
      /\ \A S : (\A i \in 1..2 : c[i] \in S) => c \in Seq(S)
      /\ \A S : "select_tuning_values" \in S => <<"select_tuning_values">> \in Seq(S)
  OBVIOUS
<1>5. "idle" \in Others /\ "select_tuning_values" \in Others
  BY DEF Others
<1> DEFINE b == <<"select_tuning_values">>
<1>6. /\ Reconfiguration = Join(Join(a, Tuning), c)
      /\ Tuning = Join(b, TuningOrder)
      /\ Len(b) = 1 /\ b[1] = "select_tuning_values"
  BY DEF Reconfiguration, Tuning, Join
<1> HIDE DEF a, b, c
<1>7. a \in Seq(Steps) /\ b \in Seq(Steps) /\ c \in Seq(Steps)
  <2>1. \A i \in 1..8 : a[i] \in Steps
    BY <1>3, <1>5 DEF Steps, Registers
  <2>2. \A i \in 1..2 : c[i] \in Steps
    BY <1>3 DEF Steps, Registers
  <2>3. "select_tuning_values" \in Steps
    BY <1>5 DEF Steps
  <2> QED BY <1>4, <2>1, <2>2, <2>3 DEF b
<1>8. /\ Tuning \in Seq(Steps) /\ Len(Tuning) = 19
      /\ Tuning[1] = "select_tuning_values"
      /\ \A i \in 1..18 : Tuning[1 + i] = TuningOrder[i]
  <2>1. /\ Join(b, TuningOrder) \in Seq(Steps)
        /\ Len(Join(b, TuningOrder)) = 1 + 18
        /\ \A i \in 1..1 : Join(b, TuningOrder)[i] = b[i]
        /\ \A i \in 1..18 : Join(b, TuningOrder)[1 + i] = TuningOrder[i]
    <3>1. IsJoined(Join(b, TuningOrder), b, TuningOrder, Steps)
      BY ONLY <1>2, <1>7, Joined
    <3> QED BY ONLY <3>1, <1>1, <1>6 DEF IsJoined
  <2> QED BY <1>6, <2>1, 1 \in 1..1, 1 + 18 = 19
<1>9. /\ Join(a, Tuning) \in Seq(Steps) /\ Len(Join(a, Tuning)) = 27
      /\ \A i \in 1..8 : Join(a, Tuning)[i] = a[i]
      /\ \A i \in 1..19 : Join(a, Tuning)[8 + i] = Tuning[i]
  <2>1. /\ Join(a, Tuning) \in Seq(Steps) /\ Len(Join(a, Tuning)) = 8 + 19
        /\ \A i \in 1..8 : Join(a, Tuning)[i] = a[i]
        /\ \A i \in 1..19 : Join(a, Tuning)[8 + i] = Tuning[i]
    <3>1. IsJoined(Join(a, Tuning), a, Tuning, Steps)
      BY ONLY <1>7, <1>8, Joined
    <3> QED BY ONLY <3>1, <1>3, <1>8 DEF IsJoined
  <2> QED BY <2>1, 8 + 19 = 27
<1>10. /\ Reconfiguration \in Seq(Steps) /\ Len(Reconfiguration) = 29
       /\ \A i \in 1..27 : Reconfiguration[i] = Join(a, Tuning)[i]
       /\ \A i \in 1..2 : Reconfiguration[27 + i] = c[i]
  <2>1. /\ Reconfiguration \in Seq(Steps) /\ Len(Reconfiguration) = 27 + 2
        /\ \A i \in 1..27 : Reconfiguration[i] = Join(a, Tuning)[i]
        /\ \A i \in 1..2 : Reconfiguration[27 + i] = c[i]
    <3>1. IsJoined(Join(Join(a, Tuning), c), Join(a, Tuning), c, Steps)
      BY ONLY <1>7, <1>9, Joined
    <3> QED BY ONLY <3>1, <1>3, <1>6, <1>9 DEF IsJoined
  <2> QED BY <2>1, 27 + 2 = 29
<1>11. /\ \A i \in 1..8 : Reconfiguration[i] = a[i]
       /\ \A i \in 1..18 : Reconfiguration[9 + i] = TuningOrder[i]
       /\ Reconfiguration[9] = "select_tuning_values"
  <2>1. \A i \in 1..19 : Reconfiguration[8 + i] = Tuning[i]
    <3>1. \A i \in 1..19 : 8 + i \in 1..27
      OBVIOUS
    <3> QED BY ONLY <1>9, <1>10, <3>1
  <2>2. \A i \in 1..8 : Reconfiguration[i] = a[i]
    <3>1. \A i \in 1..8 : i \in 1..27
      OBVIOUS
    <3> QED BY ONLY <1>9, <1>10, <3>1
  <2>3. \A i \in 1..18 : Reconfiguration[9 + i] = TuningOrder[i]
    <3>1. \A i \in 1..18 : 9 + i = 8 + (1 + i) /\ 1 + i \in 1..19
      OBVIOUS
    <3> QED BY ONLY <1>8, <2>1, <3>1
  <2>4. Reconfiguration[9] = "select_tuning_values"
    <3>1. 9 = 8 + 1 /\ 1 \in 1..19
      OBVIOUS
    <3> QED BY ONLY <1>8, <2>1, <3>1
  <2> QED BY <2>2, <2>3, <2>4
<1>12. ASSUME NEW k \in 2..29, k # 9 PROVE Reconfiguration[k] \in Registers
  <2>1. CASE k \in 2..8
    BY <1>3, <1>11, <2>1 DEF Registers
  <2>2. CASE k \in 10..27
    <3>1. k - 9 \in 1..18 /\ 9 + (k - 9) = k
      BY <2>2
    <3>2. Reconfiguration[9 + (k - 9)] = TuningOrder[k - 9]
      BY ONLY <1>11, <3>1
    <3>3. TuningOrder[k - 9] \in TuningNames
      BY <1>1, <3>1 DEF TuningNames
    <3> QED BY <3>1, <3>2, <3>3 DEF Registers
  <2>3. CASE k \in 28..29
    <3>1. k - 27 \in 1..2 /\ 27 + (k - 27) = k
      BY <2>3
    <3>2. Reconfiguration[27 + (k - 27)] = c[k - 27]
      BY ONLY <1>10, <3>1
    <3> QED BY <1>3, <3>1, <3>2 DEF Registers
  <2>4. k \in 2..8 \/ k \in 10..27 \/ k \in 28..29
    BY <1>12
  <2> QED BY <2>1, <2>2, <2>3, <2>4
<1>13. ASSUME NEW r \in Registers
       PROVE  \E k \in 1..29 : Reconfiguration[k] = r
  <2>1. CASE r \in TuningNames
    <3>1. PICK i \in 1..18 : r = TuningOrder[i]
      BY <1>1, <2>1 DEF TuningNames
    <3> QED BY <1>11, <3>1
  <2>2. CASE r \in BaseNames
    <3>1. CASE \E i \in 2..8 : a[i] = r
      BY <1>11, <3>1
    <3>2. CASE \E i \in 1..2 : c[i] = r
      <4>1. \A i \in 1..2 : 27 + i \in 1..29
        OBVIOUS
      <4> QED BY <1>10, <3>2, <4>1
    <3> QED BY <1>3, <2>2, <3>1, <3>2
  <2> QED BY <2>1, <2>2 DEF Registers
<1> QED BY <1>3, <1>10, <1>11, <1>12, <1>13

\* The accesses of the other calls.
LEMMA OtherSteps ==
    /\ Initialisation \in Seq(Steps) /\ Len(Initialisation) = 7
    /\ Reception \in Seq(Steps) /\ Len(Reception) = 2
    /\ Transmission \in Seq(Steps) /\ Len(Transmission) = 4
    /\ <<"leds">> \in Seq(Steps) /\ Len(<<"leds">>) = 1
    /\ Initialisation[1] = "reset" /\ Initialisation[2] = "auto"
    /\ Initialisation[3] = "mask" /\ Initialisation[4] = "xti"
    /\ Initialisation[5] = "lde" /\ Initialisation[6] = "auto"
    /\ Initialisation[7] = "configure"
    /\ Reception[1] = "idle" /\ Reception[2] = "rx"
    /\ Transmission[1] = "idle" /\ Transmission[2] = "TX_BUFFER"
    /\ Transmission[3] = "length" /\ Transmission[4] = "tx"
    /\ Head(<<"leds">>) = "leds" /\ Tail(<<"leds">>) = <<>>
<1>1. /\ \A S : {"reset", "auto", "mask", "xti", "lde", "configure"} \subseteq S
                   => Initialisation \in Seq(S)
      /\ \A S : {"idle", "rx"} \subseteq S => Reception \in Seq(S)
      /\ \A S : {"idle", "TX_BUFFER", "length", "tx"} \subseteq S
                   => Transmission \in Seq(S)
      /\ \A S : "leds" \in S => <<"leds">> \in Seq(S)
  BY DEF Initialisation, Reception, Transmission
<1>2. {"reset", "auto", "mask", "xti", "lde", "configure", "idle", "rx",
       "TX_BUFFER", "length", "tx", "leds"} \subseteq Others
  BY DEF Others, OtherNames
<1>3. /\ Len(Initialisation) = 7 /\ Len(Reception) = 2
      /\ Len(Transmission) = 4 /\ Len(<<"leds">>) = 1
  BY DEF Initialisation, Reception, Transmission
<1>4. /\ Initialisation[1] = "reset" /\ Initialisation[2] = "auto"
      /\ Initialisation[3] = "mask" /\ Initialisation[4] = "xti"
      /\ Initialisation[5] = "lde" /\ Initialisation[6] = "auto"
      /\ Initialisation[7] = "configure"
  BY DEF Initialisation
<1>5. /\ Reception[1] = "idle" /\ Reception[2] = "rx"
      /\ Transmission[1] = "idle" /\ Transmission[2] = "TX_BUFFER"
      /\ Transmission[3] = "length" /\ Transmission[4] = "tx"
      /\ Head(<<"leds">>) = "leds"
  BY DEF Reception, Transmission
<1>6. Tail(<<"leds">>) = <<>>
  <2> DEFINE l == <<"leds">>
  <2>1. l \in Seq(Steps) /\ Len(l) = 1
    BY <1>1, <1>2, <1>3 DEF Steps
  <2> HIDE DEF l
  <2>2. 1 \in 1..Len(l) /\ 1 + 1 = Len(l) + 1
    BY <2>1
  <2>3. Tail(l) = <<>>
    BY <2>1, <2>2, RemainingSteps
  <2> QED BY <2>3 DEF l
<1> QED BY <1>1, <1>2, <1>3, <1>4, <1>5, <1>6 DEF Steps

\* Where a call is: its next access, and what is left after that.
Walks(steps, n) ==
    /\ Remaining(steps, 1) = steps /\ Remaining(steps, n + 1) = <<>>
    /\ \A k \in 1..n : /\ Remaining(steps, k) # <<>>
                       /\ Head(Remaining(steps, k)) = steps[k]
                       /\ Tail(Remaining(steps, k)) = Remaining(steps, k + 1)

\* Every call walks through its accesses.
LEMMA CallsWalk ==
    /\ Walks(Initialisation, 7) /\ Walks(Reconfiguration, 29)
    /\ Walks(Reception, 2) /\ Walks(Transmission, 4)
<1>1. ASSUME NEW S, NEW steps \in Seq(S), NEW n, Len(steps) = n
      PROVE  Walks(steps, n)
  BY <1>1, RemainingSteps DEF Walks
<1>2. /\ Initialisation \in Seq(Steps) /\ Len(Initialisation) = 7
      /\ Reconfiguration \in Seq(Steps) /\ Len(Reconfiguration) = 29
      /\ Reception \in Seq(Steps) /\ Len(Reception) = 2
      /\ Transmission \in Seq(Steps) /\ Len(Transmission) = 4
  BY OtherSteps, ReconfigurationSteps
<1> QED BY ONLY <1>1, <1>2

-----------------------------------------------------------------------------
(* The inductive invariant *)

\* The chip is not on the air.
Quiet == chip["SYS_CTRL"] = <<>>

\* What only init() provides, and what a later call relies on.
Loaded   == chip["LDE"] = <<"loaded">>
Provided == chip["PMSC"] = <<"auto">> /\ Loaded

\* The driver's copy of TX_FCTRL is that of its configuration, but for the
\* length.
Alike(f, g) == \A i \in 2..4 : f[i] = g[i]

\* init() before it gets to reconfigure().
Initialising ==
    /\ call = "init"
    /\ \E k \in 1..7 :
          /\ todo = Remaining(Initialisation, k)
          /\ k >= 2 => Quiet
          /\ k >= 6 => Loaded
          /\ k >= 7 => Provided

\* reconfigure(): every register written so far holds the setting of the
\* configuration that DriverRuntime has stored, and nothing is on the air
\* once the radio has been put to idle.
Reconfiguring ==
    /\ call \in {"init", "reconfigure"}
    /\ runtime \in Configs /\ Validates(runtime) /\ Provided
    /\ \E k \in 1..29 :
          /\ todo = Remaining(Reconfiguration, k)
          /\ k >= 2 => Quiet
          /\ k >= 3 => txFctrl = Settings[runtime]["TX_FCTRL"]
          /\ k >= 10 => Tunable(runtime)
          /\ \A j \in 1..(k - 1) : Reconfiguration[j] \in Registers =>
                chip[Reconfiguration[j]] = Settings[runtime][Reconfiguration[j]]

\* What a call that returned Ok leaves, for the calls that use the radio.
Ready ==
    /\ runtime \in Configs /\ SetUpFor(runtime)
    /\ Alike(txFctrl, Settings[runtime]["TX_FCTRL"])

Receiving ==
    /\ call = "start" /\ Usable
    /\ \E k \in 1..2 : todo = Remaining(Reception, k)

Lighting == call = "leds" /\ Usable /\ todo = <<"leds">>

\* transmit(): the length follows the frame into the radio.
Transmitting ==
    /\ call = "transmit" /\ Usable
    /\ payload \in Payloads /\ FrameLength(runtime, payload) <= MaxFrame
    /\ \E k \in 1..4 :
          /\ todo = Remaining(Transmission, k)
          /\ k >= 2 => Quiet
          /\ k >= 3 => chip["TX_BUFFER"] = <<payload>>
          /\ k >= 4 => chip["TX_FCTRL"][1] = FrameLength(runtime, payload)

Waiting == call = None /\ todo = <<>>

Progress == \/ Initialising \/ Reconfiguring \/ Receiving
            \/ Lighting \/ Transmitting \/ Waiting

SetupInv ==
    /\ TypeOK /\ OneConfiguration /\ LengthSurvives
    /\ Progress
    /\ Usable /\ call \notin {"init", "reconfigure"} => Ready
    /\ call # "init" /\ client \notin {"down", "stopped"} => Provided
    /\ client = "stopped" => call = None

-----------------------------------------------------------------------------
(* What an access does to the chip *)

\* Only this register changes, if at all.
Only(c, r) ==
    DOMAIN c = Names /\ \A x \in Names \ {r} : c[x] = chip[x]

\* The access to a register of the configuration.
LEMMA WritesRegister ==
    ASSUME DOMAIN chip = Names, NEW r \in Registers
    PROVE  /\ Only(Written(r), r)
           /\ Written(r)[r] = IF r = "TX_FCTRL" THEN txFctrl
                              ELSE Settings[runtime][r]
<1>1. r \in Names /\ r \notin Others
  BY NamesApart
<1>2. Written(r) = [chip EXCEPT ![r] = IF r = "TX_FCTRL" THEN txFctrl
                                       ELSE Settings[runtime][r]]
  BY <1>1 DEF Written, Others, OtherNames
<1> QED BY <1>1, <1>2 DEF Only

\* The accesses that start and stop the receiver and the transmitter.
LEMMA WritesControl ==
    ASSUME DOMAIN chip = Names
    PROVE  /\ \A x \in {"idle", "rx", "tx"} : Only(Written(x), "SYS_CTRL")
           /\ Written("idle")["SYS_CTRL"] = <<>>
           /\ Written("rx")["SYS_CTRL"] = <<"rx", runtime.frameCheck>>
           /\ Written("tx")["SYS_CTRL"] = <<"tx", runtime.frameCheck>>
BY NamesApart DEF Written, Only

\* The accesses of transmit() before it, and of enable_leds().
LEMMA WritesFrame ==
    ASSUME DOMAIN chip = Names
    PROVE  /\ Only(Written("TX_BUFFER"), "TX_BUFFER")
           /\ Written("TX_BUFFER")["TX_BUFFER"] = <<payload>>
           /\ Only(Written("length"), "TX_FCTRL")
           /\ Written("length")["TX_FCTRL"]
                 = WithLength(txFctrl, FrameLength(runtime, payload))
           /\ Only(Written("leds"), "LEDS")
BY NamesApart, "TX_FCTRL" \in Names DEF Written, Only, Registers

\* The accesses of init() before reconfigure().
LEMMA WritesStart ==
    ASSUME DOMAIN chip = Names
    PROVE  /\ DOMAIN Written("reset") = Names
           /\ Written("reset")["SYS_CTRL"] = <<>>
           /\ Only(Written("mask"), "SYS_MASK")
           /\ Only(Written("auto"), "PMSC") /\ Only(Written("xti"), "PMSC")
           /\ Written("auto")["PMSC"] = <<"auto">>
           /\ Only(Written("lde"), "LDE")
           /\ Written("lde")["LDE"] = <<"loaded">>
<1>1. {"SYS_MASK", "SYS_CTRL", "PMSC", "LDE"} \subseteq Names
  BY NamesApart DEF Registers
<1>2. Written("reset") = PowerOn
  BY DEF Written
<1>3. DOMAIN PowerOn = Names /\ PowerOn["SYS_CTRL"] = <<>>
  BY <1>1 DEF PowerOn
<1>4. /\ Written("mask") = [chip EXCEPT !["SYS_MASK"] = <<>>]
      /\ Written("auto") = [chip EXCEPT !["PMSC"] = <<"auto">>]
      /\ Written("xti") = [chip EXCEPT !["PMSC"] = <<"xti">>]
      /\ Written("lde") = [chip EXCEPT !["LDE"] = <<"loaded">>]
  BY DEF Written
<1> QED BY <1>1, <1>2, <1>3, <1>4 DEF Only

\* The settings of TX_FCTRL, and what transmit() makes of them.
LEMMA Lengths ==
    /\ \A c \in Configs : Settings[c]["TX_FCTRL"] = <<0, c.rate, c.prf, c.length>>
    /\ \A f, n : /\ Len(WithLength(f, n)) = 4 /\ WithLength(f, n)[1] = n
                 /\ Alike(WithLength(f, n), f)
<1>1. ASSUME NEW c \in Configs
      PROVE  Settings[c]["TX_FCTRL"] = <<0, c.rate, c.prf, c.length>>
  <2>1. "TX_FCTRL" \in BaseNames
    BY NamesApart
  <2>2. Settings[c]["TX_FCTRL"] = BaseRegisters(c)["TX_FCTRL"]
    BY <2>1 DEF Settings
  <2> QED BY <2>2 DEF BaseRegisters
<1>2. ASSUME NEW f, NEW n
      PROVE  /\ Len(WithLength(f, n)) = 4 /\ WithLength(f, n)[1] = n
             /\ Alike(WithLength(f, n), f)
  BY DEF WithLength, Alike
<1> QED BY <1>1, <1>2

\* A receiver with the same frame check reads the payload that was sent.
LEMMA LengthBack ==
    ASSUME NEW c \in Configs, NEW n \in Payloads, FrameLength(c, n) <= MaxFrame
    PROVE  /\ PayloadLength([frameCheck |-> c.frameCheck], FrameLength(c, n)) = n
           /\ FrameLength(c, n) \in 0..MaxFrame
<1>1. n \in Nat \ {0} /\ c.frameCheck \in BOOLEAN
  BY SetupAssumption DEF RadioConfigs
<1>2. \A m \in 0..127 : m % 1024 = m
  OBVIOUS
<1>3. FrameLength(c, n) \in 0..127
  BY <1>1 DEF FrameLength, MaxFrame
<1>4. FrameLength(c, n) % 1024 = FrameLength(c, n)
  BY <1>2, <1>3
<1>5. PayloadLength([frameCheck |-> c.frameCheck], FrameLength(c, n))
        = IF c.frameCheck /\ FrameLength(c, n) > 2 THEN FrameLength(c, n) - 2
          ELSE FrameLength(c, n)
  BY <1>4 DEF PayloadLength
<1> QED BY <1>1, <1>3, <1>5 DEF FrameLength, MaxFrame

-----------------------------------------------------------------------------
(* What an access leaves on the air, whether it returns an error or not *)

\* Nothing is on the air.
LEMMA QuietSound == ASSUME Quiet' PROVE OneConfiguration' /\ LengthSurvives'
BY DEF Quiet, OneConfiguration, LengthSurvives, Active

\* The settings are as they were.
Unsettled ==
    /\ \A r \in Registers : chip'[r] = chip[r]
    /\ chip'["PMSC"] = chip["PMSC"] /\ chip'["LDE"] = chip["LDE"]

\* A chip that is set up stays so.
LEMMA StillSetUp ==
    ASSUME Unsettled, NEW c, SetUpFor(c)
    PROVE  SetUpFor(c)'
<1>1. "TX_FCTRL" \in Registers
  BY NamesApart DEF Registers
<1> QED BY <1>1 DEF Unsettled, SetUpFor, Registers

\* A register that says nothing of the configuration.
LEMMA OnlyOther ==
    ASSUME NEW r \in OtherNames \ {"PMSC", "LDE"}, Only(chip', r)
    PROVE  Unsettled
<1>1. \A x \in Registers \cup {"PMSC", "LDE"} : x \in Names \ {r}
  BY NamesApart DEF Others
<1> QED BY <1>1 DEF Unsettled, Only

\* What is on the air, and on which settings, is as it was.
LEMMA SameOnAir ==
    ASSUME OneConfiguration, LengthSurvives, Unsettled,
           chip'["SYS_CTRL"] = chip["SYS_CTRL"],
           chip'["TX_BUFFER"] = chip["TX_BUFFER"]
    PROVE  OneConfiguration' /\ LengthSurvives'
<1>1. "TX_FCTRL" \in Registers
  BY NamesApart DEF Registers
<1>2. Active' = Active /\ chip'["TX_FCTRL"] = chip["TX_FCTRL"]
  BY <1>1 DEF Active, Unsettled
<1>3. OneConfiguration'
  BY <1>2, StillSetUp DEF OneConfiguration
<1>4. LengthSurvives'
  BY <1>2 DEF LengthSurvives
<1> QED BY <1>3, <1>4

\* What an access may do.
Sound == /\ OneConfiguration' /\ LengthSurvives' /\ DOMAIN chip' = Names
         /\ call # "init" => Provided'

\* An access that has no effect.
LEMMA UnchangedSound ==
    ASSUME SetupInv, chip' = chip, call # "init" => Provided
    PROVE  Sound
<1>1. OneConfiguration' /\ LengthSurvives'
  BY SameOnAir DEF SetupInv, Unsettled
<1> QED BY <1>1 DEF Sound, SetupInv, TypeOK, Provided, Loaded

\* An access of init().
LEMMA InitialisingSound ==
    ASSUME SetupInv, Initialising, IsAccess(Head(todo)),
           chip' = Written(Head(todo))
    PROVE  Sound
<1>1. DOMAIN chip = Names /\ call = "init"
  BY DEF SetupInv, TypeOK, Initialising
<1>2. PICK k \in 1..7 : todo = Remaining(Initialisation, k) /\ (k >= 2 => Quiet)
  BY DEF Initialising
<1>3. Head(todo) = Initialisation[k]
  BY <1>2, CallsWalk DEF Walks
<1>4. Initialisation[k] # "configure"
  BY <1>3 DEF IsAccess
<1>5. "SYS_CTRL" \in Names /\ "SYS_CTRL" \notin {"SYS_MASK", "PMSC", "LDE"}
  BY NamesApart
<1>6. DOMAIN chip' = Names /\ Quiet'
  <2>1. CASE k = 1
    BY <1>1, <1>3, <2>1, OtherSteps, WritesStart DEF Quiet
  <2>2. CASE k # 1
    <3>1. Quiet /\ k \in 2..6
      BY <1>2, <1>4, <2>2, OtherSteps
    <3>2. Initialisation[k] \in {"auto", "mask", "xti", "lde"}
      BY <3>1, OtherSteps
    <3>3. \E r \in {"SYS_MASK", "PMSC", "LDE"} : Only(chip', r)
      BY <1>1, <1>3, <3>2, WritesStart
    <3> QED BY <1>5, <3>1, <3>3 DEF Only, Quiet
  <2> QED BY <2>1, <2>2
<1> QED BY <1>1, <1>6, QuietSound DEF Sound

\* An access of reconfigure().
LEMMA ReconfiguringSound ==
    ASSUME SetupInv, Reconfiguring, IsAccess(Head(todo)),
           chip' = Written(Head(todo))
    PROVE  Sound
<1>1. DOMAIN chip = Names /\ Provided
  BY DEF SetupInv, TypeOK, Reconfiguring
<1>2. PICK k \in 1..29 :
         todo = Remaining(Reconfiguration, k) /\ (k >= 2 => Quiet)
  BY DEF Reconfiguring
<1>3. Head(todo) = Reconfiguration[k]
  BY <1>2, CallsWalk DEF Walks
<1>4. k # 9
  BY <1>3, ReconfigurationSteps DEF IsAccess
<1>5. {"SYS_CTRL", "PMSC", "LDE"} \subseteq Names \ Registers
  BY NamesApart DEF Others
<1>6. DOMAIN chip' = Names /\ Quiet' /\ Provided'
  <2>1. CASE k = 1
    <3>1. chip' = Written("idle")
      BY <1>3, <2>1, ReconfigurationSteps
    <3> QED BY <1>1, <1>5, <3>1, WritesControl
         DEF Only, Quiet, Provided, Loaded
  <2>2. CASE k # 1
    <3>1. Quiet /\ Reconfiguration[k] \in Registers
      <4>1. k \in 2..29
        BY <2>2
      <4>2. Reconfiguration[k] \in Registers
        BY ONLY <1>4, <4>1, ReconfigurationSteps
      <4> QED BY <1>2, <4>1, <4>2
    <3>2. Only(chip', Reconfiguration[k])
      BY <1>1, <1>3, <3>1, WritesRegister
    <3> QED BY <1>1, <1>5, <3>1, <3>2 DEF Only, Quiet, Provided, Loaded
  <2> QED BY <2>1, <2>2
<1> QED BY <1>6, QuietSound DEF Sound

\* An access of the calls that use the radio.
LEMMA ReceivingSound ==
    ASSUME SetupInv, Receiving, chip' = Written(Head(todo))
    PROVE  Sound
<1>1. DOMAIN chip = Names /\ Ready /\ call = "start"
      /\ OneConfiguration /\ LengthSurvives
  BY DEF SetupInv, TypeOK, Receiving
<1>2. PICK k \in 1..2 : todo = Remaining(Reception, k)
  BY DEF Receiving
<1>3. Head(todo) = Reception[k]
  BY <1>2, CallsWalk DEF Walks
<1>4. Head(todo) \in {"idle", "rx"}
  BY <1>3, OtherSteps
<1>5. Only(chip', "SYS_CTRL")
  BY <1>1, <1>4, WritesControl
<1>6. Unsettled /\ DOMAIN chip' = Names
  BY <1>5, OnlyOther, NamesApart DEF Only
<1>8. \E c \in Configs : SetUpFor(c)'
  BY <1>1, <1>6, StillSetUp DEF Ready
<1>9. /\ Head(todo) = "idle" => chip'["SYS_CTRL"] = <<>>
      /\ Head(todo) = "rx" => chip'["SYS_CTRL"][1] = "rx"
  BY <1>1, WritesControl
<1>10. OneConfiguration' /\ LengthSurvives'
  BY <1>4, <1>8, <1>9 DEF OneConfiguration, LengthSurvives, Active
<1>11. Provided'
  BY <1>1, <1>6 DEF Ready, SetUpFor, Unsettled, Provided, Loaded
<1> QED BY <1>6, <1>10, <1>11 DEF Sound

\* enable_leds()
LEMMA LightingSound ==
    ASSUME SetupInv, Lighting, chip' = Written(Head(todo))
    PROVE  Sound
<1>1. DOMAIN chip = Names /\ Ready /\ OneConfiguration /\ LengthSurvives
  BY DEF SetupInv, TypeOK, Lighting
<1>2. Only(chip', "LEDS")
  BY <1>1, OtherSteps, WritesFrame DEF Lighting
<1>3. {"LEDS", "SYS_CTRL", "TX_BUFFER"} \subseteq OtherNames /\ OtherNames \subseteq Names
  BY NamesApart
<1>4. Unsettled
  BY <1>2, <1>3, OnlyOther
<1>5. /\ chip'["SYS_CTRL"] = chip["SYS_CTRL"]
      /\ chip'["TX_BUFFER"] = chip["TX_BUFFER"]
  BY <1>2, <1>3 DEF Only
<1>6. Provided'
  BY <1>1, <1>4 DEF Ready, SetUpFor, Unsettled, Provided, Loaded
<1> QED BY <1>1, <1>2, <1>4, <1>5, <1>6, SameOnAir DEF Sound, Only

\* The accesses of transmit(): only the last of them starts the transmitter.
LEMMA TransmittingSound ==
    ASSUME SetupInv, Transmitting, chip' = Written(Head(todo))
    PROVE  Sound
<1>1. /\ DOMAIN chip = Names /\ Ready
      /\ payload \in Payloads /\ FrameLength(runtime, payload) <= MaxFrame
  BY DEF SetupInv, TypeOK, Transmitting
<1>2. PICK k \in 1..4 :
          /\ todo = Remaining(Transmission, k)
          /\ k >= 2 => Quiet
          /\ k >= 3 => chip["TX_BUFFER"] = <<payload>>
          /\ k >= 4 => chip["TX_FCTRL"][1] = FrameLength(runtime, payload)
  BY DEF Transmitting
<1>3. Head(todo) = Transmission[k]
  BY <1>2, CallsWalk DEF Walks
<1>4. /\ {"SYS_CTRL", "TX_BUFFER", "PMSC", "LDE"} \subseteq OtherNames
      /\ OtherNames \subseteq Names /\ OtherNames \cap Registers = {}
      /\ "TX_FCTRL" \in Registers
  BY NamesApart DEF Registers, Others
<1>5. Provided
  BY <1>1 DEF Ready, SetUpFor, Provided, Loaded
<1>6. CASE k = 1
  <2>1. chip' = Written("idle")
    BY <1>3, <1>6, OtherSteps
  <2>2. DOMAIN chip' = Names /\ Quiet' /\ Provided'
    BY <1>1, <1>4, <1>5, <2>1, WritesControl DEF Only, Quiet, Provided, Loaded
  <2> QED BY <2>2, QuietSound DEF Sound
<1>7. CASE k \in 2..3
  <2>1. Quiet /\ Head(todo) \in {"TX_BUFFER", "length"}
    BY <1>2, <1>3, <1>7, OtherSteps
  <2>2. \E r \in {"TX_BUFFER", "TX_FCTRL"} : Only(chip', r)
    BY <1>1, <2>1, WritesFrame
  <2>3. DOMAIN chip' = Names /\ Quiet' /\ Provided'
    BY <1>4, <1>5, <2>1, <2>2 DEF Only, Quiet, Provided, Loaded
  <2> QED BY <2>3, QuietSound DEF Sound
<1>8. CASE k = 4
  <2>1. chip' = Written("tx")
    BY <1>3, <1>8, OtherSteps
  <2>2. /\ Only(chip', "SYS_CTRL")
        /\ chip'["SYS_CTRL"] = <<"tx", runtime.frameCheck>>
    BY <1>1, <2>1, WritesControl
  <2>3. Unsettled
    BY <1>4, <2>2, OnlyOther
  <2>4. /\ chip'["TX_BUFFER"] = <<payload>> /\ DOMAIN chip' = Names
        /\ chip'["TX_FCTRL"][1] = FrameLength(runtime, payload)
    BY <1>2, <1>4, <1>8, <2>2, <2>3 DEF Only, Unsettled
  <2>5. OneConfiguration'
    BY <1>1, <2>3, StillSetUp DEF Ready, OneConfiguration
  <2>6. PayloadLength([frameCheck |-> runtime.frameCheck],
                      FrameLength(runtime, payload)) = payload
    BY <1>1, LengthBack DEF Ready
  <2>7. LengthSurvives'
    <3>1. chip'["SYS_CTRL"][2] = runtime.frameCheck /\ chip'["TX_BUFFER"][1] = payload
      BY <2>2, <2>4
    <3> QED BY <2>4, <2>6, <3>1 DEF LengthSurvives
  <2>8. Provided'
    BY <1>5, <2>3 DEF Unsettled, Provided, Loaded
  <2> QED BY <2>4, <2>5, <2>7, <2>8 DEF Sound
<1> QED BY <1>6, <1>7, <1>8

\* Any access.
LEMMA AccessSound ==
    ASSUME SetupInv, todo # <<>>, IsAccess(Head(todo)),
           chip' \in {chip, Written(Head(todo))}
    PROVE  Sound
<1>1. CASE Initialising
  BY <1>1, InitialisingSound, UnchangedSound DEF Initialising
<1>2. CASE Reconfiguring
  BY <1>2, ReconfiguringSound, UnchangedSound DEF Reconfiguring
<1>3. CASE Receiving \/ Lighting \/ Transmitting
  <2>1. Ready
    BY <1>3 DEF SetupInv, Receiving, Lighting, Transmitting
  <2>2. Provided
    BY <2>1 DEF Ready, SetUpFor, Provided, Loaded
  <2> QED BY <1>3, <2>2, ReceivingSound, LightingSound, TransmittingSound,
             UnchangedSound
<1>4. CASE Waiting
  BY <1>4 DEF Waiting
<1> QED BY <1>1, <1>2, <1>3, <1>4 DEF SetupInv, Progress

-----------------------------------------------------------------------------
(* The driver's copy of TX_FCTRL, and the types *)

\* The accesses that can come next.
LEMMA NextAccess ==
    /\ Initialising =>
          Head(todo) \in {"reset", "auto", "mask", "xti", "lde", "configure"}
    /\ Reconfiguring =>
          Head(todo) \in Registers \cup {"idle", "select_tuning_values"}
    /\ Receiving => Head(todo) \in {"idle", "rx"}
    /\ Lighting => Head(todo) = "leds"
    /\ Transmitting => Head(todo) \in {"idle", "TX_BUFFER", "length", "tx"}
<1>1. ASSUME Initialising
      PROVE  Head(todo) \in {"reset", "auto", "mask", "xti", "lde", "configure"}
  <2>1. PICK k \in 1..7 : todo = Remaining(Initialisation, k)
    BY <1>1 DEF Initialising
  <2>2. Head(todo) = Initialisation[k]
    BY <2>1, CallsWalk DEF Walks
  <2> QED BY <2>2, OtherSteps
<1>2. ASSUME Reconfiguring
      PROVE  Head(todo) \in Registers \cup {"idle", "select_tuning_values"}
  <2>1. PICK k \in 1..29 : todo = Remaining(Reconfiguration, k)
    BY <1>2 DEF Reconfiguring
  <2>2. Head(todo) = Reconfiguration[k]
    BY <2>1, CallsWalk DEF Walks
  <2>3. k = 1 \/ k = 9 \/ (k \in 2..29 /\ k # 9)
    OBVIOUS
  <2> QED BY ONLY <2>2, <2>3, ReconfigurationSteps
<1>3. ASSUME Receiving PROVE Head(todo) \in {"idle", "rx"}
  <2>1. PICK k \in 1..2 : todo = Remaining(Reception, k)
    BY <1>3 DEF Receiving
  <2>2. Head(todo) = Reception[k]
    BY <2>1, CallsWalk DEF Walks
  <2> QED BY <2>2, OtherSteps
<1>4. ASSUME Transmitting
      PROVE  Head(todo) \in {"idle", "TX_BUFFER", "length", "tx"}
  <2>1. PICK k \in 1..4 : todo = Remaining(Transmission, k)
    BY <1>4 DEF Transmitting
  <2>2. Head(todo) = Transmission[k]
    BY <2>1, CallsWalk DEF Walks
  <2> QED BY <2>2, OtherSteps
<1>5. ASSUME Lighting PROVE Head(todo) = "leds"
  BY <1>5, OtherSteps DEF Lighting
<1> QED BY <1>1, <1>2, <1>3, <1>4, <1>5

\* reconfigure() composes it anew, transmit() changes its length only.
LEMMA Composes ==
    ASSUME SetupInv, todo # <<>>, txFctrl' = Composed(Head(todo))
    PROVE  /\ Len(txFctrl') = 4 /\ txFctrl'[1] \in 0..MaxFrame
           /\ call \notin {"init", "reconfigure"} => Alike(txFctrl', txFctrl)
<1>1. Len(txFctrl) = 4 /\ txFctrl[1] \in 0..MaxFrame
  BY DEF SetupInv, TypeOK
<1>2. Head(todo) = "USR_SFD" => Reconfiguring
  <2>1. "USR_SFD" \notin Others
    BY NamesApart DEF Registers
  <2> QED BY <2>1, NextAccess DEF SetupInv, Progress, Waiting, Others, OtherNames
<1>3. Head(todo) = "length" => Transmitting
  <2>1. "length" \notin Registers
    BY NamesApart DEF Others
  <2> QED BY <2>1, NextAccess DEF SetupInv, Progress, Waiting
<1>4. CASE Head(todo) = "USR_SFD"
  <2>1. /\ runtime \in Configs /\ call \in {"init", "reconfigure"}
        /\ txFctrl' = Settings[runtime]["TX_FCTRL"]
    BY <1>2, <1>4 DEF Composed, Reconfiguring
  <2>2. txFctrl' = <<0, runtime.rate, runtime.prf, runtime.length>>
    BY <2>1, Lengths
  <2> QED BY <2>1, <2>2 DEF MaxFrame
<1>5. CASE Head(todo) = "length"
  <2>1. txFctrl' = WithLength(txFctrl, FrameLength(runtime, payload))
    BY <1>5 DEF Composed
  <2>2. /\ runtime \in Configs /\ payload \in Payloads
        /\ FrameLength(runtime, payload) <= MaxFrame
    BY <1>3, <1>5 DEF Transmitting, SetupInv, Ready
  <2>3. FrameLength(runtime, payload) \in 0..MaxFrame
    BY <2>2, LengthBack
  <2> QED BY <2>1, <2>3, Lengths
<1>6. CASE Head(todo) \notin {"USR_SFD", "length"}
  BY <1>1, <1>6 DEF Composed, Alike
<1> QED BY <1>4, <1>5, <1>6

\* The types survive an access that succeeds, and what it does is sound.
LEMMA AccessTyped ==
    ASSUME SetupInv, AccessSucceeds
    PROVE  TypeOK' /\ Sound
<1>1. /\ todo # <<>> /\ IsAccess(Head(todo)) /\ runtime' = runtime
      /\ txFctrl' = Composed(Head(todo)) /\ chip' = Written(Head(todo))
      /\ Returns(Tail(todo))
  BY DEF AccessSucceeds
<1>2. Sound
  BY <1>1, AccessSound
<1>3. Len(txFctrl') = 4 /\ txFctrl'[1] \in 0..MaxFrame
  BY <1>1, Composes
<1>4. TypeOK /\ call # None
  BY <1>1 DEF SetupInv, TypeOK
<1>5. /\ call' \in {None, "init", "reconfigure", "leds", "start", "transmit"}
      /\ call' = None <=> todo' = <<>>
      /\ client' \in {"down", "failed", "ready", "running", "stopped"}
      /\ payload' \in Payloads \cup {0}
      /\ recovering' \in BOOLEAN /\ failures' \in 0..MaxFailures
  BY <1>1, <1>4, SetupAssumption DEF Returns, TypeOK
<1> QED BY <1>1, <1>2, <1>3, <1>4, <1>5 DEF TypeOK, Sound

\* An access or a computation that fails leaves the radio unusable, and a
\* failed init() leaves it down.
LEMMA FailsKeeps ==
    ASSUME SetupInv, Fails, call # None, Sound, runtime' = runtime,
           Len(txFctrl') = 4, txFctrl'[1] \in 0..MaxFrame
    PROVE  SetupInv'
<1>1. /\ call' = None /\ todo' = <<>> /\ payload' = 0
      /\ client' = IF call = "init" THEN "down" ELSE "failed"
      /\ failures' \in 0..MaxFailures /\ recovering' = recovering
  BY SetupAssumption DEF Fails, SetupInv, TypeOK
<1>2. TypeOK'
  BY <1>1 DEF TypeOK, SetupInv, Sound
<1>3. Progress' /\ ~ Usable'
  BY <1>1 DEF Progress, Waiting, Usable
<1>4. call' # "init" /\ client' \notin {"down", "stopped"} => Provided'
  BY <1>1 DEF Sound
<1> QED BY <1>1, <1>2, <1>3, <1>4 DEF SetupInv, Sound

-----------------------------------------------------------------------------
(* The next access of each call *)

\* A call with accesses left to make, and one that has made its last.
LEMMA GoesOn ==
    ASSUME NEW steps, steps # <<>>, Returns(steps)
    PROVE  todo' = steps /\ call' = call /\ payload' = payload /\ client' = client
BY DEF Returns

\* A call that returns Ok.
LEMMA Finishes ==
    ASSUME Returns(<<>>)
    PROVE  /\ todo' = <<>> /\ call' = None
           /\ client' = IF call = "start" THEN "running"
                        ELSE IF call \in {"init", "reconfigure"} THEN "ready"
                        ELSE client
<1>1. <<>> = <<>>
  OBVIOUS
<1> QED BY <1>1 DEF Returns

\* hard_reset() to manage_lde().
LEMMA InitialisingKeeps ==
    ASSUME SetupInv, Initialising, AccessSucceeds
    PROVE  SetupInv'
<1>1. /\ IsAccess(Head(todo)) /\ chip' = Written(Head(todo))
      /\ Returns(Tail(todo)) /\ call = "init" /\ DOMAIN chip = Names
  BY DEF AccessSucceeds, Initialising, SetupInv, TypeOK
<1>2. PICK k \in 1..7 :
          /\ todo = Remaining(Initialisation, k)
          /\ k >= 2 => Quiet
          /\ k >= 6 => Loaded
          /\ k >= 7 => Provided
  BY DEF Initialising
<1>3. /\ Head(todo) = Initialisation[k]
      /\ Tail(todo) = Remaining(Initialisation, k + 1)
  BY <1>2, CallsWalk DEF Walks
<1>4. k \in 1..6
  BY <1>1, <1>3, OtherSteps DEF IsAccess
<1>5. Tail(todo) # <<>>
  <2>1. k + 1 \in 1..7
    BY <1>4
  <2> QED BY <1>3, <2>1, CallsWalk DEF Walks
<1>6. /\ todo' = Remaining(Initialisation, k + 1) /\ call' = "init"
      /\ client' = client
  BY ONLY <1>1, <1>3, <1>5, GoesOn
<1>7. {"SYS_CTRL", "PMSC", "LDE"} \subseteq Names
  BY NamesApart
<1>8. Quiet'
  <2>1. CASE k = 1
    BY <1>1, <1>3, <2>1, OtherSteps, WritesStart DEF Quiet
  <2>2. CASE k \in 2..6
    <3>1. Initialisation[k] \in {"auto", "mask", "xti", "lde"}
      BY <2>2, OtherSteps
    <3>2. \E r \in {"SYS_MASK", "PMSC", "LDE"} : Only(chip', r)
      BY <1>1, <1>3, <3>1, WritesStart
    <3> QED BY <1>2, <1>7, <2>2, <3>2 DEF Only, Quiet
  <2> QED BY <1>4, <2>1, <2>2
<1>9. k + 1 >= 6 => Loaded'
  <2>1. CASE k = 5
    BY <1>1, <1>3, <2>1, OtherSteps, WritesStart DEF Loaded
  <2>2. CASE k = 6
    BY <1>1, <1>2, <1>3, <1>7, <2>2, OtherSteps, WritesStart DEF Loaded, Only
  <2> QED BY <1>4, <2>1, <2>2
<1>10. k + 1 >= 7 => Provided'
  <2>1. CASE k = 6
    BY <1>1, <1>3, <1>9, <2>1, OtherSteps, WritesStart DEF Provided
  <2> QED BY <1>4, <2>1
<1>11. Initialising'
  <2>1. k + 1 \in 1..7
    BY <1>4
  <2> QED BY <1>6, <1>8, <1>9, <1>10, <2>1 DEF Initialising
<1>12. TypeOK' /\ OneConfiguration' /\ LengthSurvives'
  BY AccessTyped DEF Sound
<1>13. client' = "stopped" => call' = None
  BY <1>1, <1>6 DEF SetupInv
<1> QED BY <1>6, <1>11, <1>12, <1>13 DEF SetupInv, Progress

\* reconfigure(), up to its return.
LEMMA ReconfiguringKeeps ==
    ASSUME SetupInv, Reconfiguring, AccessSucceeds
    PROVE  SetupInv'
<1>1. /\ IsAccess(Head(todo)) /\ chip' = Written(Head(todo))
      /\ runtime' = runtime /\ txFctrl' = Composed(Head(todo))
      /\ Returns(Tail(todo)) /\ call \in {"init", "reconfigure"}
      /\ DOMAIN chip = Names
      /\ runtime \in Configs /\ Validates(runtime) /\ Provided
  BY DEF AccessSucceeds, Reconfiguring, SetupInv, TypeOK
<1>2. PICK k \in 1..29 :
          /\ todo = Remaining(Reconfiguration, k)
          /\ k >= 2 => Quiet
          /\ k >= 3 => txFctrl = Settings[runtime]["TX_FCTRL"]
          /\ k >= 10 => Tunable(runtime)
          /\ \A j \in 1..(k - 1) : Reconfiguration[j] \in Registers =>
                chip[Reconfiguration[j]] = Settings[runtime][Reconfiguration[j]]
  BY DEF Reconfiguring
<1>3. /\ Head(todo) = Reconfiguration[k]
      /\ Tail(todo) = Remaining(Reconfiguration, k + 1)
  BY <1>2, CallsWalk DEF Walks
<1>4. k # 9
  BY <1>1, <1>3, ReconfigurationSteps DEF IsAccess
<1>5. {"SYS_CTRL", "PMSC", "LDE"} \subseteq Names \ Registers
      /\ Registers \subseteq Names /\ "idle" \notin Registers
      /\ "length" \notin Registers
  BY NamesApart DEF Others
<1>7. k # 1 => Reconfiguration[k] \in Registers
  <2>1. k # 1 => k \in 2..29
    OBVIOUS
  <2> QED BY ONLY <1>4, <2>1, ReconfigurationSteps
<1>8. k >= 2 => txFctrl' = Settings[runtime]["TX_FCTRL"]
  <2>1. CASE k = 2
    <3>1. Head(todo) = "USR_SFD"
      BY <1>3, <2>1, ReconfigurationSteps
    <3> QED BY <1>1, <3>1 DEF Composed
  <2>2. CASE k >= 3
    <3>1. Head(todo) # "length"
      BY <1>3, <1>5, <1>7, <2>2
    <3> QED BY <1>1, <1>2, <2>2, <3>1 DEF Composed
  <2> QED BY <2>1, <2>2
<1>9. Provided' /\ Quiet'
  <2>1. CASE k = 1
    <3>1. chip' = Written("idle")
      BY <1>1, <1>3, <2>1, ReconfigurationSteps
    <3> QED BY <1>1, <1>5, <3>1, WritesControl
         DEF Only, Quiet, Provided, Loaded
  <2>2. CASE k # 1
    <3>1. Only(chip', Reconfiguration[k])
      BY <1>1, <1>3, <1>7, <2>2, WritesRegister
    <3> QED BY <1>1, <1>2, <1>5, <1>7, <2>2, <3>1
         DEF Only, Quiet, Provided, Loaded
  <2> QED BY <2>1, <2>2
<1>10. ASSUME NEW j \in 1..k, Reconfiguration[j] \in Registers
       PROVE  chip'[Reconfiguration[j]]
                = Settings[runtime][Reconfiguration[j]]
  <2> DEFINE r == Reconfiguration[k]
             x == Reconfiguration[j]
  <2>1. k # 1
    BY <1>5, <1>10, ReconfigurationSteps
  <2>2. /\ Only(chip', r)
        /\ chip'[r] = IF r = "TX_FCTRL" THEN txFctrl ELSE Settings[runtime][r]
    BY <1>1, <1>3, <1>7, <2>1, WritesRegister
  <2>3. r = "TX_FCTRL" => txFctrl = Settings[runtime]["TX_FCTRL"]
    <3>1. r = "TX_FCTRL" => k # 2
      BY ReconfigurationSteps
    <3> QED BY <1>2, <2>1, <3>1
  <2>4. x \in Names /\ (x # r => j \in 1..(k - 1))
    BY <1>5, <1>10
  <2>5. x # r => chip[x] = Settings[runtime][x]
    BY <1>2, <1>10, <2>4
  <2> HIDE DEF r, x
  <2>6. chip'[x] = Settings[runtime][x]
    BY <2>2, <2>3, <2>4, <2>5 DEF Only
  <2> QED BY <2>6 DEF x
<1>11. TypeOK' /\ OneConfiguration' /\ LengthSurvives'
  BY AccessTyped DEF Sound
<1>12. client # "stopped"
  BY <1>1 DEF SetupInv, None
<1>13. k + 1 >= 10 => Tunable(runtime)
  BY <1>2, <1>4
<1>14. CASE k # 29
  <2>1. k + 1 \in 1..29 /\ k + 1 >= 2
    BY <1>14
  <2>2. Remaining(Reconfiguration, k + 1) # <<>>
    BY <2>1, CallsWalk DEF Walks
  <2>3. /\ todo' = Remaining(Reconfiguration, k + 1) /\ call' = call
        /\ client' = client
    BY ONLY <1>1, <1>3, <2>2, GoesOn
  <2>4. Reconfiguring'
    <3>1. \A j \in 1..((k + 1) - 1) : j \in 1..k
      OBVIOUS
    <3>2. k + 1 >= 3 => k >= 2
      OBVIOUS
    <3> QED BY <1>1, <1>8, <1>9, <1>10, <1>13, <2>1, <2>3, <3>1, <3>2
         DEF Reconfiguring
  <2> QED BY <1>1, <1>9, <1>11, <1>12, <2>3, <2>4 DEF SetupInv, Progress
<1>15. CASE k = 29
  <2>1. Tail(todo) = <<>>
    <3>1. k + 1 = 29 + 1
      BY <1>15
    <3> QED BY <1>3, <3>1, CallsWalk DEF Walks
  <2>2. /\ todo' = <<>> /\ call' = None /\ client' = "ready"
    <3>1. Returns(<<>>)
      BY ONLY <1>1, <2>1
    <3>2. call # "start"
      BY <1>1
    <3> QED BY ONLY <1>1, <3>1, <3>2, Finishes
  <2>3. \A r \in Registers : chip'[r] = Settings[runtime][r]
    <3>1. \A r \in Registers : \E j \in 1..k : Reconfiguration[j] = r
      BY ONLY <1>15, ReconfigurationSteps
    <3> QED BY <1>10, <3>1
  <2>4. "TX_FCTRL" \in Registers
    BY NamesApart DEF Registers
  <2>5. SetUpFor(runtime)'
    BY <1>1, <1>9, <1>13, <1>15, <2>3, <2>4
       DEF SetUpFor, Registers, Provided, Loaded
  <2>6. Ready'
    BY <1>1, <1>8, <1>15, <2>5 DEF Ready, Alike
  <2> QED BY <1>9, <1>11, <2>2, <2>6 DEF SetupInv, Progress, Waiting
<1> QED BY <1>14, <1>15

\* The length of a frame is the only field of TX_FCTRL before its second.
LEMMA SameTail ==
    ASSUME NEW a, NEW b, NEW x, NEW y, NEW z
    PROVE  Tail(<<a, x, y, z>>) = Tail(<<b, x, y, z>>)
<1> DEFINE S == {a, b, x, y, z}
           f == <<a, x, y, z>>
           g == <<b, x, y, z>>
<1>1. /\ Len(f) = 4 /\ f[2] = x /\ f[3] = y /\ f[4] = z
      /\ Len(g) = 4 /\ g[2] = x /\ g[3] = y /\ g[4] = z
  OBVIOUS
<1>2. f \in Seq(S) /\ g \in Seq(S)
  <2>1. \A T : a \in T /\ x \in T /\ y \in T /\ z \in T => <<a, x, y, z>> \in Seq(T)
    OBVIOUS
  <2>2. \A T : b \in T /\ x \in T /\ y \in T /\ z \in T => <<b, x, y, z>> \in Seq(T)
    OBVIOUS
  <2>3. {a, b, x, y, z} \subseteq S
    OBVIOUS
  <2> HIDE DEF S
  <2> QED BY <2>1, <2>2, <2>3
<1> HIDE DEF S, f, g
<1>3. f # <<>> /\ g # <<>>
  BY <1>1, <1>2
<1>4. /\ Tail(f) \in Seq(S) /\ Len(Tail(f)) = 3
      /\ Tail(g) \in Seq(S) /\ Len(Tail(g)) = 3
      /\ \A i \in 1..3 : Tail(f)[i] = f[i + 1] /\ Tail(g)[i] = g[i + 1]
  <2>1. /\ Tail(f) \in Seq(S) /\ Len(Tail(f)) = Len(f) - 1
        /\ \A i \in 1..Len(Tail(f)) : Tail(f)[i] = f[i + 1]
    BY ONLY <1>2, <1>3, HeadTailProperties
  <2>2. /\ Tail(g) \in Seq(S) /\ Len(Tail(g)) = Len(g) - 1
        /\ \A i \in 1..Len(Tail(g)) : Tail(g)[i] = g[i + 1]
    BY ONLY <1>2, <1>3, HeadTailProperties
  <2>3. 4 - 1 = 3
    OBVIOUS
  <2> QED BY ONLY <1>1, <2>1, <2>2, <2>3
<1>5. \A i \in 1..3 : f[i + 1] = g[i + 1]
  <2>1. \A i \in 1..3 : i + 1 = 2 \/ i + 1 = 3 \/ i + 1 = 4
    OBVIOUS
  <2> QED BY ONLY <1>1, <2>1
<1>6. Tail(f) = Tail(g)
  <2>1. \A i \in 1..Len(Tail(f)) : Tail(f)[i] = Tail(g)[i]
    BY ONLY <1>4, <1>5
  <2> QED BY ONLY <1>4, <2>1, SeqEqual
<1> QED BY <1>6 DEF f, g

\* A call that uses the radio leaves it ready while it touches none of its
\* settings.
LEMMA StillReady ==
    ASSUME Ready, Unsettled, runtime' = runtime, Alike(txFctrl', txFctrl)
    PROVE  Ready'
<1>1. runtime \in Configs /\ SetUpFor(runtime)
  BY DEF Ready
<1>2. SetUpFor(runtime)'
  <2>1. "TX_FCTRL" \in Registers
    BY NamesApart DEF Registers
  <2> QED BY <1>1, <2>1 DEF SetUpFor, Unsettled, Registers
<1>3. Alike(txFctrl', Settings[runtime]["TX_FCTRL"])
  BY DEF Ready, Alike
<1> QED BY <1>1, <1>2, <1>3 DEF Ready

\* The same for the access that puts a length into TX_FCTRL.
LEMMA LengthReady ==
    ASSUME Ready, DOMAIN chip = Names, runtime' = runtime,
           Alike(txFctrl', txFctrl), chip' = Written("length")
    PROVE  Ready'
<1> DEFINE n == FrameLength(runtime, payload)
           t == Settings[runtime]["TX_FCTRL"]
<1>1. runtime \in Configs /\ SetUpFor(runtime) /\ Alike(txFctrl, t)
  BY DEF Ready
<1>2. t = <<0, runtime.rate, runtime.prf, runtime.length>>
  BY <1>1, Lengths
<1>3. WithLength(txFctrl, n) = <<n, t[2], t[3], t[4]>>
  BY <1>1 DEF WithLength, Alike
<1>4. Tail(WithLength(txFctrl, n)) = Tail(t)
  <2>1. WithLength(txFctrl, n) = <<n, runtime.rate, runtime.prf, runtime.length>>
    BY <1>2, <1>3
  <2>2. Tail(<<n, runtime.rate, runtime.prf, runtime.length>>)
           = Tail(<<0, runtime.rate, runtime.prf, runtime.length>>)
    BY ONLY SameTail
  <2> QED BY ONLY <1>2, <2>1, <2>2
<1>5. /\ Only(chip', "TX_FCTRL")
      /\ chip'["TX_FCTRL"] = WithLength(txFctrl, n)
  BY WritesFrame
<1>6. \A r \in (Registers \ {"TX_FCTRL"}) \cup {"PMSC", "LDE"} : chip'[r] = chip[r]
  <2>1. \A r \in (Registers \ {"TX_FCTRL"}) \cup {"PMSC", "LDE"} :
           r \in Names \ {"TX_FCTRL"}
    BY NamesApart DEF Registers
  <2> QED BY <1>5, <2>1 DEF Only
<1> HIDE DEF n, t
<1>7. SetUpFor(runtime)'
  <2>1. Tail(chip'["TX_FCTRL"]) = Tail(t)
    BY ONLY <1>4, <1>5
  <2> QED BY <1>1, <1>6, <2>1 DEF SetUpFor, Registers, t
<1>8. Alike(txFctrl', t)
  BY <1>1 DEF Alike
<1> QED BY <1>1, <1>7, <1>8 DEF Ready, t

\* What a call that uses the radio has to show for an access that succeeds.
LEMMA UsingKeeps ==
    ASSUME SetupInv, AccessSucceeds, call # "init",
           Usable', Ready', Progress'
    PROVE  SetupInv'
<1>1. TypeOK' /\ OneConfiguration' /\ LengthSurvives' /\ Provided'
  BY AccessTyped DEF Sound
<1>2. client' # "stopped"
  BY DEF Usable
<1> QED BY <1>1, <1>2 DEF SetupInv

\* start_receive()
LEMMA ReceivingKeeps ==
    ASSUME SetupInv, Receiving, AccessSucceeds
    PROVE  SetupInv'
<1>1. /\ chip' = Written(Head(todo)) /\ Returns(Tail(todo))
      /\ runtime' = runtime /\ txFctrl' = Composed(Head(todo))
      /\ todo # <<>> /\ call = "start" /\ Usable /\ Ready
      /\ DOMAIN chip = Names
  BY DEF AccessSucceeds, Receiving, SetupInv, TypeOK
<1>2. PICK k \in 1..2 : todo = Remaining(Reception, k)
  BY DEF Receiving
<1>3. /\ Head(todo) = Reception[k]
      /\ Tail(todo) = Remaining(Reception, k + 1)
  BY <1>2, CallsWalk DEF Walks
<1>4. Head(todo) \in {"idle", "rx"}
  BY <1>3, OtherSteps
<1>5. Unsettled
  <2>1. Only(chip', "SYS_CTRL")
    BY <1>1, <1>4, WritesControl
  <2> QED BY <2>1, OnlyOther, NamesApart
<1>6. Ready'
  BY <1>1, <1>5, Composes, StillReady
<1>7. CASE k = 1
  <2>1. Remaining(Reception, 2) # <<>> /\ Tail(todo) = Remaining(Reception, 2)
    <3>1. 1 + 1 = 2 /\ 2 \in 1..2
      OBVIOUS
    <3> QED BY <1>3, <1>7, <3>1, CallsWalk DEF Walks
  <2>2. /\ todo' = Remaining(Reception, 2) /\ call' = call
        /\ client' = client
    BY ONLY <1>1, <2>1, GoesOn
  <2>3. Usable' /\ Receiving'
    <3>1. 2 \in 1..2
      OBVIOUS
    <3> QED BY <1>1, <2>2, <3>1 DEF Usable, Receiving
  <2> QED BY <1>1, <1>6, <2>3, UsingKeeps DEF Progress
<1>8. CASE k = 2
  <2>1. Tail(todo) = <<>>
    <3>1. k + 1 = 2 + 1
      BY <1>8
    <3> QED BY <1>3, <3>1, CallsWalk DEF Walks
  <2>2. todo' = <<>> /\ call' = None /\ client' = "running"
    <3>1. Returns(<<>>)
      BY ONLY <1>1, <2>1
    <3> QED BY ONLY <1>1, <3>1, Finishes
  <2>3. Usable' /\ Waiting'
    BY <2>2 DEF Usable, Waiting
  <2> QED BY <1>1, <1>6, <2>3, UsingKeeps DEF Progress
<1> QED BY <1>7, <1>8

\* enable_leds()
LEMMA LightingKeeps ==
    ASSUME SetupInv, Lighting, AccessSucceeds
    PROVE  SetupInv'
<1>1. /\ chip' = Written("leds") /\ Returns(<<>>)
      /\ runtime' = runtime /\ txFctrl' = Composed(Head(todo))
      /\ todo # <<>> /\ call = "leds" /\ Usable /\ Ready
      /\ DOMAIN chip = Names
  BY OtherSteps DEF AccessSucceeds, Lighting, SetupInv, TypeOK
<1>2. Unsettled
  <2>1. Only(chip', "LEDS")
    BY <1>1, WritesFrame
  <2> QED BY <2>1, OnlyOther, NamesApart
<1>3. Ready'
  BY <1>1, <1>2, Composes, StillReady
<1>4. todo' = <<>> /\ call' = None /\ client' = client
  BY ONLY <1>1, Finishes
<1>5. Usable' /\ Waiting'
  BY <1>1, <1>4 DEF Usable, Waiting
<1> QED BY <1>1, <1>3, <1>5, UsingKeeps DEF Progress

\* transmit()
LEMMA TransmittingKeeps ==
    ASSUME SetupInv, Transmitting, AccessSucceeds
    PROVE  SetupInv'
<1> DEFINE n == FrameLength(runtime, payload)
<1>1. /\ chip' = Written(Head(todo)) /\ Returns(Tail(todo))
      /\ runtime' = runtime /\ txFctrl' = Composed(Head(todo))
      /\ todo # <<>> /\ call = "transmit" /\ Usable /\ Ready
      /\ DOMAIN chip = Names /\ payload \in Payloads /\ n <= MaxFrame
  BY DEF AccessSucceeds, Transmitting, SetupInv, TypeOK
<1>2. PICK k \in 1..4 :
          /\ todo = Remaining(Transmission, k)
          /\ k >= 2 => Quiet
          /\ k >= 3 => chip["TX_BUFFER"] = <<payload>>
          /\ k >= 4 => chip["TX_FCTRL"][1] = n
  BY DEF Transmitting
<1>3. /\ Head(todo) = Transmission[k]
      /\ Tail(todo) = Remaining(Transmission, k + 1)
  BY <1>2, CallsWalk DEF Walks
<1>4. /\ {"SYS_CTRL", "TX_BUFFER"} \subseteq Names \ {"TX_FCTRL"}
      /\ {"SYS_CTRL", "TX_BUFFER"} \subseteq OtherNames \ {"PMSC", "LDE"}
  BY NamesApart DEF Others
<1>5. Alike(txFctrl', txFctrl)
  BY <1>1, Composes
<1>6. Ready'
  <2>1. CASE k \in {1, 2, 4}
    <3>1. Head(todo) \in {"idle", "TX_BUFFER", "tx"}
      BY <1>3, <2>1, OtherSteps
    <3>2. \E r \in {"SYS_CTRL", "TX_BUFFER"} : Only(chip', r)
      BY <1>1, <3>1, WritesControl, WritesFrame
    <3>3. Unsettled
      BY <1>4, <3>2, OnlyOther
    <3> QED BY <1>1, <1>5, <3>3, StillReady
  <2>2. CASE k = 3
    <3>1. chip' = Written("length")
      BY <1>1, <1>3, <2>2, OtherSteps
    <3> QED BY <1>1, <1>5, <3>1, LengthReady
  <2> QED BY <2>1, <2>2
<1>7. CASE k # 4
  <2>1. k + 1 \in 1..4 /\ k \in 1..3
    BY <1>7
  <2>2. Remaining(Transmission, k + 1) # <<>>
    BY <2>1, CallsWalk DEF Walks
  <2>3. /\ todo' = Remaining(Transmission, k + 1) /\ call' = call
        /\ client' = client /\ payload' = payload
    BY ONLY <1>1, <1>3, <2>2, GoesOn
  <2>4. Quiet'
    <3>1. CASE k = 1
      BY <1>1, <1>3, <3>1, OtherSteps, WritesControl DEF Quiet
    <3>2. CASE k \in 2..3
      <4>1. Quiet /\ Head(todo) \in {"TX_BUFFER", "length"}
        BY <1>2, <1>3, <3>2, OtherSteps
      <4>2. \E r \in {"TX_BUFFER", "TX_FCTRL"} : Only(chip', r)
        BY <1>1, <4>1, WritesFrame
      <4> QED BY <1>4, <4>1, <4>2 DEF Only, Quiet
    <3> QED BY <2>1, <3>1, <3>2
  <2>5. k + 1 >= 3 => chip'["TX_BUFFER"] = <<payload>>
    <3>1. CASE k = 2
      BY <1>1, <1>3, <3>1, OtherSteps, WritesFrame
    <3>2. CASE k = 3
      <4>1. Only(chip', "TX_FCTRL")
        BY <1>1, <1>3, <3>2, OtherSteps, WritesFrame
      <4> QED BY <1>2, <1>4, <3>2, <4>1 DEF Only
    <3> QED BY <2>1, <3>1, <3>2
  <2>6. k + 1 >= 4 => chip'["TX_FCTRL"][1] = n
    <3>1. CASE k = 3
      <4>1. chip'["TX_FCTRL"] = WithLength(txFctrl, n)
        BY <1>1, <1>3, <3>1, OtherSteps, WritesFrame
      <4> QED BY <4>1, Lengths
    <3> QED BY <2>1, <3>1
  <2>7. Usable' /\ Transmitting'
    BY <1>1, <2>1, <2>3, <2>4, <2>5, <2>6 DEF Usable, Transmitting
  <2> QED BY <1>1, <1>6, <2>7, UsingKeeps DEF Progress
<1>8. CASE k = 4
  <2>1. Tail(todo) = <<>>
    <3>1. k + 1 = 4 + 1
      BY <1>8
    <3> QED BY <1>3, <3>1, CallsWalk DEF Walks
  <2>2. todo' = <<>> /\ call' = None /\ client' = client
    <3>1. Returns(<<>>)
      BY ONLY <1>1, <2>1
    <3>2. call # "start" /\ call \notin {"init", "reconfigure"}
      BY <1>1
    <3> QED BY ONLY <1>1, <3>1, <3>2, Finishes
  <2>3. Usable' /\ Waiting'
    BY <1>1, <2>2 DEF Usable, Waiting
  <2> QED BY <1>1, <1>6, <2>3, UsingKeeps DEF Progress
<1> QED BY <1>7, <1>8

-----------------------------------------------------------------------------
(* Every step keeps the invariant *)

\* An access that succeeds.
LEMMA AccessKeeps == ASSUME SetupInv, AccessSucceeds PROVE SetupInv'
<1>1. todo # <<>>
  BY DEF AccessSucceeds
<1> QED BY <1>1, InitialisingKeeps, ReconfiguringKeeps, ReceivingKeeps,
           LightingKeeps, TransmittingKeeps
        DEF SetupInv, Progress, Waiting

\* An access that fails, before or after it has had its effect.
LEMMA AccessFailsKeeps == ASSUME SetupInv, AccessFails PROVE SetupInv'
<1>1. /\ todo # <<>> /\ IsAccess(Head(todo)) /\ runtime' = runtime
      /\ txFctrl' = Composed(Head(todo)) /\ Fails
      /\ chip' \in {chip, Written(Head(todo))}
  BY DEF AccessFails
<1>2. Sound
  BY <1>1, AccessSound
<1>3. Len(txFctrl') = 4 /\ txFctrl'[1] \in 0..MaxFrame
  BY <1>1, Composes
<1>4. call # None
  BY <1>1 DEF SetupInv, TypeOK
<1> QED BY <1>1, <1>2, <1>3, <1>4, FailsKeeps

\* select_tuning_values() and the end of init() are no accesses.
LEMMA WhoseStep ==
    ASSUME SetupInv, todo # <<>>
    PROVE  /\ Head(todo) = "configure" => Initialising
           /\ Head(todo) = "select_tuning_values" => Reconfiguring
<1>1. "configure" \notin Registers
  BY NamesApart DEF Others
<1> QED BY <1>1, NextAccess DEF SetupInv, Progress, Waiting

\* A step that leaves the chip and the driver as they are.
LEMMA AtRest ==
    ASSUME SetupInv, UNCHANGED <<runtime, txFctrl, chip>>
    PROVE  /\ OneConfiguration' /\ LengthSurvives'
           /\ Ready => Ready'
           /\ Provided => Provided'
<1>1. OneConfiguration'
  BY DEF SetupInv, OneConfiguration, Active, SetUpFor
<1>2. LengthSurvives'
  BY DEF SetupInv, LengthSurvives, Active
<1>3. Ready => Ready'
  BY DEF Ready, SetUpFor, Alike
<1>4. Provided => Provided'
  BY DEF Provided, Loaded
<1> QED BY <1>1, <1>2, <1>3, <1>4

\* The beginning of a call that uses the radio.
LEMMA BeginKeeps ==
    ASSUME SetupInv, Usable, NEW name \in {"leds", "start", "transmit"},
           NEW steps, steps # <<>>, Begins(name, steps), Progress',
           payload' \in Payloads \cup {0},
           UNCHANGED <<runtime, txFctrl, chip, client, recovering, failures>>
    PROVE  SetupInv'
<1>1. /\ call = None /\ call' = name /\ todo' = steps
      /\ call \notin {"init", "reconfigure"} /\ call' \notin {"init", "reconfigure"}
      /\ client' \notin {"down", "stopped"} /\ client = client'
  BY DEF Begins, None, Usable
<1>2. Ready /\ Provided
  BY <1>1 DEF SetupInv, Usable
<1>3. TypeOK'
  <2>1. TypeOK
    BY DEF SetupInv
  <2>2. /\ call' \in {None, "init", "reconfigure", "leds", "start", "transmit"}
        /\ call' # None /\ todo' # <<>>
    BY <1>1 DEF None
  <2> QED BY <2>1, <2>2 DEF TypeOK
<1> QED BY <1>1, <1>2, <1>3, AtRest DEF SetupInv

\* A call begins with the first of its accesses.
LEMMA Begun ==
    /\ Initialisation # <<>> /\ Reconfiguration # <<>> /\ Reception # <<>>
    /\ Transmission # <<>> /\ <<"leds">> # <<>>
    /\ Initialisation = Remaining(Initialisation, 1)
    /\ Reconfiguration = Remaining(Reconfiguration, 1)
    /\ Reception = Remaining(Reception, 1)
    /\ Transmission = Remaining(Transmission, 1)
<1>1. \A steps : \A n \in {2, 4, 7, 29} :
         Walks(steps, n) => steps = Remaining(steps, 1) /\ steps # <<>>
  <2>1. \A n \in {2, 4, 7, 29} : 1 \in 1..n
    OBVIOUS
  <2> QED BY <2>1 DEF Walks
<1>2. <<"leds">> # <<>>
  OBVIOUS
<1> QED BY ONLY <1>1, <1>2, CallsWalk

\* The calls.
LEMMA CallsKeep ==
    ASSUME SetupInv,
           \/ CallInit \/ CallEnableLeds \/ CallStartReceive
           \/ \E c \in Configs : CallReconfigure(c)
           \/ \E n \in Payloads : CallTransmit(n)
    PROVE  SetupInv'
<1>1. CASE CallInit
  <2>1. /\ call' = "init" /\ todo' = Initialisation /\ client' # "stopped"
        /\ UNCHANGED <<runtime, txFctrl, chip, payload, client, failures>>
        /\ recovering' = TRUE
    BY <1>1 DEF CallInit, Begins
  <2>2. Initialising'
    <3>1. 1 \in 1..7 /\ ~ (1 >= 2) /\ ~ (1 >= 6) /\ ~ (1 >= 7)
      OBVIOUS
    <3> QED BY <2>1, <3>1, Begun DEF Initialising
  <2>3. TypeOK'
    BY <2>1, Begun DEF SetupInv, TypeOK, None
  <2> QED BY <2>1, <2>2, <2>3, AtRest DEF SetupInv, Progress
<1>2. CASE CallEnableLeds
  <2>1. Lighting'
    BY <1>2 DEF CallEnableLeds, Begins, Lighting, Usable
  <2>2. payload' \in Payloads \cup {0}
    BY <1>2 DEF CallEnableLeds, SetupInv, TypeOK
  <2> QED BY <1>2, <2>1, <2>2, Begun, BeginKeeps DEF CallEnableLeds, Progress
<1>3. CASE CallStartReceive
  <2>1. Receiving'
    <3>1. 1 \in 1..2
      OBVIOUS
    <3> QED BY <1>3, <3>1, Begun DEF CallStartReceive, Begins, Receiving, Usable
  <2>2. payload' \in Payloads \cup {0}
    BY <1>3 DEF CallStartReceive, SetupInv, TypeOK
  <2> QED BY <1>3, <2>1, <2>2, Begun, BeginKeeps DEF CallStartReceive, Progress
<1>4. ASSUME NEW n \in Payloads, CallTransmit(n) PROVE SetupInv'
  <2>1. Transmitting'
    <3>1. 1 \in 1..4 /\ ~ (1 >= 2) /\ ~ (1 >= 3) /\ ~ (1 >= 4)
      OBVIOUS
    <3> QED BY <1>4, <3>1, Begun
         DEF CallTransmit, Begins, Transmitting, Usable
  <2>2. payload' \in Payloads \cup {0}
    BY <1>4 DEF CallTransmit
  <2> QED BY <1>4, <2>1, <2>2, Begun, BeginKeeps DEF CallTransmit, Progress
<1>5. ASSUME NEW c \in Configs, CallReconfigure(c) PROVE SetupInv'
  <2>1. /\ call = None /\ call' = "reconfigure" /\ todo' = Reconfiguration
        /\ client' = client /\ client \notin {"down", "stopped"}
        /\ runtime' = c /\ Validates(c)
        /\ UNCHANGED <<txFctrl, chip, payload, recovering, failures>>
    BY <1>5 DEF CallReconfigure, Begins, Stores
  <2>2. Provided'
    BY <2>1 DEF SetupInv, None, Provided, Loaded
  <2>3. Reconfiguring'
    <3>1. /\ 1 \in 1..29 /\ ~ (1 >= 2) /\ ~ (1 >= 3) /\ ~ (1 >= 10)
          /\ 1..(1 - 1) = {}
      OBVIOUS
    <3> QED BY <2>1, <2>2, <3>1, Begun DEF Reconfiguring
  <2>4. OneConfiguration' /\ LengthSurvives'
    BY <2>1 DEF SetupInv, OneConfiguration, LengthSurvives, Active, SetUpFor
  <2>5. TypeOK'
    BY <2>1, Begun DEF SetupInv, TypeOK, None
  <2> QED BY <2>1, <2>2, <2>3, <2>4, <2>5 DEF SetupInv, Progress
<1> QED BY <1>1, <1>2, <1>3, <1>4, <1>5

\* A call that is refused before it has changed anything, or that is not made.
LEMMA RefusalsKeep ==
    ASSUME SetupInv,
           \/ \E c \in Configs : RefuseCode(c)
           \/ \E n \in Payloads : RefuseLength(n)
           \/ GiveUp \/ UNCHANGED vars
    PROVE  SetupInv'
<1>1. UNCHANGED <<runtime, txFctrl, chip, call, todo, payload, recovering, failures>>
  BY DEF RefuseCode, Stores, RefuseLength, GiveUp, vars
<1>2. \/ client' = client
      \/ call = None /\ client' = "failed" /\ Usable
      \/ call = None /\ client' = "stopped"
  BY DEF RefuseCode, RefuseLength, GiveUp, vars
<1>3. TypeOK'
  BY <1>1, <1>2 DEF SetupInv, TypeOK
<1>4. CASE client' = client
  <2>1. Progress'
    BY <1>1, <1>4 DEF SetupInv, Progress, Initialising, Reconfiguring, Receiving,
       Lighting, Transmitting, Waiting, Quiet, Loaded, Provided, Usable
  <2> QED BY <1>1, <1>3, <1>4, <2>1, AtRest DEF SetupInv, Usable
<1>5. CASE call = None /\ (client' = "stopped" \/ (client' = "failed" /\ Usable))
  <2>1. Progress' /\ ~ Usable'
    BY <1>1, <1>5 DEF SetupInv, TypeOK, Progress, Waiting, Usable
  <2>2. client' # "stopped" => Provided'
    BY <1>1, <1>5 DEF SetupInv, None, Usable, Provided, Loaded
  <2>3. OneConfiguration' /\ LengthSurvives' /\ call' = None
    BY <1>1, <1>5, AtRest
  <2> QED BY <1>3, <2>1, <2>2, <2>3 DEF SetupInv
<1> QED BY <1>2, <1>4, <1>5

\* The end of init(): reconfigure(), or the error that its validation returns.
LEMMA ConfigureKeeps ==
    ASSUME SetupInv, NEW c \in Configs, InitConfigures(c) \/ InitRefusesCode(c)
    PROVE  SetupInv'
<1>1. todo # <<>> /\ Head(todo) = "configure"
  BY DEF InitConfigures, InitRefusesCode
<1>2. Initialising /\ call = "init" /\ TypeOK
  BY <1>1, WhoseStep DEF Initialising, SetupInv
<1>3. CASE InitRefusesCode(c)
  <2>1. UNCHANGED <<runtime, txFctrl, chip>> /\ Fails
    BY <1>3 DEF InitRefusesCode, Stores
  <2>2. Sound
    BY <1>2, <2>1, UnchangedSound
  <2>3. call # None /\ Len(txFctrl') = 4 /\ txFctrl'[1] \in 0..MaxFrame
    BY <1>2, <2>1 DEF None, TypeOK
  <2> QED BY <2>1, <2>2, <2>3, FailsKeeps
<1>4. CASE InitConfigures(c)
  <2>1. /\ runtime' = c /\ Validates(c) /\ todo' = Reconfiguration
        /\ UNCHANGED <<txFctrl, chip, call, payload, client, recovering, failures>>
    BY <1>4 DEF InitConfigures, Stores
  <2>2. Provided
    <3>1. PICK k \in 1..7 : todo = Remaining(Initialisation, k) /\ (k >= 7 => Provided)
      BY <1>2 DEF Initialising
    <3>2. Head(todo) = Initialisation[k]
      BY <3>1, CallsWalk DEF Walks
    <3>3. k = 7
      BY <1>1, <3>2, OtherSteps
    <3> QED BY <3>1, <3>3
  <2>3. Provided'
    BY <2>1, <2>2 DEF Provided, Loaded
  <2>4. Reconfiguring'
    <3>1. /\ 1 \in 1..29 /\ ~ (1 >= 2) /\ ~ (1 >= 3) /\ ~ (1 >= 10)
          /\ 1..(1 - 1) = {}
      OBVIOUS
    <3> QED BY <1>2, <2>1, <2>3, <3>1, Begun DEF Reconfiguring
  <2>5. OneConfiguration' /\ LengthSurvives'
    BY <2>1 DEF SetupInv, OneConfiguration, LengthSurvives, Active, SetUpFor
  <2>6. TypeOK'
    BY <1>2, <2>1, Begun DEF TypeOK, None
  <2>7. client' # "stopped"
    BY <1>2, <2>1 DEF SetupInv, None
  <2> QED BY <1>2, <2>1, <2>3, <2>4, <2>5, <2>6, <2>7 DEF SetupInv, Progress
<1> QED BY <1>3, <1>4

\* select_tuning_values(): the next access, or UnsupportedPreambleLength.
LEMMA TuningKeeps ==
    ASSUME SetupInv, TuningSelected \/ TuningRejected
    PROVE  SetupInv'
<1>1. todo # <<>> /\ Head(todo) = "select_tuning_values"
  BY DEF TuningSelected, TuningRejected
<1>2. Reconfiguring /\ Provided /\ TypeOK /\ call \in {"init", "reconfigure"}
  BY <1>1, WhoseStep DEF Reconfiguring, SetupInv
<1>3. UNCHANGED <<runtime, txFctrl, chip>>
  BY DEF TuningSelected, TuningRejected
<1>4. CASE TuningRejected
  <2>1. Sound
    BY <1>2, <1>3, UnchangedSound
  <2>2. call # None /\ Len(txFctrl') = 4 /\ txFctrl'[1] \in 0..MaxFrame
    BY <1>2, <1>3 DEF None, TypeOK
  <2> QED BY <1>3, <1>4, <2>1, <2>2, FailsKeeps DEF TuningRejected
<1>5. CASE TuningSelected
  <2>1. /\ todo' = Tail(todo) /\ Tunable(runtime)
        /\ UNCHANGED <<call, payload, client, recovering, failures>>
    BY <1>5 DEF TuningSelected
  <2>2. PICK k \in 1..29 :
          /\ todo = Remaining(Reconfiguration, k)
          /\ k >= 2 => Quiet
          /\ k >= 3 => txFctrl = Settings[runtime]["TX_FCTRL"]
          /\ \A j \in 1..(k - 1) : Reconfiguration[j] \in Registers =>
                chip[Reconfiguration[j]] = Settings[runtime][Reconfiguration[j]]
    BY <1>2 DEF Reconfiguring
  <2>3. /\ Reconfiguration[k] = "select_tuning_values"
        /\ todo' = Remaining(Reconfiguration, k + 1)
    BY <1>1, <2>1, <2>2, CallsWalk DEF Walks
  <2>4. k = 9
    <3>1. k = 1 \/ k \in 2..29
      OBVIOUS
    <3>2. "select_tuning_values" \notin Registers
      BY NamesApart DEF Others
    <3> QED BY <2>3, <3>1, <3>2, ReconfigurationSteps
  <2>5. todo' = Remaining(Reconfiguration, 10) /\ todo' # <<>>
    <3>1. k + 1 = 10 /\ 10 \in 1..29
      BY <2>4
    <3> QED BY <2>3, <3>1, CallsWalk DEF Walks
  <2>6. \A j \in 1..(10 - 1) : Reconfiguration[j] \in Registers =>
           chip[Reconfiguration[j]] = Settings[runtime][Reconfiguration[j]]
    <3>1. \A j \in 1..(10 - 1) : j = 9 \/ j \in 1..(9 - 1)
      OBVIOUS
    <3>2. "select_tuning_values" \notin Registers
      BY NamesApart DEF Others
    <3> QED BY <2>2, <2>3, <2>4, <3>1, <3>2
  <2>7. Quiet /\ txFctrl = Settings[runtime]["TX_FCTRL"]
    BY <2>2, <2>4
  <2>8. runtime \in Configs /\ Validates(runtime)
    BY <1>2 DEF Reconfiguring
  <2>9. Reconfiguring'
    <3>1. 10 \in 1..29
      OBVIOUS
    <3> QED BY <1>2, <1>3, <2>1, <2>5, <2>6, <2>7, <2>8, <3>1
         DEF Reconfiguring, Quiet, Provided, Loaded
  <2>10. TypeOK'
    BY <1>2, <1>3, <2>1, <2>5 DEF TypeOK, None
  <2>11. client' # "stopped" /\ Provided'
    BY <1>2, <1>3, <2>1, AtRest DEF SetupInv, None
  <2> QED BY <1>2, <1>3, <2>1, <2>9, <2>10, <2>11, AtRest DEF SetupInv, Progress
<1> QED BY <1>4, <1>5

\* A power-on: nothing is configured, and nothing runs.
LEMMA InitSetup == Init => SetupInv
<1> SUFFICES ASSUME Init PROVE SetupInv
  OBVIOUS
<1>1. chip = PowerOn /\ DOMAIN PowerOn = Names
  BY DEF Init, PowerOn
<1>2. Quiet
  <2>1. "SYS_CTRL" \in Names
    BY NamesApart
  <2> QED BY <1>1, <2>1 DEF Quiet, PowerOn
<1>3. OneConfiguration /\ LengthSurvives
  BY <1>2 DEF Quiet, OneConfiguration, LengthSurvives, Active
<1>4. TypeOK
  <2>1. Len(<<0, 110, 0, 0>>) = 4 /\ <<0, 110, 0, 0>>[1] = 0
    OBVIOUS
  <2>2. 0 \in 0..MaxFrame /\ 0 \in 0..MaxFailures
    BY SetupAssumption DEF MaxFrame
  <2> QED BY <1>1, <2>1, <2>2 DEF Init, TypeOK
<1>5. Waiting /\ ~ Usable /\ client = "down"
  BY DEF Init, Waiting, Usable
<1> QED BY <1>3, <1>4, <1>5 DEF SetupInv, Progress

\* Every step.
LEMMA NextSetup == SetupInv /\ [Next]_vars => SetupInv'
<1> SUFFICES ASSUME SetupInv, [Next]_vars PROVE SetupInv'
  OBVIOUS
<1>1. CASE CallInit \/ CallEnableLeds \/ CallStartReceive
  BY <1>1, CallsKeep
<1>2. ASSUME NEW c \in Configs,
             \/ CallReconfigure(c) \/ RefuseCode(c)
             \/ InitConfigures(c) \/ InitRefusesCode(c)
      PROVE  SetupInv'
  BY <1>2, CallsKeep, RefusalsKeep, ConfigureKeeps
<1>3. ASSUME NEW n \in Payloads, CallTransmit(n) \/ RefuseLength(n)
      PROVE  SetupInv'
  BY <1>3, CallsKeep, RefusalsKeep
<1>4. CASE AccessSucceeds \/ AccessFails
  BY <1>4, AccessKeeps, AccessFailsKeeps
<1>5. CASE TuningSelected \/ TuningRejected
  BY <1>5, TuningKeeps
<1>6. CASE GiveUp \/ UNCHANGED vars
  BY <1>6, RefusalsKeep
<1> QED BY <1>1, <1>2, <1>3, <1>4, <1>5, <1>6 DEF Next

\* The invariant of start-up and configuration.
LEMMA SetupInvariant == Spec => []SetupInv
<1> QED BY InitSetup, NextSetup, PTL DEF Spec

-----------------------------------------------------------------------------
(* What is on the air is on the air under a configuration *)

OnAir == Active => runtime \in Configs

\* Only start_receive() and transmit() start anything.
LEMMA StartsOnAir ==
    ASSUME SetupInv, todo # <<>>, IsAccess(Head(todo)),
           chip' \in {chip, Written(Head(todo))}
    PROVE  chip'["SYS_CTRL"] \in {chip["SYS_CTRL"], <<>>} \/ runtime \in Configs
<1>1. CASE Initialising
  <2>1. Head(todo) \in {"reset", "auto", "mask", "xti", "lde"}
    BY <1>1, NextAccess DEF IsAccess
  <2>2. DOMAIN chip = Names
    BY DEF SetupInv, TypeOK
  <2>3. "SYS_CTRL" \in Names
    BY NamesApart
  <2>4. Head(todo) # "reset" =>
           \E r \in {"SYS_MASK", "PMSC", "LDE"} : Only(Written(Head(todo)), r)
    BY <2>1, <2>2, WritesStart
  <2> QED BY <2>1, <2>2, <2>3, <2>4, WritesStart DEF Only
<1>2. CASE Reconfiguring
  BY <1>2 DEF Reconfiguring
<1>3. CASE Receiving \/ Lighting \/ Transmitting
  BY <1>3 DEF SetupInv, Receiving, Lighting, Transmitting, Ready
<1> QED BY <1>1, <1>2, <1>3 DEF SetupInv, Progress, Waiting

\* Every step.
LEMMA NextOnAir == SetupInv /\ OnAir /\ [Next]_vars => OnAir'
<1> SUFFICES ASSUME SetupInv, OnAir, [Next]_vars PROVE OnAir'
  OBVIOUS
<1>1. CASE AccessSucceeds \/ AccessFails
  <2>1. /\ todo # <<>> /\ IsAccess(Head(todo)) /\ runtime' = runtime
        /\ chip' \in {chip, Written(Head(todo))}
    BY <1>1 DEF AccessSucceeds, AccessFails
  <2> QED BY <2>1, StartsOnAir DEF OnAir, Active
<1>2. ASSUME NEW c \in Configs,
             \/ CallReconfigure(c) \/ RefuseCode(c)
             \/ InitConfigures(c) \/ InitRefusesCode(c)
      PROVE  OnAir'
  BY <1>2 DEF CallReconfigure, RefuseCode, InitConfigures, InitRefusesCode,
     Stores, OnAir, Active
<1>3. ASSUME NEW n \in Payloads, CallTransmit(n) \/ RefuseLength(n)
      PROVE  OnAir'
  BY <1>3 DEF CallTransmit, RefuseLength, OnAir, Active
<1>4. CASE \/ CallInit \/ CallEnableLeds \/ CallStartReceive
           \/ TuningSelected \/ TuningRejected \/ GiveUp \/ UNCHANGED vars
  BY <1>4 DEF CallInit, CallEnableLeds, CallStartReceive, TuningSelected,
     TuningRejected, GiveUp, vars, OnAir, Active
<1> QED BY <1>1, <1>2, <1>3, <1>4 DEF Next

-----------------------------------------------------------------------------
(* The correction of receive timestamps *)

\* A function on 0..17 that does not fall from one argument to the next does
\* not fall at all.
Steady(f) == /\ \A i \in 0..17 : f[i] \in Int
             /\ \A i \in 0..16 : f[i] <= f[i + 1]
Rises(f)  == \A i, j \in 0..17 : i <= j => f[i] <= f[j]

\* It is enough to look at neighbours: the distance doubles with each step.
LEMMA Rising == ASSUME NEW f, Steady(f) PROVE Rises(f)
<1>0. /\ \A i \in 0..17 : f[i] \in Int
      /\ \A i \in 0..16 : f[i] <= f[i + 1]
  BY DEF Steady
<1> DEFINE Within(d) == \A i, j \in 0..17 : i <= j /\ j <= i + d => f[i] <= f[j]
<1>1. Within(1)
  <2> SUFFICES ASSUME NEW i \in 0..17, NEW j \in 0..17, i <= j, j <= i + 1
               PROVE  f[i] <= f[j]
    OBVIOUS
  <2>1. j = i \/ (j = i + 1 /\ i \in 0..16)
    OBVIOUS
  <2> QED BY <1>0, <2>1
<1>2. ASSUME NEW d \in Nat, Within(d) PROVE Within(d + d)
  <2> SUFFICES ASSUME NEW i \in 0..17, NEW j \in 0..17, i <= j, j <= i + (d + d)
               PROVE  f[i] <= f[j]
    OBVIOUS
  <2>1. PICK m \in 0..17 : i <= m /\ m <= i + d /\ m <= j /\ j <= m + d
    <3>1. CASE j <= i + d
      BY <3>1
    <3>2. CASE ~ (j <= i + d)
      <4>1. i + d \in 0..17
        BY <3>2
      <4> QED BY <3>2, <4>1
    <3> QED BY <3>1, <3>2
  <2> QED BY <1>0, <1>2, <2>1
<1> HIDE DEF Within
<1>3. 1 \in Nat /\ 1 + 1 = 2 /\ 2 + 2 = 4 /\ 4 + 4 = 8 /\ 8 + 8 = 16 /\ 16 + 16 = 32
  OBVIOUS
<1>4. Within(2)
  BY <1>1, <1>2, <1>3
<1>5. Within(4)
  BY <1>2, <1>3, <1>4
<1>6. Within(8)
  BY <1>2, <1>3, <1>5
<1>7. Within(16)
  BY <1>2, <1>3, <1>6
<1>8. Within(32)
  BY <1>2, <1>3, <1>7
<1> QED BY <1>8 DEF Within, Rises

\* An entry of a table of biases, negative below the table's zero.
Entry(t, zero, i) == IF i < zero THEN - t[i + 1] ELSE t[i + 1]

\* The tables rise from end to end.
LEMMA TablesRise ==
    \A t \in {<<Bias500At16, 10>>, <<Bias500At64, 8>>,
              <<Bias900At16, 7>>, <<Bias900At64, 7>>} :
        /\ \A i \in 0..17 : Entry(t[1], t[2], i) \in Int
        /\ \A i \in 0..16 : Entry(t[1], t[2], i) <= Entry(t[1], t[2], i + 1)
<1>1. \A i \in 0..17 : \/ i = 17 \/ i = 0 \/ i = 1 \/ i = 2 \/ i = 3 \/ i = 4 \/ i = 5
                       \/ i = 6 \/ i = 7 \/ i = 8 \/ i = 9 \/ i = 10 \/ i = 11
                       \/ i = 12 \/ i = 13 \/ i = 14 \/ i = 15 \/ i = 16
  OBVIOUS
<1>2. /\ \A i \in 0..17 : Entry(Bias500At16, 10, i) \in Int
      /\ \A i \in 0..16 : Entry(Bias500At16, 10, i) <= Entry(Bias500At16, 10, i + 1)
  BY <1>1 DEF Entry, Bias500At16
<1>3. /\ \A i \in 0..17 : Entry(Bias500At64, 8, i) \in Int
      /\ \A i \in 0..16 : Entry(Bias500At64, 8, i) <= Entry(Bias500At64, 8, i + 1)
  BY <1>1 DEF Entry, Bias500At64
<1>4. /\ \A i \in 0..17 : Entry(Bias900At16, 7, i) \in Int
      /\ \A i \in 0..16 : Entry(Bias900At16, 7, i) <= Entry(Bias900At16, 7, i + 1)
  BY <1>1 DEF Entry, Bias900At16
<1>5. /\ \A i \in 0..17 : Entry(Bias900At64, 7, i) \in Int
      /\ \A i \in 0..16 : Entry(Bias900At64, 7, i) <= Entry(Bias900At64, 7, i + 1)
  BY <1>1 DEF Entry, Bias900At64
<1> QED BY ONLY <1>2, <1>3, <1>4, <1>5

\* So does the bias of every configuration.
LEMMA BiasRises ==
    ASSUME NEW c, c.channel \in Channels, c.prf \in {16, 64}
    PROVE  /\ \A i \in 0..17 : SignedBias(c, i) \in Int
           /\ \A i, j \in 0..17 : i <= j => SignedBias(c, i) <= SignedBias(c, j)
<1>1. PICK t, z, n :
          /\ BiasTable(c) = <<t, z, n>> /\ n \in {1, 2}
          /\ <<t, z>> \in {<<Bias500At16, 10>>, <<Bias500At64, 8>>,
                           <<Bias900At16, 7>>, <<Bias900At64, 7>>}
  <2>1. \/ BiasTable(c) = <<Bias900At16, 7, 2>>
        \/ BiasTable(c) = <<Bias900At64, 7, 2>>
        \/ BiasTable(c) = <<Bias500At16, 10, 1>>
        \/ BiasTable(c) = <<Bias500At64, 8, 1>>
    BY DEF BiasTable
  <2> QED BY <2>1
<1>2. \A i \in 0..17 : SignedBias(c, i) = n * Entry(t, z, i)
  BY <1>1 DEF SignedBias, Entry
<1>3. /\ \A i \in 0..17 : Entry(t, z, i) \in Int
      /\ \A i \in 0..16 : Entry(t, z, i) <= Entry(t, z, i + 1)
  <2> DEFINE u == <<t, z>>
  <2>1. u[1] = t /\ u[2] = z
    OBVIOUS
  <2>2. u \in {<<Bias500At16, 10>>, <<Bias500At64, 8>>,
               <<Bias900At16, 7>>, <<Bias900At64, 7>>}
    BY <1>1
  <2> HIDE DEF u
  <2> QED BY ONLY <2>1, <2>2, TablesRise
<1>4. \A x, y \in Int : /\ 1 * x = x /\ 2 * x \in Int
                        /\ x <= y => 1 * x <= 1 * y /\ 2 * x <= 2 * y
  OBVIOUS
<1> DEFINE f == [i \in 0..17 |-> SignedBias(c, i)]
<1>5. \A i \in 0..17 : f[i] = SignedBias(c, i)
  OBVIOUS
<1> HIDE DEF f
<1>6. \A i \in 0..17 : f[i] \in Int
  <2>1. n = 1 \/ n = 2
    BY <1>1
  <2> QED BY ONLY <1>2, <1>3, <1>4, <1>5, <2>1
<1>7. \A i \in 0..16 : f[i] <= f[i + 1]
  <2>1. \A i \in 0..16 : i \in 0..17 /\ i + 1 \in 0..17
    OBVIOUS
  <2>2. \A i \in 0..16 : n * Entry(t, z, i) <= n * Entry(t, z, i + 1)
    <3>1. CASE n = 1
      BY <1>3, <1>4, <2>1, <3>1
    <3>2. CASE n = 2
      BY <1>3, <1>4, <2>1, <3>2
    <3> QED BY <1>1, <3>1, <3>2
  <2> QED BY ONLY <1>2, <1>5, <2>1, <2>2
<1>8. \A i, j \in 0..17 : i <= j => f[i] <= f[j]
  <2>1. Steady(f)
    BY ONLY <1>6, <1>7 DEF Steady
  <2>2. Rises(f)
    BY ONLY <2>1, Rising
  <2> QED BY ONLY <2>2 DEF Rises
<1> QED BY ONLY <1>5, <1>6, <1>8

\* Half a step at a time: twice the bias is the sum of two entries.
LEMMA BiasSum ==
    ASSUME NEW c, \A i \in 0..17 : SignedBias(c, i) \in Int, NEW p \in Int
    PROVE  /\ p + 61 >= -1 => TwiceBias(c, p) = SignedBias(c, 0) + SignedBias(c, 0)
           /\ p + 61 <= -32 => TwiceBias(c, p) = SignedBias(c, 17) + SignedBias(c, 17)
           /\ -(p + 61) \in 2..31 =>
                 LET s == -(p + 61)
                     l == s \div 2
                 IN  TwiceBias(c, p) = SignedBias(c, l)
                        + SignedBias(c, IF s = 2 * l THEN l ELSE l + 1)
<1> DEFINE s == -(p + 61)
           l == s \div 2
<1>0. \A x \in Int : x * 0 = 0 /\ 0 * x = 0 /\ 1 * x = x /\ 2 * x = x + x /\ x - x = 0
  OBVIOUS
<1>1. CASE p + 61 >= -1
  <2>1. l <= 0
    BY <1>1
  <2>2. TwiceBias(c, p) = 2 * SignedBias(c, 0)
                            + (s - 2 * 0) * (SignedBias(c, 0) - SignedBias(c, 0))
    BY <2>1 DEF TwiceBias
  <2>3. SignedBias(c, 0) \in Int /\ s - 2 * 0 \in Int
    OBVIOUS
  <2> HIDE DEF s
  <2> QED BY <1>0, <1>1, <2>2, <2>3
<1>2. CASE p + 61 <= -32
  <2>1. l >= 16
    BY <1>2
  <2>2. TwiceBias(c, p) = 2 * SignedBias(c, 17)
                            + (s - 2 * 17) * (SignedBias(c, 17) - SignedBias(c, 17))
    BY <2>1 DEF TwiceBias
  <2>3. SignedBias(c, 17) \in Int /\ s - 2 * 17 \in Int
    OBVIOUS
  <2> HIDE DEF s
  <2> QED BY <1>0, <1>2, <2>2, <2>3
<1>3. CASE s \in 2..31
  <2>1. l \in 1..15 /\ (s = 2 * l \/ s = 2 * l + 1)
    BY <1>3
  <2>2. TwiceBias(c, p) = 2 * SignedBias(c, l)
                            + (s - 2 * l) * (SignedBias(c, l + 1) - SignedBias(c, l))
    <3> DEFINE lo == IF l <= 0 THEN 0 ELSE IF l >= 16 THEN 17 ELSE l
               hi == IF lo \in {0, 17} THEN lo ELSE lo + 1
    <3>1. TwiceBias(c, p) = 2 * SignedBias(c, lo)
                              + (s - 2 * lo) * (SignedBias(c, hi) - SignedBias(c, lo))
      BY Zenon DEF TwiceBias
    <3>2. lo = l /\ hi = l + 1
      BY <2>1
    <3> HIDE DEF lo, hi, s, l
    <3> QED BY ONLY <3>1, <3>2
  <2>3. SignedBias(c, l) \in Int /\ SignedBias(c, l + 1) \in Int
    BY <2>1
  <2>4. s \in Int /\ l \in Int
    BY <1>3, <2>1
  <2>5. TwiceBias(c, p) = SignedBias(c, l)
                        + SignedBias(c, IF s = 2 * l THEN l ELSE l + 1)
    <3> HIDE DEF s, l
    <3>1. s = 2 * l => s - 2 * l = 0
      BY <2>4
    <3>2. s = 2 * l + 1 => s - 2 * l = 1 /\ s # 2 * l
      BY <2>4
    <3> QED BY <1>0, <2>1, <2>2, <2>3, <3>1, <3>2
  <2>6. ~ (p + 61 >= -1) /\ ~ (p + 61 <= -32)
    BY <1>3
  <2> QED BY <2>5, <2>6
<1>4. p + 61 >= -1 \/ p + 61 <= -32 \/ s \in 2..31
  OBVIOUS
<1> QED BY <1>1, <1>2, <1>3, <1>4

\* The index of each of the two entries for a power.
LowEnd(p)  == IF p + 61 >= -1 THEN 0 ELSE IF p + 61 <= -32 THEN 17
              ELSE (-(p + 61)) \div 2
HighEnd(p) == IF p + 61 >= -1 THEN 0 ELSE IF p + 61 <= -32 THEN 17
              ELSE IF -(p + 61) = 2 * ((-(p + 61)) \div 2) THEN (-(p + 61)) \div 2
              ELSE (-(p + 61)) \div 2 + 1

\* A stronger signal is never read from later entries.
LEMMA EndsFall ==
    ASSUME NEW p \in Int, NEW q \in Int, p < q
    PROVE  /\ {LowEnd(p), HighEnd(p), LowEnd(q), HighEnd(q)} \subseteq 0..17
           /\ LowEnd(q) <= LowEnd(p) /\ HighEnd(q) <= HighEnd(p)
<1> DEFINE s == -(p + 61)
           l == s \div 2
           r == -(q + 61)
           m == r \div 2
<1>1. /\ l \in Int /\ s \in Int /\ (s = 2 * l \/ s = 2 * l + 1)
      /\ m \in Int /\ r \in Int /\ (r = 2 * m \/ r = 2 * m + 1) /\ r < s
  OBVIOUS
<1>2. /\ p + 61 >= -1 <=> s <= 1 
      /\ p + 61 <= -32 <=> s >= 32
      /\ q + 61 >= -1 <=> r <= 1 
      /\ q + 61 <= -32 <=> r >= 32
  OBVIOUS
<1>3. /\ LowEnd(p) = IF s <= 1 THEN 0 ELSE IF s >= 32 THEN 17 ELSE l
      /\ LowEnd(q) = IF r <= 1 THEN 0 ELSE IF r >= 32 THEN 17 ELSE m
      /\ HighEnd(p) = IF s <= 1 THEN 0 ELSE IF s >= 32 THEN 17
                      ELSE IF s = 2 * l THEN l ELSE l + 1
      /\ HighEnd(q) = IF r <= 1 THEN 0 ELSE IF r >= 32 THEN 17
                      ELSE IF r = 2 * m THEN m ELSE m + 1
  BY <1>2 DEF LowEnd, HighEnd
<1> HIDE DEF s, l, r, m
<1> QED BY <1>1, <1>3

\* Twice the bias does not rise with the power.
LEMMA BiasFalls ==
    ASSUME NEW c, c.channel \in Channels, c.prf \in {16, 64},
           NEW p \in Int, NEW q \in Int, p < q
    PROVE  TwiceBias(c, p) >= TwiceBias(c, q)
<1>1. /\ \A i \in 0..17 : SignedBias(c, i) \in Int
      /\ \A i, j \in 0..17 : i <= j => SignedBias(c, i) <= SignedBias(c, j)
  BY BiasRises
<1>2. ASSUME NEW x \in Int
      PROVE  TwiceBias(c, x) = SignedBias(c, LowEnd(x)) + SignedBias(c, HighEnd(x))
  <2>1. CASE x + 61 >= -1
    BY <1>1, <2>1, BiasSum DEF LowEnd, HighEnd
  <2>2. CASE x + 61 <= -32
    BY <1>1, <2>2, BiasSum DEF LowEnd, HighEnd
  <2>3. CASE ~ (x + 61 >= -1) /\ ~ (x + 61 <= -32)
    <3>1. -(x + 61) \in 2..31
      BY <2>3
    <3>2. /\ LowEnd(x) = (-(x + 61)) \div 2
          /\ HighEnd(x) = IF -(x + 61) = 2 * ((-(x + 61)) \div 2)
                          THEN (-(x + 61)) \div 2 ELSE (-(x + 61)) \div 2 + 1
      BY <2>3 DEF LowEnd, HighEnd
    <3> QED BY <1>1, <3>1, <3>2, BiasSum
  <2> QED BY <2>1, <2>2, <2>3
<1>3. /\ {LowEnd(p), HighEnd(p), LowEnd(q), HighEnd(q)} \subseteq 0..17
      /\ LowEnd(q) <= LowEnd(p) /\ HighEnd(q) <= HighEnd(p)
  BY ONLY EndsFall, p \in Int, q \in Int, p < q
<1>4. /\ SignedBias(c, LowEnd(q)) <= SignedBias(c, LowEnd(p))
      /\ SignedBias(c, HighEnd(q)) <= SignedBias(c, HighEnd(p))
      /\ SignedBias(c, LowEnd(p)) \in Int /\ SignedBias(c, LowEnd(q)) \in Int
      /\ SignedBias(c, HighEnd(p)) \in Int /\ SignedBias(c, HighEnd(q)) \in Int
  BY <1>1, <1>3
<1>5. /\ TwiceBias(c, p) = SignedBias(c, LowEnd(p)) + SignedBias(c, HighEnd(p))
      /\ TwiceBias(c, q) = SignedBias(c, LowEnd(q)) + SignedBias(c, HighEnd(q))
  BY <1>2
<1> QED BY ONLY <1>4, <1>5

-----------------------------------------------------------------------------
(* Theorems *)

\* The state of DriverRuntime and of a call is always well formed, however
\* the accesses of the calls fail (async_dw1000.rs: init() to transmit()).
THEOREM SetupTyped == Spec => []TypeOK
<1>1. SetupInv => TypeOK
  BY DEF SetupInv
<1> QED BY <1>1, SetupInvariant, PTL

\* The receiver and the transmitter only ever run on one whole configuration,
\* whichever accesses of init(), reconfigure() and the calls after them fail,
\* and however often the client tries again.
THEOREM OneConfigurationHolds == Spec => []OneConfiguration
<1>1. SetupInv => OneConfiguration
  BY DEF SetupInv
<1> QED BY <1>1, SetupInvariant, PTL

\* While the radio can be used, the configuration that DriverRuntime holds is
\* the one its registers hold.
THEOREM DriverKnowsChipHolds == Spec => []DriverKnowsChip
<1>1. SetupInv => DriverKnowsChip
  BY SetupAssumption DEF SetupInv, DriverKnowsChip, Ready
<1> QED BY <1>1, SetupInvariant, PTL

\* A frame leaves with the length of what transmit() put into the buffer, and
\* its receiver reads as much.
THEOREM LengthSurvivesHolds == Spec => []LengthSurvives
<1>1. SetupInv => LengthSurvives
  BY DEF SetupInv
<1> QED BY <1>1, SetupInvariant, PTL

\* The correction of a receive timestamp does not rise with the receive power,
\* whatever power is measured: neither at the zero of the table it is read
\* from, nor between two of its entries, nor beyond its ends
\* (driver_core.rs: correct_receive_timestamp()).
THEOREM BiasMonotoneHolds == Spec => []BiasMonotone
<1>1. Init => OnAir
  <2>1. Init => Quiet
    <3>1. "SYS_CTRL" \in Names
      BY NamesApart
    <3> QED BY <3>1 DEF Init, PowerOn, Quiet
  <2> QED BY <2>1 DEF Quiet, OnAir, Active
<1>2. OnAir => BiasMonotone
  <2> SUFFICES ASSUME OnAir, Active, NEW p \in Powers, NEW q \in Powers, p < q
               PROVE  TwiceBias(runtime, p) >= TwiceBias(runtime, q)
    BY DEF BiasMonotone
  <2>1. runtime.channel \in Channels /\ runtime.prf \in {16, 64}
    BY SetupAssumption DEF OnAir, RadioConfigs
  <2>2. p \in Int /\ q \in Int /\ p < q
    BY SetupAssumption
  <2> QED BY ONLY <2>1, <2>2, BiasFalls
<1> QED BY <1>1, <1>2, NextOnAir, SetupInvariant, PTL DEF Spec

===============================================================================
