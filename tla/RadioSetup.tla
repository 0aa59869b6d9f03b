----------------------------- MODULE RadioSetup -----------------------------
(***************************************************************************)
(* How a client brings a DW1000 up and keeps it configured: new(), init(), *)
(* reconfigure(), enable_leds(), start_receive() and transmit() of         *)
(* async_dw1000.rs (dw1000.rs makes the same accesses), with what          *)
(* DriverRuntime::reconfigure() stores before the radio is touched.        *)
(*                                                                         *)
(* A call is a list of register accesses, one step each, and each of them  *)
(* may fail, before or after the access has had its effect.  The accesses  *)
(* to the LEDs, to a clock mode or to the LDE's loader count as one, and   *)
(* those that only read or clear a status are left out.  The chip          *)
(* (external) is the contents of its registers; SYS_CTRL holds "rx"   *)
(* or "tx" from the access that starts the receiver or the transmitter to  *)
(* the one that stops it, and whether the frame check is on.               *)
(*                                                                         *)
(* The client uses the radio after a call that returned Ok.  After a       *)
(* failed access or a rejected tuning it calls init() or, unless it is the *)
(* Embassy application, reconfigure(); it may stop for good when start-up  *)
(* or a recovery fails, as the application does (board.rs: fault_loop).    *)
(***************************************************************************)
EXTENDS PhyConfig

CONSTANTS Configs,       \* the configurations the client asks for
          NoConfig,      \* DriverRuntime before the first of them
          Payloads,      \* lengths of the frames it sends, in bytes, never 0
          Powers,        \* receive powers in dBm the bias is looked at for
          MaxFailures    \* bound: failures in a row before an init()

ASSUME SetupAssumption ==
    /\ NoConfig \notin Configs
    /\ \A c \in Configs : c \in RadioConfigs({c.identity}, {c.delay})
    /\ Payloads \subseteq Nat \ {0} /\ Powers \subseteq Int
    /\ MaxFailures \in Nat

None == "none"

BaseNames   == {"USR_SFD", "PANADR", "EUI", "SYS_CFG", "SYS_MASK",
                "CHAN_CTRL", "TX_FCTRL", "TX_ANTD", "LDE_RXANTD"}
TuningOrder == <<"AGC_TUNE1", "AGC_TUNE2", "AGC_TUNE3", "DRX_TUNE0B",
                 "DRX_TUNE1A", "DRX_TUNE1B", "DRX_TUNE2", "DRX_TUNE4H",
                 "RF_RXCTRLH", "RF_TXCTRL", "TC_PGDELAY", "FS_PLLCFG",
                 "FS_PLLTUNE", "LDE_CFG1", "LDE_CFG2", "LDE_REPC",
                 "TX_POWER", "FS_XTALT">>
TuningNames == {TuningOrder[i] : i \in 1..Len(TuningOrder)}

\* Registers that say what the chip is doing, not how it is configured.
OtherNames == {"SYS_CTRL", "TX_BUFFER", "PMSC", "LDE", "LEDS"}
Names == BaseNames \cup TuningNames \cup OtherNames

VARIABLES runtime,     \* the configuration DriverRuntime holds
          txFctrl,     \* the driver's copy of TX_FCTRL
          chip,        \* the registers
          call,        \* the call under way, or None
          todo,        \* the accesses it has still to make
          payload,     \* the frame being sent
          client,      \* what the calls so far have made of the radio
          recovering,  \* a start-up or recovery has begun and not yet ended
          failures     \* calls failed since the radio was last usable

vars == <<runtime, txFctrl, chip, call, todo, payload, client, recovering,
          failures>>

PowerOn == [r \in Names |-> <<>>]

-----------------------------------------------------------------------------
(* The accesses of each call.  "select_tuning_values" is none: it computes. *)

Tuning == <<"select_tuning_values">> \o TuningOrder

\* Mutated form of Reconfiguration: the radio is not put to idle first.
ReconfigurationAwake ==
    <<"USR_SFD", "PANADR", "EUI", "SYS_CFG", "SYS_MASK", "CHAN_CTRL",
      "TX_FCTRL">> \o Tuning \o <<"TX_ANTD", "LDE_RXANTD">>

Reconfiguration ==
    <<"idle", "USR_SFD", "PANADR", "EUI", "SYS_CFG", "SYS_MASK", "CHAN_CTRL",
      "TX_FCTRL">> \o Tuning \o <<"TX_ANTD", "LDE_RXANTD">>

\* hard_reset(), enable_clock(), clear_interrupts() and manage_lde(); then
\* reconfigure(), which begins with "configure".
Initialisation ==
    <<"reset", "auto", "mask", "xti", "lde", "auto", "configure">>

Reception    == <<"idle", "rx">>
Transmission == <<"idle", "TX_BUFFER", "length", "tx">>

-----------------------------------------------------------------------------
(* What an access does to the driver and to the chip *)

\* transmit() puts the frame's length into its copy of TX_FCTRL.
WithLength(fctrl, length) == <<length, fctrl[2], fctrl[3], fctrl[4]>>

\* What each configuration puts into each register.
Settings ==
    [c \in Configs |->
        [r \in BaseNames \cup TuningNames |->
            IF r \in BaseNames THEN BaseRegisters(c)[r]
            ELSE TuningRegisters(c)[r]]]

Written(access) ==
    CASE access = "reset"  -> PowerOn
      [] access = "mask"   -> [chip EXCEPT !["SYS_MASK"] = <<>>]
      [] access = "auto"   -> [chip EXCEPT !["PMSC"] = <<"auto">>]
      [] access = "xti"    -> [chip EXCEPT !["PMSC"] = <<"xti">>]
      [] access = "lde"    -> [chip EXCEPT !["LDE"] = <<"loaded">>]
      [] access = "leds"   -> [chip EXCEPT !["LEDS"] = <<"on">>]
      [] access = "idle"   -> [chip EXCEPT !["SYS_CTRL"] = <<>>]
      [] access = "rx"     -> [chip EXCEPT !["SYS_CTRL"] =
                                    <<"rx", runtime.frameCheck>>]
      [] access = "tx"     -> [chip EXCEPT !["SYS_CTRL"] =
                                    <<"tx", runtime.frameCheck>>]
      [] access = "TX_BUFFER" -> [chip EXCEPT !["TX_BUFFER"] = <<payload>>]
      [] access = "TX_FCTRL"  -> [chip EXCEPT !["TX_FCTRL"] = txFctrl]
      [] access = "length" -> [chip EXCEPT !["TX_FCTRL"] =
            WithLength(txFctrl, FrameLength(runtime, payload))]
      [] OTHER -> [chip EXCEPT ![access] = Settings[runtime][access]]

\* The part done before the access, which stands even if the access fails:
\* reconfigure() composes the registers after the radio has gone idle.
Composed(access) ==
    CASE access = "USR_SFD" -> Settings[runtime]["TX_FCTRL"]
      [] access = "length"  -> WithLength(txFctrl, FrameLength(runtime, payload))
      [] OTHER              -> txFctrl

IsAccess(step) == step \notin {"select_tuning_values", "configure"}

-----------------------------------------------------------------------------

Init ==
    /\ runtime = NoConfig /\ txFctrl = <<0, 110, 0, 0>> /\ chip = PowerOn
    /\ call = None /\ todo = <<>> /\ payload = 0
    /\ client = "down" /\ recovering = TRUE /\ failures = 0

Begins(name, steps) == call = None /\ call' = name /\ todo' = steps

\* The radio can be used: the last init() or reconfigure() returned Ok.
Usable == client \in {"ready", "running"}

\* Also the application's recovery, whatever it recovers from.
CallInit ==
    /\ client # "stopped"
    /\ Begins("init", Initialisation)
    /\ recovering' = TRUE
    /\ UNCHANGED <<runtime, txFctrl, chip, payload, client, failures>>

\* Mutated form of Stores: the configuration is stored before it is validated.
StoresAny(c) == runtime' = c

\* DriverRuntime::reconfigure(), which validates first.
Stores(c) == runtime' = IF Validates(c) THEN c ELSE runtime

\* InvalidPreambleCode: nothing has been changed, the client may go on.
RefuseCode(c) ==
    /\ ~ Validates(c) /\ Stores(c)
    /\ call = None /\ client # "stopped"
    /\ UNCHANGED <<txFctrl, chip, call, todo, payload, client, recovering,
                   failures>>

\* No reset, so an init() must have succeeded and none have failed since.
CallReconfigure(c) ==
    /\ client \notin {"down", "stopped"} /\ failures < MaxFailures
    /\ Validates(c) /\ Stores(c)
    /\ Begins("reconfigure", Reconfiguration)
    /\ UNCHANGED <<txFctrl, chip, payload, client, recovering,
                   failures>>

CallEnableLeds ==
    /\ Usable /\ Begins("leds", <<"leds">>)
    /\ UNCHANGED <<runtime, txFctrl, chip, payload, client, recovering,
                   failures>>

CallStartReceive ==
    /\ Usable /\ Begins("start", Reception)
    /\ UNCHANGED <<runtime, txFctrl, chip, payload, client, recovering,
                   failures>>

\* FrameTooLong is returned before anything is touched; the application
\* recovers from it as from any error of a tick.
RefuseLength(n) ==
    /\ Usable /\ call = None /\ FrameLength(runtime, n) > MaxFrame
    /\ client' = "failed"
    /\ UNCHANGED <<runtime, txFctrl, chip, call, todo, payload, recovering,
                   failures>>

\* Mutated form of CallTransmit: the length is not checked.
CallTransmitAny(n) ==
    /\ Usable
    /\ Begins("transmit", Transmission)
    /\ payload' = n
    /\ UNCHANGED <<runtime, txFctrl, chip, client, recovering,
                   failures>>

CallTransmit(n) ==
    /\ Usable /\ FrameLength(runtime, n) <= MaxFrame
    /\ Begins("transmit", Transmission)
    /\ payload' = n
    /\ UNCHANGED <<runtime, txFctrl, chip, client, recovering,
                   failures>>

-----------------------------------------------------------------------------

\* The call's last access has succeeded.
Returns(steps) ==
    /\ todo' = steps
    /\ call' = IF steps = <<>> THEN None ELSE call
    /\ payload' = IF steps = <<>> THEN 0 ELSE payload
    /\ client' = CASE steps = <<>> /\ call = "start" -> "running"
                   [] steps = <<>> /\ call \in {"init", "reconfigure"} -> "ready"
                   [] OTHER -> client
    /\ failures' = IF steps = <<>> THEN 0 ELSE failures
    /\ recovering' = (recovering /\ ~ (steps = <<>> /\ call = "start"))

Fails ==
    /\ call' = None /\ todo' = <<>> /\ payload' = 0
    /\ client' = IF call = "init" THEN "down" ELSE "failed"
    /\ failures' = IF failures < MaxFailures THEN failures + 1 ELSE failures
    /\ UNCHANGED recovering

AccessSucceeds ==
    /\ todo # <<>> /\ IsAccess(Head(todo))
    /\ txFctrl' = Composed(Head(todo))
    /\ chip' = Written(Head(todo))
    /\ Returns(Tail(todo))
    /\ UNCHANGED runtime

AccessFails ==
    /\ todo # <<>> /\ IsAccess(Head(todo))
    /\ txFctrl' = Composed(Head(todo))
    /\ chip' \in {chip, Written(Head(todo))}
    /\ UNCHANGED runtime
    /\ Fails

\* The last line of init(): reconfigure(config).
InitConfigures(c) ==
    /\ todo # <<>> /\ Head(todo) = "configure"
    /\ Validates(c) /\ Stores(c)
    /\ todo' = Reconfiguration
    /\ UNCHANGED <<txFctrl, chip, call, payload, client, recovering,
                   failures>>

InitRefusesCode(c) ==
    /\ todo # <<>> /\ Head(todo) = "configure"
    /\ ~ Validates(c) /\ Stores(c)
    /\ Fails /\ UNCHANGED <<txFctrl, chip>>

TuningSelected ==
    /\ todo # <<>> /\ Head(todo) = "select_tuning_values"
    /\ Tunable(runtime)
    /\ todo' = Tail(todo)
    /\ UNCHANGED <<runtime, txFctrl, chip, call, payload, client, recovering,
                   failures>>

\* UnsupportedPreambleLength, with the PHY registers written already.
TuningRejected ==
    /\ todo # <<>> /\ Head(todo) = "select_tuning_values"
    /\ ~ Tunable(runtime)
    /\ Fails /\ UNCHANGED <<runtime, txFctrl, chip>>

\* fault_loop(), when start-up or a recovery has failed.
GiveUp ==
    /\ client \in {"down", "failed"} /\ recovering /\ call = None
    /\ client' = "stopped"
    /\ UNCHANGED <<runtime, txFctrl, chip, call, todo, payload, recovering,
                   failures>>

Next ==
    \/ CallInit \/ CallEnableLeds \/ CallStartReceive
    \/ \E c \in Configs : \/ CallReconfigure(c) \/ RefuseCode(c)
                          \/ InitConfigures(c) \/ InitRefusesCode(c)
    \/ \E n \in Payloads : CallTransmit(n) \/ RefuseLength(n)
    \/ AccessSucceeds \/ AccessFails
    \/ TuningSelected \/ TuningRejected
    \/ GiveUp

Spec == Init /\ [][Next]_vars

-----------------------------------------------------------------------------
(* Properties *)

TypeOK ==
    /\ runtime \in Configs \cup {NoConfig}
    /\ DOMAIN chip = Names
    /\ call \in {None, "init", "reconfigure", "leds", "start", "transmit"}
    /\ call = None <=> todo = <<>>
    /\ client \in {"down", "failed", "ready", "running", "stopped"}
    /\ payload \in Payloads \cup {0}
    /\ Len(txFctrl) = 4 /\ txFctrl[1] \in 0..MaxFrame
    /\ recovering \in BOOLEAN /\ failures \in 0..MaxFailures

\* The chip is set up for c: every register of the configuration, whatever
\* the length of the last frame, and what only init() provides.
SetUpFor(c) ==
    /\ Validates(c) /\ Tunable(c)
    /\ \A r \in (BaseNames \cup TuningNames) \ {"TX_FCTRL"} :
          chip[r] = Settings[c][r]
    /\ Tail(chip["TX_FCTRL"]) = Tail(Settings[c]["TX_FCTRL"])
    /\ chip["PMSC"] = <<"auto">> /\ chip["LDE"] = <<"loaded">>

Active == chip["SYS_CTRL"] # <<>>

\* The receiver and the transmitter only ever run on one whole configuration:
\* no failed access, refused configuration or repeated attempt puts a mixture
\* of two, or a setup half done, on the air.
OneConfiguration == Active => \E c \in Configs : SetUpFor(c)

\* While the radio can be used, the configuration the driver remembers (its
\* identity(), the PHY its receive powers and time corrections are computed
\* with, the frame check) is the one the chip is set up for.
DriverKnowsChip ==
    Usable /\ call \notin {"init", "reconfigure"} =>
        runtime # NoConfig /\ SetUpFor(runtime)

\* A frame leaves with the length of what is in the buffer: a receiver with
\* the same frame check reads that many bytes of payload.
LengthSurvives ==
    Active /\ chip["SYS_CTRL"][1] = "tx" =>
        PayloadLength([frameCheck |-> chip["SYS_CTRL"][2]],
                      chip["TX_FCTRL"][1]) = chip["TX_BUFFER"][1]

\* The correction of a receive timestamp is monotone in the receive power,
\* through the zero and up to both ends of the table it is read from.
BiasMonotone ==
    Active /\ chip["SYS_CTRL"][1] = "rx" =>
        \A p, q \in Powers :
            p < q => TwiceBias(runtime, p) >= TwiceBias(runtime, q)
=============================================================================
