------------------------------ MODULE PhyConfig ------------------------------
(***************************************************************************)
(* The configuration of a radio (config.rs) and what driver_core.rs derives *)
(* from it: the derived PHY fields, the contents of the configuration       *)
(* registers, the frame lengths, and the correction of receive timestamps.  *)
(*                                                                          *)
(* The contents of a register are abstracted to the tuple of the settings   *)
(* they are computed from, so that two configurations program a register    *)
(* alike exactly when the code's tables give it the same value for both.    *)
(* <<>> is what a register holds after a reset.                             *)
(***************************************************************************)
EXTENDS Integers, Sequences

Channels == {1, 2, 3, 4, 5, 7}
Codes    == (1..12) \cup (17..20)
NoCode   == 0                       \* preamble_code: None

RadioConfigs(identities, delays) ==
    [identity : identities, delay : delays,
     rate : {110, 850, 6800}, prf : {16, 64},
     length : {64, 128, 256, 512, 1024, 1536, 2048, 4096},
     channel : Channels, code : Codes \cup {NoCode}, smart : BOOLEAN,
     reenable : BOOLEAN, polarity : BOOLEAN, frameCheck : BOOLEAN]

\* OperatingMode::config(): data rate, pulse frequency, preamble length.
Modes ==
    [LongDataRangeLowPower |-> <<110, 16, 2048>>,
     ShortDataFastLowPower |-> <<6800, 16, 128>>,
     LongDataFastLowPower  |-> <<6800, 16, 1024>>,
     ShortDataFastAccuracy |-> <<6800, 64, 128>>,
     LongDataFastAccuracy  |-> <<6800, 64, 1024>>,
     LongDataRangeAccuracy |-> <<110, 64, 2048>>]

FromMode(identity, delay, mode) ==
    [identity |-> identity, delay |-> delay, rate |-> Modes[mode][1],
     prf |-> Modes[mode][2], length |-> Modes[mode][3], channel |-> 5,
     code |-> NoCode, smart |-> FALSE, reenable |-> TRUE, polarity |-> TRUE,
     frameCheck |-> TRUE]

-----------------------------------------------------------------------------
(* validated_phy() *)

DefaultCode(prf) == IF prf = 16 THEN 4 ELSE 10

CodesFor(prf) == IF prf = 16 THEN 1..8 ELSE (9..12) \cup (17..20)

PreambleCode(c) == IF c.code = NoCode THEN DefaultCode(c.prf) ELSE c.code

PacSize(length) == CASE length \in {64, 128}  -> 8
                     [] length \in {256, 512} -> 16
                     [] length = 1024         -> 32
                     [] OTHER                 -> 64

\* Otherwise validated() returns InvalidPreambleCode.
Validates(c) == PreambleCode(c) \in CodesFor(c.prf)

\* Otherwise select_tuning_values() returns UnsupportedPreambleLength.
Tunable(c) == c.rate = 110 => c.length \in {1536, 2048, 4096}

-----------------------------------------------------------------------------
(* The configuration registers *)

\* reconfigure() and the compose_*_fields() functions.
BaseRegisters(c) ==
    [USR_SFD   |-> <<c.rate>>,
     PANADR    |-> <<c.identity>>,
     EUI       |-> <<c.identity>>,
     SYS_CFG   |-> <<c.polarity, c.reenable, c.smart, c.rate = 110>>,
     SYS_MASK  |-> <<"events">>,
     CHAN_CTRL |-> <<c.rate, c.prf, c.channel, PreambleCode(c)>>,
     TX_FCTRL  |-> <<0, c.rate, c.prf, c.length>>,
     TX_ANTD   |-> <<c.delay>>,
     LDE_RXANTD |-> <<c.delay>>]

\* Channels that share the registers of a synthesiser or of a power table.
PllGroup(channel)   == CASE channel \in {2, 4} -> 2
                         [] channel \in {5, 7} -> 5
                         [] OTHER -> channel
PowerGroup(channel) == IF channel = 1 THEN 2 ELSE channel

\* Codes that share an LDE replica coefficient.
ReplicaGroup(code) == CASE code = 2  -> 1
                        [] code = 8  -> 3
                        [] code = 17 -> 10
                        [] code = 19 -> 18
                        [] OTHER -> code

\* select_tuning_values(), and what apply_tuning() writes besides.
TuningRegisters(c) ==
    [AGC_TUNE1  |-> <<c.prf>>,
     AGC_TUNE2  |-> <<"fixed">>,
     AGC_TUNE3  |-> <<"fixed">>,
     DRX_TUNE0B |-> <<c.rate>>,
     DRX_TUNE1A |-> <<c.prf>>,
     DRX_TUNE1B |-> <<c.rate = 110, c.rate = 6800 /\ c.length = 64>>,
     DRX_TUNE2  |-> <<PacSize(c.length), c.prf>>,
     DRX_TUNE4H |-> <<c.length = 64>>,
     RF_RXCTRLH |-> <<c.channel \in {4, 7}>>,
     RF_TXCTRL  |-> <<c.channel>>,
     TC_PGDELAY |-> <<c.channel>>,
     FS_PLLCFG  |-> <<PllGroup(c.channel)>>,
     FS_PLLTUNE |-> <<PllGroup(c.channel)>>,
     LDE_CFG1   |-> <<"fixed">>,
     LDE_CFG2   |-> <<c.prf>>,
     LDE_REPC   |-> <<ReplicaGroup(PreambleCode(c)), c.rate = 110>>,
     TX_POWER   |-> <<PowerGroup(c.channel), c.prf, c.smart>>,
     FS_XTALT   |-> <<"trimmed">>]

-----------------------------------------------------------------------------
(* Frame lengths *)

MaxFrame == 127                     \* LEN_UWB_FRAMES

\* checked_frame_len(), which refuses a frame longer than MaxFrame.
FrameLength(c, payload) == IF c.frameCheck THEN payload + 2 ELSE payload

\* Mutated form of PayloadLength: the checksum is counted as payload.
PayloadUncut(c, length) == length % 1024

\* rx_payload_len()
PayloadLength(c, length) ==
    LET len == length % 1024 IN
    IF c.frameCheck /\ len > 2 THEN len - 2 ELSE len

-----------------------------------------------------------------------------
(* correct_receive_timestamp(): range bias in mm by receive power *)

Bias500At16 == <<198, 187, 179, 163, 143, 127, 109, 84, 59, 31, 0, 36, 65, 84,
                 97, 106, 110, 112>>
Bias500At64 == <<110, 105, 100, 93, 82, 69, 51, 27, 0, 21, 35, 42, 49, 62, 71,
                 76, 81, 86>>
Bias900At16 == <<137, 122, 105, 88, 69, 47, 25, 0, 21, 48, 79, 105, 127, 147,
                 160, 169, 178, 197>>
Bias900At64 == <<147, 133, 117, 99, 75, 50, 29, 0, 24, 45, 63, 76, 87, 98, 116,
                 122, 132, 142>>

\* Table, index of its zero, scale.
BiasTable(c) ==
    CASE c.channel \in {4, 7} /\ c.prf = 16    -> <<Bias900At16, 7, 2>>
      [] c.channel \in {4, 7} /\ c.prf = 64    -> <<Bias900At64, 7, 2>>
      [] c.channel \notin {4, 7} /\ c.prf = 16 -> <<Bias500At16, 10, 1>>
      [] c.channel \notin {4, 7} /\ c.prf = 64 -> <<Bias500At64, 8, 1>>

\* Mutated form of SignedBias: the entries below the zero keep their sign.
UnsignedBias(c, i) == BiasTable(c)[3] * BiasTable(c)[1][i + 1]

SignedBias(c, i) ==
    LET t == BiasTable(c) IN
    t[3] * (IF i < t[2] THEN - t[1][i + 1] ELSE t[1][i + 1])

\* Twice the bias for a power in dBm: steps is twice rx_power_base, low and
\* high the two entries it is interpolated between.
TwiceBias(c, power) ==
    LET steps == - (power + 61)
        low   == IF steps \div 2 <= 0 THEN 0
                 ELSE IF steps \div 2 >= 16 THEN 17 ELSE steps \div 2
        high  == IF low \in {0, 17} THEN low ELSE low + 1
    IN 2 * SignedBias(c, low)
         + (steps - 2 * low) * (SignedBias(c, high) - SignedBias(c, low))
=============================================================================
