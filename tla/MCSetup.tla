------------------------------ MODULE MCSetup ------------------------------
(* An instance of RadioSetup for TLC. *)
EXTENDS RadioSetup

\* The application's configuration, a fast one that differs from it in every
\* setting, one whose tuning is rejected and one whose code is refused.
Application == FromMode("device", 16456, "LongDataRangeAccuracy")
Fast == [FromMode("other", 16400, "ShortDataFastLowPower") EXCEPT
            !.channel = 4, !.code = 1, !.smart = TRUE, !.reenable = FALSE,
            !.polarity = FALSE, !.frameCheck = FALSE]
Untunable == [FromMode("device", 16400, "LongDataRangeLowPower") EXCEPT
                 !.length = 512, !.channel = 2]
WrongCode == [FromMode("other", 16456, "LongDataFastAccuracy") EXCEPT
                 !.code = 4]

AllConfigs == {Application, Fast, Untunable, WrongCode}

\* With a frame check 126 bytes are too long, 125 just fit.
SomePayloads == {125, 126}
SomePowers   == {-97, -95, -94, -93, -84, -82, -80, -78, -76, -64, -63, -61, -58}
=============================================================================
