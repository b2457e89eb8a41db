------------------------------ MODULE Positions ------------------------------
(***************************************************************************)
(* Positions of a cover: the raw 16-bit scale of the KLF, percentages and  *)
(* the parameters that are not positions (src/klf200/types.rs), and the    *)
(* inverse percentage that MQTT sees (src/veluxnode.rs).                   *)
(***************************************************************************)
EXTENDS Integers

Raw == 0 .. 2^16 - 1
FULLY_OPEN == 0
FULLY_CLOSED == 51200
Percentage == FULLY_OPEN .. FULLY_CLOSED

\* None, where the source has an optional position.
Unknown == -1

\* Percentage::from_percent and Percentage::rounded_percent.
FromPercent(percent) == (IF percent > 100 THEN 100 ELSE percent) * 512
RoundedPercent(raw) == IF (raw + 256) \div 512 > 100 THEN 100 ELSE (raw + 256) \div 512

\* mqtt_open_percent: MQTT counts from closed, the KLF from open.
OpenPercent(raw) == 100 - RoundedPercent(raw)

\* StandardParameter::from_raw and StandardParameter::to_raw: positions, relative
\* changes in tenths of a percent, five parameters with a meaning of their own, and
\* the rest.
Parameter(kind, value) == [kind |-> kind, value |-> value]
Special == [target |-> 53504, current |-> 53760, default |-> 54016, ignore |-> 54272,
            no_feedback |-> 63487]
SpecialKinds == {"target", "current", "default", "ignore", "no_feedback"}
PointRange == 51456 .. 53456

FromRaw(raw) ==
    IF raw \in Percentage THEN Parameter("relative", raw)
    ELSE IF raw \in PointRange THEN Parameter("percentage_point", raw - 51456 - 1000)
    ELSE IF \E kind \in SpecialKinds : Special[kind] = raw
         THEN Parameter(CHOOSE kind \in SpecialKinds : Special[kind] = raw, 0)
    ELSE Parameter("unknown", raw)

Clamp(tenths) == IF tenths > 1000 THEN 1000 ELSE IF tenths < -1000 THEN -1000 ELSE tenths
ToRaw(parameter) ==
    IF parameter.kind \in SpecialKinds THEN Special[parameter.kind]
    ELSE IF parameter.kind = "percentage_point" THEN Clamp(parameter.value) + 1000 + 51456
    ELSE parameter.value

\* Mutant of RelativePosition: every parameter is taken for a position.
RelativePositionAny(raw) == raw

\* relative_position: only a relative parameter is a position.
RelativePosition(raw) == IF FromRaw(raw).kind = "relative" THEN FromRaw(raw).value ELSE Unknown
=============================================================================
