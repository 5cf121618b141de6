------------------------------ MODULE Registers ------------------------------
(***************************************************************************)
(* The pure part of the command and configuration path: layout of the      *)
(* register tables and of the read requests, conversion of values to and   *)
(* from register words, parsing of command payloads, and the limits of the *)
(* number entities (registers.go, the codec of inverter.go and             *)
(* parseMQTTCommandValue of mqtt.go).                                      *)
(*                                                                         *)
(* A Go value is [bool |-> b], [text |-> t] or [number |-> n], n counting  *)
(* hundredths.  A conversion that can fail returns the set of its results: *)
(* one element, or none for an error.  holdingByKey has one register of    *)
(* every kind of conversion a numeric register can have, and all that are  *)
(* select entities; text registers are left out.                           *)
(***************************************************************************)
EXTENDS Integers, Sequences, FiniteSetsExt

CONSTANTS
    Numeral,     \* what strconv.ParseFloat makes of a text, in hundredths
    NonFinite    \* the texts it takes for a NaN or an infinity

ASSUME NumeralAssumption == \A t \in DOMAIN Numeral : Numeral[t] \in Int

WordSize == 65536
Half == WordSize \div 2

-----------------------------------------------------------------------------
\* Layout.  The tables of addresses: where a definition starts, its words.
inputRegisters ==
    [Start : {3, 5, 9, 11, 13, 15, 30, 36, 38, 46, 48, 50, 52, 54, 56, 58, 60,
              62, 64, 66, 69, 71, 73, 75, 77, 85, 87}, Length : {2}]
    \cup [Start : {0, 1, 2, 7, 8} \cup 17..29 \cup 32..35 \cup 40..45
                  \cup {68, 79} \cup 81..84, Length : {1}]

holdingRegisters ==
    [Start : {9, 12}, Length : {3}] \cup [Start : {23}, Length : {5}]
    \cup [Start : {76, 78}, Length : {2}]
    \cup [Start : 0..8 \cup 15..22 \cup 28..43 \cup 51..57 \cup 67..70
                  \cup {73, 75} \cup 80..91 \cup 95..107, Length : {1}]

LastWord(d) == d.Start + d.Length - 1

buildRegisterWindow(registers) ==
    LET start == Min({d.Start : d \in registers})
        end == Max({LastWord(d) : d \in registers})
    IN  [Start |-> start, Count |-> end - start + 1]

BrokenWindows(registers, maximum) ==   \* the last, shorter request is missing
    LET window == buildRegisterWindow(registers)
    IN  {[Start |-> window.Start + i * maximum, Count |-> maximum] :
            i \in 0..(window.Count \div maximum - 1)}

\* Consecutive requests of maximum words, the last one as long as needed.
buildRegisterWindows(registers, maximum) ==
    LET window == buildRegisterWindow(registers)
        end == window.Start + window.Count - 1
    IN  {[Start |-> current, Count |-> Min({maximum, end - current + 1})] :
            current \in {a \in window.Start..end :
                            (a - window.Start) % maximum = 0}}

maxHoldingReadRegisters == 45
inputRegisterWindow == buildRegisterWindow(inputRegisters)
holdingRegisterWindows ==
    buildRegisterWindows(holdingRegisters, maxHoldingReadRegisters)

InWindow(address, window) ==
    address \in window.Start..(window.Start + window.Count - 1)

-----------------------------------------------------------------------------
\* Words, most significant first; numeric registers have one or two.
Fits(n, d) ==
    LET high == n \div WordSize ^ (d.Length - 1)
    IN  IF d.Type = "uint" THEN high \in 0..(WordSize - 1)
        ELSE high \in -Half..(Half - 1)

encodeRawValue(n, d) ==
    IF Fits(n, d)
    THEN {[i \in 1..d.Length |-> (n \div WordSize ^ (d.Length - i)) % WordSize]}
    ELSE {}

\* Two's complement: the top bit of a signed register weighs negative.
decodeRegisterValue(words, d) ==
    LET high == IF d.Type = "int" /\ words[1] >= Half
                THEN words[1] - WordSize ELSE words[1]
    IN  IF d.Length = 1 THEN high ELSE high * WordSize + words[2]

-----------------------------------------------------------------------------
\* Conversions between raw numbers and Go values.
EnumOf(first, texts) ==
    [n \in first..(first + Len(texts) - 1) |-> [text |-> texts[n - first + 1]]]

\* Those of the writable registers.
enums ==
    [outputConfig |-> EnumOf(0, <<"SBU", "SOL", "UTI", "SUB">>),
     chargeConfig |-> EnumOf(0, <<"PV First", "PV&UTI", "PV Only">>),
     pvModel |-> EnumOf(0, <<"Independent", "Parallel">>),
     acInModel |-> EnumOf(0, <<"APL", "UPS", "GEN">>),
     outputVoltType |-> EnumOf(0, <<"208VAC", "230VAC", "240VAC", "220VAC",
                                    "100VAC", "110VAC", "120VAC">>),
     outputFreqType |-> EnumOf(0, <<"50Hz", "60Hz">>),
     overLoadRestart |-> EnumOf(0, <<"Yes", "No", "Switch to UTI">>),
     overTempRestart |-> [n \in 0..1 |-> [bool |-> n = 0]],
     batteryType |-> EnumOf(0, <<"AGM", "FLD", "USE", "Lithium", "USE2">>),
     agingMode |-> EnumOf(0, <<"Normal", "Aging">>),
     safetyType |-> EnumOf(1, <<"Standard", "ETL", "AS4777", "CQC", "VDE4105">>)]

\* What the select entities offer.
selectOptions ==
    [OutputConfig |-> {"SBU", "SOL", "UTI", "SUB"},
     ChargeConfig |-> {"PV First", "PV&UTI", "PV Only"},
     PVModel |-> {"Independent", "Parallel"},
     ACInModel |-> {"APL", "UPS", "GEN"},
     OutputVoltType |-> {"208VAC", "230VAC", "240VAC", "220VAC", "100VAC",
                         "110VAC", "120VAC"},
     OutputFreqType |-> {"50Hz", "60Hz"},
     OverLoadRestart |-> {"Yes", "No", "Switch to UTI"},
     BatteryType |-> {"AGM", "FLD", "USE", "Lithium", "USE2"},
     AgingMode |-> {"Normal", "Aging"},
     SafetyType |-> {"Standard", "ETL", "AS4777", "CQC", "VDE4105"}]

Is(value, type) == type \in DOMAIN value

\* The code compares with EqualFold; of the spellings of each of these words,
\* here and in parseMQTTCommandValue, the model has the one in lower case.
parseBool(value) ==
    CASE Is(value, "bool") -> {value.bool}
      [] Is(value, "number") -> {value.number # 0}
      [] Is(value, "text") ->
             {b \in BOOLEAN : value.text \in
                  IF b THEN {"yes", "true", "t", "1", "on"}
                  ELSE {"no", "false", "f", "0", "off"}}

asFloat64(value) ==
    CASE Is(value, "bool") -> {}
      [] Is(value, "number") -> {value.number}
      [] Is(value, "text") -> {Numeral[t] : t \in {value.text} \cap DOMAIN Numeral}

asInt64(value) == {n \div 100 : n \in {m \in asFloat64(value) : m % 100 = 0}}

\* math.Round of a number of tenths: halves away from zero.
Tenths(n) == IF n >= 0 THEN (n + 5) \div 10 ELSE -((5 - n) \div 10)

Bit(b) == IF b THEN 1 ELSE 0

\* OverTempRestart is stored inverted.
overTempWrite(value) == {Bit(~b) : b \in parseBool(value)}

reverseEnum(enum, value) == {n \in DOMAIN enum : enum[n] = value}

BrokenWrite(d, value) ==   \* the inverted switch is not
    CASE d.Write = "intWrite" -> asInt64(value)
      [] d.Write = "scaleWrite" -> {Tenths(n) : n \in asFloat64(value)}
      [] d.Write \in {"boolWrite", "overTempWrite"} -> {Bit(b) : b \in parseBool(value)}
      [] d.Write = "enumWrite" -> reverseEnum(enums[d.Read], value)
      [] OTHER -> {}

\* definition.Write: from a command's value to the raw number.
Write(d, value) ==
    CASE d.Write = "nil" -> {}
      [] d.Write = "intWrite" -> asInt64(value)
      [] d.Write = "scaleWrite" -> {Tenths(n) : n \in asFloat64(value)}
      [] d.Write = "boolWrite" -> {Bit(b) : b \in parseBool(value)}
      [] d.Write = "overTempWrite" -> overTempWrite(value)
      [] d.Write = "enumWrite" -> reverseEnum(enums[d.Read], value)

\* definition.Read: from the raw number to the value published.
Read(d, raw) ==
    CASE d.Read = "identity" -> {[number |-> 100 * raw]}
      [] d.Read = "scaled" -> {[number |-> 10 * raw]}
      [] d.Read = "asBool" -> {[bool |-> raw # 0]}
      [] d.Read \in DOMAIN enums ->
             {enums[d.Read][n] : n \in {raw} \cap DOMAIN enums[d.Read]}

Def(start, length, type, read, write) ==
    [Start |-> start, Length |-> length, Type |-> type, Read |-> read,
     Write |-> write]

Select(start, enum) == Def(start, 1, "uint", enum, "enumWrite")

holdingByKey ==
    [OutputConfig |-> Select(1, "outputConfig"),
     ChargeConfig |-> Select(2, "chargeConfig"),
     UtiOutStart |-> Def(3, 1, "uint", "identity", "intWrite"),
     PVModel |-> Select(7, "pvModel"),
     ACInModel |-> Select(8, "acInModel"),
     OutputVoltType |-> Select(18, "outputVoltType"),
     OutputFreqType |-> Select(19, "outputFreqType"),
     OverLoadRestart |-> Select(20, "overLoadRestart"),
     OverTempRestart |-> Def(21, 1, "uint", "overTempRestart", "overTempWrite"),
     BuzzerEnable |-> Def(22, 1, "uint", "asBool", "boolWrite"),
     FlashStart |-> Def(31, 1, "uint", "identity", "intWrite"),
     MaxChargeAmps |-> Def(34, 1, "uint", "identity", "intWrite"),
     BulkChargeVolt |-> Def(35, 1, "uint", "scaled", "scaleWrite"),
     FloatChargeVolt |-> Def(36, 1, "uint", "scaled", "scaleWrite"),
     BatLowtoUti |-> Def(37, 1, "uint", "scaled", "scaleWrite"),
     ACChargeAmps |-> Def(38, 1, "uint", "identity", "intWrite"),
     BatteryType |-> Select(39, "batteryType"),
     AgingMode |-> Select(40, "agingMode"),
     SafetyType |-> Select(42, "safetyType"),
     RateWatt |-> Def(76, 2, "uint", "scaled", "nil"),
     NomAcChgCurrRaw |-> Def(88, 1, "uint", "identity", "nil"),
     uwAC2BatVolt |-> Def(95, 1, "uint", "scaled", "scaleWrite"),
     ParaMaxChgAmps |-> Def(105, 1, "uint", "identity", "nil"),
     AudioAlarmEnable |-> Def(107, 1, "uint", "asBool", "boolWrite")]

-----------------------------------------------------------------------------
\* Command payloads: JSON strings are quoted, all else is bare text.
parseMQTTCommandValue(payload) ==
    LET t == payload.text
    IN  CASE payload.quoted -> {[text |-> t]}
          [] ~payload.quoted /\ t \in {"true", "on"} -> {[bool |-> TRUE]}
          [] ~payload.quoted /\ t \in {"false", "off"} -> {[bool |-> FALSE]}
          [] ~payload.quoted /\ t \in NonFinite -> {}
          [] ~payload.quoted /\ t \in DOMAIN Numeral -> {[number |-> Numeral[t]]}
          [] OTHER -> {[text |-> t]}

\* Limits of number entities, in hundredths.
Limits(min, max) == [Min |-> 100 * min, Max |-> 100 * max]

configNumberLimits ==
    [UtiOutStart |-> Limits(0, 23), MaxChargeAmps |-> Limits(0, 180),
     BulkChargeVolt |-> Limits(50, 64), FloatChargeVolt |-> Limits(50, 56),
     ACChargeAmps |-> Limits(0, 80)]

discoveryNominalMaxRegisters ==
    [ACChargeAmps |-> "NomAcChgCurrRaw", MaxChargeAmps |-> "ParaMaxChgAmps"]

booleanKeys == {"OverTempRestart", "BuzzerEnable", "AudioAlarmEnable"}

isWritableNumberRegister(key) ==
    /\ key \in DOMAIN holdingByKey /\ holdingByKey[key].Write # "nil"
    /\ key \notin booleanKeys \cup DOMAIN selectOptions

BrokenBaseLimits(key, battery) ==   \* without the battery's thresholds
    IF key \in DOMAIN configNumberLimits THEN configNumberLimits[key]
    ELSE Limits(0, 65535)

\* No battery type known yet is the empty text.
baseNumberLimits(key, battery) ==
    IF key \in {"BatLowtoUti", "uwAC2BatVolt"}
    THEN IF battery \in {"", "Lithium"} THEN Limits(5, 100) ELSE Limits(20, 64)
    ELSE IF key \in DOMAIN configNumberLimits THEN configNumberLimits[key]
    ELSE Limits(0, 65535)

\* The state widens the limits of a charge current, up to its nominal value.
discoveryNumberLimits(key, config, battery) ==
    LET base == baseNumberLimits(key, battery)
        bulk == baseNumberLimits("BulkChargeVolt", battery)
        nominals == {discoveryNominalMaxRegisters[k] :
                        k \in {key} \cap DOMAIN discoveryNominalMaxRegisters}
        widening == {config[key].number : n \in
                        {m \in nominals : /\ {key, m} \subseteq DOMAIN config
                                          /\ config[key].number <= config[m].number}}
    IN  [Min |-> Min({base.Min} \cup widening),
         Max |-> Max({base.Max} \cup widening
                     \cup {bulk.Max : k \in {key} \cap {"FloatChargeVolt"}})]

Within(n, limits) == limits.Min <= n /\ n <= limits.Max

validateWritableNumberValue(key, value, config, battery) ==
    isWritableNumberRegister(key) =>
        /\ Is(value, "number")
        /\ Within(value.number, discoveryNumberLimits(key, config, battery))
=============================================================================
