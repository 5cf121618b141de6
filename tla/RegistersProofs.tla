--------------------------- MODULE RegistersProofs ---------------------------
(* What the tables, the requests and the conversions of Registers do, for  *)
(* every text that is a number.                                            *)
EXTENDS Registers, TLAPS

\* The registers by the way they are written.
IntKeys == {"UtiOutStart", "FlashStart", "MaxChargeAmps", "ACChargeAmps"}
ScaleKeys == {"BulkChargeVolt", "FloatChargeVolt", "BatLowtoUti",
              "uwAC2BatVolt"}
BoolKeys == {"BuzzerEnable", "AudioAlarmEnable"}
EnumKeys == {"OutputConfig", "ChargeConfig", "PVModel", "ACInModel",
             "OutputVoltType", "OutputFreqType", "OverLoadRestart",
             "BatteryType", "AgingMode", "SafetyType"}
NilKeys == {"RateWatt", "NomAcChgCurrRaw", "ParaMaxChgAmps"}

\* Every register is of one of these kinds.
LEMMA Kinds ==
    DOMAIN holdingByKey = IntKeys \cup ScaleKeys \cup BoolKeys \cup EnumKeys
                          \cup NilKeys \cup {"OverTempRestart"}
  BY DEF holdingByKey, IntKeys, ScaleKeys, BoolKeys, EnumKeys, NilKeys

\* Every register is in the range of addresses read, and one or two words.
LEMMA Layout ==
    ASSUME NEW k \in DOMAIN holdingByKey
    PROVE  /\ holdingByKey[k].Start \in 0..107
           /\ holdingByKey[k].Length \in {1, 2}
  BY DEF holdingByKey, Def, Select

\* Registers of whole numbers.
LEMMA IntTable ==
    ASSUME NEW k \in IntKeys
    PROVE  /\ holdingByKey[k].Length = 1 /\ holdingByKey[k].Type = "uint"
           /\ holdingByKey[k].Read = "identity"
           /\ holdingByKey[k].Write = "intWrite"
  BY DEF IntKeys, holdingByKey, Def

\* Registers of tenths.
LEMMA ScaleTable ==
    ASSUME NEW k \in ScaleKeys
    PROVE  /\ holdingByKey[k].Length = 1 /\ holdingByKey[k].Type = "uint"
           /\ holdingByKey[k].Read = "scaled"
           /\ holdingByKey[k].Write = "scaleWrite"
  BY DEF ScaleKeys, holdingByKey, Def

\* Switches.
LEMMA BoolTable ==
    ASSUME NEW k \in BoolKeys
    PROVE  /\ holdingByKey[k].Length = 1 /\ holdingByKey[k].Type = "uint"
           /\ holdingByKey[k].Read = "asBool"
           /\ holdingByKey[k].Write = "boolWrite"
  BY DEF BoolKeys, holdingByKey, Def

\* The switch that is stored inverted.
LEMMA OverTempTable ==
    LET d == holdingByKey["OverTempRestart"]
    IN  /\ d.Length = 1 /\ d.Type = "uint"
        /\ d.Read = "overTempRestart" /\ d.Write = "overTempWrite"
  BY DEF holdingByKey, Def

\* Registers that are not written.
LEMMA NilTable ==
    ASSUME NEW k \in NilKeys
    PROVE  holdingByKey[k].Write = "nil"
  BY DEF NilKeys, holdingByKey, Def

\* Select entities: their enum has texts for small numbers only.
LEMMA EnumTable ==
    ASSUME NEW k \in EnumKeys
    PROVE  /\ holdingByKey[k].Length = 1 /\ holdingByKey[k].Type = "uint"
           /\ holdingByKey[k].Read \in DOMAIN enums \ {"overTempRestart"}
           /\ holdingByKey[k].Write = "enumWrite"
  BY DEF EnumKeys, holdingByKey, Def, Select, enums

\* The texts of an enum have small numbers.
EnumOk(enum) == /\ DOMAIN enum \subseteq 0..7
                /\ \A n \in DOMAIN enum : DOMAIN enum[n] = {"text"}

\* They are counted from the first one on.
LEMMA EnumTexts ==
    ASSUME NEW first \in {0, 1}, NEW texts, Len(texts) \in 0..7
    PROVE  EnumOk(EnumOf(first, texts))
  <1> DEFINE size == Len(texts)
             numbers == first..(first + size - 1)
             Entry(n) == [text |-> texts[n - first + 1]]
  <1>1. numbers \subseteq 0..7
    <2>1. size \in 0..7
      OBVIOUS
    <2> HIDE DEF size
    <2> QED BY <2>1
  <1>2. \A n : DOMAIN Entry(n) = {"text"}
    <2>1. \A t : DOMAIN [text |-> t] = {"text"}
      OBVIOUS
    <2> QED BY <2>1, Zenon
  <1> HIDE DEF numbers, Entry
  <1>3. EnumOk([n \in numbers |-> Entry(n)])
    BY <1>1, <1>2 DEF EnumOk
  <1> QED BY <1>3 DEF EnumOf, size, numbers, Entry

\* The texts of a list.
Listed(texts, options) ==
    Len(texts) \in 0..7 /\ options = {texts[i] : i \in 1..Len(texts)}

\* The values of an enum.
ValuesOf(enum) == {enum[n] : n \in DOMAIN enum}

\* They are its texts.
LEMMA EnumValues ==
    ASSUME NEW first \in {0, 1}, NEW texts, NEW options,
           Listed(texts, options)
    PROVE  ValuesOf(EnumOf(first, texts)) = [text : options]
  <1> DEFINE size == Len(texts)
             numbers == first..(first + size - 1)
             V == {[text |-> texts[n - first + 1]] : n \in numbers}
  <1>1. size \in 0..7 /\ options = {texts[i] : i \in 1..size}
    BY DEF Listed
  <1>2. ValuesOf(EnumOf(first, texts)) = V
    BY DEF EnumOf, ValuesOf
  <1> HIDE DEF size
  <1>3. V \subseteq [text : options]
    BY <1>1
  <1>4. ASSUME NEW v \in [text : options] PROVE v \in V
    <2>1. PICK i \in 1..size : v.text = texts[i]
      BY <1>1
    <2>2. v = [text |-> texts[i]]
      BY <2>1
    <2>3. first + i - 1 \in numbers /\ (first + i - 1) - first + 1 = i
      BY <1>1
    <2> QED BY <2>2, <2>3
  <1> QED BY <1>2, <1>3, <1>4

\* Two of them.
LEMMA TwoTexts == \A a, b : Listed(<<a, b>>, {a, b})
  BY DEF Listed

\* Three of them.
LEMMA ThreeTexts == \A a, b, c : Listed(<<a, b, c>>, {a, b, c})
  BY DEF Listed

\* Four of them.
LEMMA FourTexts == \A a, b, c, d : Listed(<<a, b, c, d>>, {a, b, c, d})
  BY DEF Listed

\* Five of them.
LEMMA FiveTexts == \A a, b, c, d, e : Listed(<<a, b, c, d, e>>, {a, b, c, d, e})
  BY DEF Listed

\* Seven of them.
LEMMA SevenTexts == \A a, b, c, d, e, f, g : Listed(<<a, b, c, d, e, f, g>>, {a, b, c, d, e, f, g})
  BY DEF Listed

\* A select entity offers the values of its enum.
Offers(k) == ValuesOf(enums[holdingByKey[k].Read]) = [text : selectOptions[k]]

\* It does if it lists the texts of it.
LEMMA Offering ==
    ASSUME NEW k, NEW first \in {0, 1}, NEW texts,
           enums[holdingByKey[k].Read] = EnumOf(first, texts),
           Listed(texts, selectOptions[k])
    PROVE  EnumOk(enums[holdingByKey[k].Read]) /\ Offers(k)
  <1>1. EnumOk(enums[holdingByKey[k].Read])
    BY EnumTexts DEF Listed
  <1>2. Offers(k)
    BY EnumValues DEF Offers
  <1> QED BY <1>1, <1>2

\* All of them do.
LEMMA Enums ==
    ASSUME NEW k \in EnumKeys
    PROVE  EnumOk(enums[holdingByKey[k].Read]) /\ Offers(k)
  <1>0. 0 \in {0, 1} /\ 1 \in {0, 1}
    OBVIOUS
  <1>1. CASE k = "OutputConfig"
    <2> DEFINE texts == <<"SBU", "SOL", "UTI", "SUB">>
    <2>1. holdingByKey[k].Read = "outputConfig"
      BY <1>1 DEF holdingByKey, Select, Def
    <2>2. enums["outputConfig"] = EnumOf(0, texts)
      BY Zenon DEF enums
    <2>3. Listed(texts, selectOptions[k])
      BY <1>1, FourTexts, Zenon DEF selectOptions
    <2> QED BY <1>0, <2>1, <2>2, <2>3, Offering, Zenon
  <1>2. CASE k = "ChargeConfig"
    <2> DEFINE texts == <<"PV First", "PV&UTI", "PV Only">>
    <2>1. holdingByKey[k].Read = "chargeConfig"
      BY <1>2 DEF holdingByKey, Select, Def
    <2>2. enums["chargeConfig"] = EnumOf(0, texts)
      BY Zenon DEF enums
    <2>3. Listed(texts, selectOptions[k])
      BY <1>2, ThreeTexts, Zenon DEF selectOptions
    <2> QED BY <1>0, <2>1, <2>2, <2>3, Offering, Zenon
  <1>3. CASE k = "PVModel"
    <2> DEFINE texts == <<"Independent", "Parallel">>
    <2>1. holdingByKey[k].Read = "pvModel"
      BY <1>3 DEF holdingByKey, Select, Def
    <2>2. enums["pvModel"] = EnumOf(0, texts)
      BY Zenon DEF enums
    <2>3. Listed(texts, selectOptions[k])
      BY <1>3, TwoTexts, Zenon DEF selectOptions
    <2> QED BY <1>0, <2>1, <2>2, <2>3, Offering, Zenon
  <1>4. CASE k = "ACInModel"
    <2> DEFINE texts == <<"APL", "UPS", "GEN">>
    <2>1. holdingByKey[k].Read = "acInModel"
      BY <1>4 DEF holdingByKey, Select, Def
    <2>2. enums["acInModel"] = EnumOf(0, texts)
      BY Zenon DEF enums
    <2>3. Listed(texts, selectOptions[k])
      BY <1>4, ThreeTexts, Zenon DEF selectOptions
    <2> QED BY <1>0, <2>1, <2>2, <2>3, Offering, Zenon
  <1>5. CASE k = "OutputVoltType"
    <2> DEFINE texts == <<"208VAC", "230VAC", "240VAC",
                         "220VAC", "100VAC", "110VAC", "120VAC">>
    <2>1. holdingByKey[k].Read = "outputVoltType"
      BY <1>5 DEF holdingByKey, Select, Def
    <2>2. enums["outputVoltType"] = EnumOf(0, texts)
      BY Zenon DEF enums
    <2>3. Listed(texts, selectOptions[k])
      BY <1>5, SevenTexts, Zenon DEF selectOptions
    <2> QED BY <1>0, <2>1, <2>2, <2>3, Offering, Zenon
  <1>6. CASE k = "OutputFreqType"
    <2> DEFINE texts == <<"50Hz", "60Hz">>
    <2>1. holdingByKey[k].Read = "outputFreqType"
      BY <1>6 DEF holdingByKey, Select, Def
    <2>2. enums["outputFreqType"] = EnumOf(0, texts)
      BY Zenon DEF enums
    <2>3. Listed(texts, selectOptions[k])
      BY <1>6, TwoTexts, Zenon DEF selectOptions
    <2> QED BY <1>0, <2>1, <2>2, <2>3, Offering, Zenon
  <1>7. CASE k = "OverLoadRestart"
    <2> DEFINE texts == <<"Yes", "No", "Switch to UTI">>
    <2>1. holdingByKey[k].Read = "overLoadRestart"
      BY <1>7 DEF holdingByKey, Select, Def
    <2>2. enums["overLoadRestart"] = EnumOf(0, texts)
      BY Zenon DEF enums
    <2>3. Listed(texts, selectOptions[k])
      BY <1>7, ThreeTexts, Zenon DEF selectOptions
    <2> QED BY <1>0, <2>1, <2>2, <2>3, Offering, Zenon
  <1>8. CASE k = "BatteryType"
    <2> DEFINE texts == <<"AGM", "FLD", "USE", "Lithium", "USE2">>
    <2>1. holdingByKey[k].Read = "batteryType"
      BY <1>8 DEF holdingByKey, Select, Def
    <2>2. enums["batteryType"] = EnumOf(0, texts)
      BY Zenon DEF enums
    <2>3. Listed(texts, selectOptions[k])
      BY <1>8, FiveTexts, Zenon DEF selectOptions
    <2> QED BY <1>0, <2>1, <2>2, <2>3, Offering, Zenon
  <1>9. CASE k = "AgingMode"
    <2> DEFINE texts == <<"Normal", "Aging">>
    <2>1. holdingByKey[k].Read = "agingMode"
      BY <1>9 DEF holdingByKey, Select, Def
    <2>2. enums["agingMode"] = EnumOf(0, texts)
      BY Zenon DEF enums
    <2>3. Listed(texts, selectOptions[k])
      BY <1>9, TwoTexts, Zenon DEF selectOptions
    <2> QED BY <1>0, <2>1, <2>2, <2>3, Offering, Zenon
  <1>10. CASE k = "SafetyType"
    <2> DEFINE texts == <<"Standard", "ETL", "AS4777", "CQC", "VDE4105">>
    <2>1. holdingByKey[k].Read = "safetyType"
      BY <1>10 DEF holdingByKey, Select, Def
    <2>2. enums["safetyType"] = EnumOf(1, texts)
      BY Zenon DEF enums
    <2>3. Listed(texts, selectOptions[k])
      BY <1>10, FiveTexts, Zenon DEF selectOptions
    <2> QED BY <1>0, <2>1, <2>2, <2>3, Offering, Zenon
  <1> QED
    BY <1>1, <1>2, <1>3, <1>4, <1>5, <1>6, <1>7, <1>8, <1>9, <1>10
       DEF EnumKeys

\* The other conversions are no enums.
LEMMA NoEnums == {"identity", "scaled", "asBool"} \cap DOMAIN enums = {}
  BY DEF enums

-----------------------------------------------------------------------------
(* The read requests.                                                      *)

\* The holding registers are the words from 0 to 107.
LEMMA HoldingWindow ==
    buildRegisterWindow(holdingRegisters) = [Start |-> 0, Count |-> 108]
  <1> DEFINE starts == {d.Start : d \in holdingRegisters}
             ends == {LastWord(d) : d \in holdingRegisters}
  <1>0. ASSUME NEW d \in holdingRegisters
        PROVE  d.Start \in Int /\ d.Length \in Int /\ 0 <= d.Start
               /\ d.Start + d.Length - 1 <= 107
    BY DEF holdingRegisters
  <1>a. [Start |-> 0, Length |-> 1] \in holdingRegisters
    BY DEF holdingRegisters
  <1>b. [Start |-> 107, Length |-> 1] \in holdingRegisters
    BY DEF holdingRegisters
  <1>1. 0 \in starts /\ \A a \in starts : a \in Int /\ 0 <= a
    <2>1. [Start |-> 0, Length |-> 1].Start = 0
      OBVIOUS
    <2>2. 0 \in starts
      BY <1>a, <2>1
    <2>3. \A a \in starts : a \in Int /\ 0 <= a
      BY <1>0
    <2> QED BY <2>2, <2>3
  <1>2. 107 \in ends /\ \A a \in ends : a \in Int /\ a <= 107
    BY <1>0, <1>b DEF LastWord
  <1>3. Min(starts) = 0
    BY <1>1 DEF Min
  <1>4. Max(ends) = 107
    BY <1>2 DEF Max
  <1> QED BY <1>3, <1>4 DEF buildRegisterWindow

\* Every word is in a request.
LEMMA WordsRead ==
    ASSUME NEW a \in 0..107
    PROVE  \E w \in holdingRegisterWindows : InWindow(a, w)
  <1> DEFINE W(c) == [Start |-> c, Count |-> Min({45, 107 - c + 1})]
  <1>1. holdingRegisterWindows = {W(c) : c \in {b \in 0..107 : b % 45 = 0}}
    BY HoldingWindow DEF holdingRegisterWindows, buildRegisterWindows,
       maxHoldingReadRegisters
  <1>2. PICK c \in {0, 45, 90} : c <= a /\ a < c + 45
    OBVIOUS
  <1>3. c \in {b \in 0..107 : b % 45 = 0}
    OBVIOUS
  <1>4. Min({45, 107 - c + 1}) \in {45, 107 - c + 1}
    BY DEF Min
  <1>5. InWindow(a, W(c))
    BY <1>2, <1>4 DEF InWindow
  <1>6. W(c) \in holdingRegisterWindows
    BY <1>1, <1>3
  <1> QED BY <1>5, <1>6

-----------------------------------------------------------------------------
(* Conversions.                                                            *)

\* What the proofs need to know of the size of a word.
LEMMA WordSizeIs ==
    WordSize \in Nat \ {0} /\ WordSize - 1 = 65535 /\ WordSize ^ (1 - 1) = 1
  <1>1. WordSize \in Nat \ {0} /\ WordSize - 1 = 65535
    BY DEF WordSize
  <1>2. WordSize ^ (1 - 1) = 1
    BY DEF WordSize
  <1> QED BY <1>1, <1>2

\* A register of one unsigned word holds what fits, and gives it back.
LEMMA WordCodec ==
    ASSUME NEW d, d.Length = 1, d.Type = "uint", NEW n \in Int,
           NEW words \in encodeRawValue(n, d)
    PROVE  n \in 0..(WordSize - 1) /\ decodeRegisterValue(words, d) = n
  <1>1. WordSize ^ (1 - 1) = 1 /\ WordSize \in Nat \ {0}
    BY WordSizeIs
  <1>2. n \div 1 = n
    OBVIOUS
  <1>3. Fits(n, d) /\ words = [i \in 1..1 |->
                                  (n \div WordSize ^ (1 - i)) % WordSize]
    BY DEF encodeRawValue
  <1>4. n \in 0..(WordSize - 1)
    BY <1>1, <1>2, <1>3 DEF Fits
  <1>5. words[1] = n % WordSize
    BY <1>1, <1>2, <1>3
  <1>6. n % WordSize = n
    BY <1>1, <1>4
  <1> QED BY <1>4, <1>5, <1>6 DEF decodeRegisterValue

\* A register of one unsigned word takes any number of that size.
LEMMA WordFits ==
    ASSUME NEW d, d.Length = 1, d.Type = "uint", NEW n \in 0..(WordSize - 1)
    PROVE  encodeRawValue(n, d) # {}
  <1>1. WordSize ^ (1 - 1) = 1 /\ WordSize \in Nat
    BY WordSizeIs
  <1>2. n \div 1 = n
    OBVIOUS
  <1> QED BY <1>1, <1>2 DEF encodeRawValue, Fits

\* The Go values a command can have.
Parsed(value) == \/ \E t : value = [text |-> t]
                 \/ \E b \in BOOLEAN : value = [bool |-> b]
                 \/ \E n \in Int : value = [number |-> n]

\* A payload has such a value.
LEMMA ParsedValues ==
    ASSUME NEW payload, NEW value \in parseMQTTCommandValue(payload)
    PROVE  Parsed(value)
  BY NumeralAssumption DEF parseMQTTCommandValue, Parsed

\* What a value is.
LEMMA ValueTypes ==
    /\ \A t : LET v == [text |-> t]
              IN  Is(v, "text") /\ ~Is(v, "bool") /\ ~Is(v, "number")
    /\ \A b : LET v == [bool |-> b]
              IN  Is(v, "bool") /\ ~Is(v, "text") /\ ~Is(v, "number")
    /\ \A n : LET v == [number |-> n]
              IN  Is(v, "number") /\ ~Is(v, "text") /\ ~Is(v, "bool")
  BY DEF Is

\* Its number, if it has one.
LEMMA ValueNumbers ==
    ASSUME NEW value, Parsed(value), NEW n \in asFloat64(value)
    PROVE  n \in Int
  <1>1. CASE \E t : value = [text |-> t]
    BY <1>1, ValueTypes, NumeralAssumption DEF asFloat64
  <1>2. CASE \E b \in BOOLEAN : value = [bool |-> b]
    BY <1>2, ValueTypes DEF asFloat64
  <1>3. CASE \E m \in Int : value = [number |-> m]
    BY <1>3, ValueTypes DEF asFloat64
  <1> QED BY <1>1, <1>2, <1>3 DEF Parsed

\* A whole number is written as it is.
LEMMA WholeNumbers ==
    ASSUME NEW value, Parsed(value), NEW n \in asInt64(value)
    PROVE  n \in Int /\ 100 * n \in asFloat64(value)
  <1>1. PICK m \in asFloat64(value) : m % 100 = 0 /\ n = m \div 100
    BY DEF asInt64
  <1>2. m \in Int
    BY <1>1, ValueNumbers
  <1> QED BY <1>1, <1>2

\* Rounding to tenths is half a tenth off at most.
LEMMA Rounding ==
    ASSUME NEW n \in Int
    PROVE  Tenths(n) \in Int /\ 10 * Tenths(n) - n \in -5..5
  BY DEF Tenths

\* A text is not both on and off.
LEMMA OneBool ==
    ASSUME NEW value, Parsed(value), NEW b \in parseBool(value)
    PROVE  b \in BOOLEAN /\ parseBool(value) = {b}
  <1>1. CASE \E t : value = [text |-> t]
    BY <1>1, ValueTypes DEF parseBool
  <1>2. CASE \E c \in BOOLEAN : value = [bool |-> c]
    BY <1>2, ValueTypes DEF parseBool
  <1>3. CASE \E m \in Int : value = [number |-> m]
    BY <1>3, ValueTypes DEF parseBool
  <1> QED BY <1>1, <1>2, <1>3 DEF Parsed

-----------------------------------------------------------------------------
(* The limits of numbers.                                                  *)

\* The registers that are number entities.
LEMMA NumberKeys ==
    ASSUME NEW k
    PROVE  isWritableNumberRegister(k) <=> k \in IntKeys \cup ScaleKeys
  <1>1. DOMAIN selectOptions = EnumKeys
    BY Zenon DEF selectOptions, EnumKeys
  <1>2. \A j \in IntKeys \cup ScaleKeys :
            /\ holdingByKey[j].Write # "nil"
            /\ j \notin EnumKeys \cup booleanKeys
    BY IntTable, ScaleTable DEF IntKeys, ScaleKeys, EnumKeys, booleanKeys
  <1>3. BoolKeys \cup {"OverTempRestart"} = booleanKeys
    BY DEF BoolKeys, booleanKeys
  <1> QED
    BY <1>1, <1>2, <1>3, Kinds, NilTable DEF isWritableNumberRegister

\* The least and the greatest of one number, and of two.
LEMMA LeastOfOne == \A x \in Int : Min({x}) = x /\ Max({x}) = x
  BY DEF Min, Max

\* Of two.
LEMMA LeastOfTwo ==
    ASSUME NEW x \in Int, NEW y \in Int
    PROVE  /\ Min({x, y}) = IF x <= y THEN x ELSE y
           /\ Max({x, y}) = IF x <= y THEN y ELSE x
  BY DEF Min, Max

\* A charge current has a nominal maximum.
Nominals(k) == {discoveryNominalMaxRegisters[j] :
                    j \in {k} \cap DOMAIN discoveryNominalMaxRegisters}

\* What widens its limits.
Widening(k, config) ==
    {config[k].number : n \in {m \in Nominals(k) :
                                  /\ {k, m} \subseteq DOMAIN config
                                  /\ config[k].number <= config[m].number}}

\* The maximum of BulkChargeVolt, for FloatChargeVolt.
BulkMax(k, battery) ==
    {baseNumberLimits("BulkChargeVolt", battery).Max : j \in {k} \cap {"FloatChargeVolt"}}

\* The limits are made of these.
LEMMA LimitsOf ==
    ASSUME NEW k, NEW config, NEW battery
    PROVE  LET base == baseNumberLimits(k, battery)
           IN  discoveryNumberLimits(k, config, battery) =
                   [Min |-> Min({base.Min} \cup Widening(k, config)),
                    Max |-> Max({base.Max} \cup Widening(k, config)
                                \cup BulkMax(k, battery))]
  BY DEF discoveryNumberLimits, Widening, Nominals, BulkMax

\* Limits that are whole numbers.
Whole(limits) ==
    \E a, b \in 0..100 : limits = [Min |-> 100 * a, Max |-> 100 * b]

\* Limits from zero on, widened.
Tops == {n \in Nat : n <= 6553500}
UpTo(top, widening) ==
    [Min |-> Min({0} \cup widening), Max |-> Max({top} \cup widening)]
Widened(k, battery, top) ==
    \A config : discoveryNumberLimits(k, config, battery) = UpTo(top, Widening(k, config))

\* The limits of a number of tenths are whole ones.
LEMMA ScaleLimits ==
    ASSUME NEW k \in ScaleKeys, NEW config, NEW battery
    PROVE  Whole(discoveryNumberLimits(k, config, battery))
  <1> DEFINE base == baseNumberLimits(k, battery)
  <1>1. Widening(k, config) = {}
    BY DEF Widening, Nominals, ScaleKeys, discoveryNominalMaxRegisters
  <1>2. PICK a, b \in 0..100 : base = [Min |-> 100 * a, Max |-> 100 * b]
    <2>1. \/ base = Limits(5, 100) \/ base = Limits(20, 64)
          \/ base = Limits(50, 64) \/ base = Limits(50, 56)
      BY DEF ScaleKeys, baseNumberLimits, configNumberLimits
    <2>2. \A a, b : Limits(a, b) = [Min |-> 100 * a, Max |-> 100 * b]
      BY DEF Limits
    <2>3. 5 \in 0..100 /\ 20 \in 0..100 /\ 50 \in 0..100 /\ 56 \in 0..100
          /\ 64 \in 0..100 /\ 100 \in 0..100
      OBVIOUS
    <2> QED BY <2>1, <2>2, <2>3, ZenonT(60)
  <1>3. BulkMax(k, battery) \in {{}, {6400}}
    BY DEF BulkMax, baseNumberLimits, configNumberLimits, Limits
  <1>4. Min({base.Min} \cup Widening(k, config)) = 100 * a
    BY <1>1, <1>2, LeastOfOne
  <1>5. Max({100 * b} \cup BulkMax(k, battery)) \in {100 * b, 100 * 64}
    <2>1. CASE BulkMax(k, battery) = {}
      BY <2>1, LeastOfOne
    <2>2. CASE BulkMax(k, battery) = {6400}
      BY <2>2, LeastOfTwo
    <2> QED BY <1>3, <2>1, <2>2
  <1>6. PICK c \in {b, 64} :
            Max({base.Max} \cup Widening(k, config) \cup BulkMax(k, battery)) = 100 * c
    BY <1>1, <1>2, <1>5
  <1>7. discoveryNumberLimits(k, config, battery) = [Min |-> 100 * a, Max |-> 100 * c]
    BY <1>4, <1>6, LimitsOf
  <1>8. c \in 0..100
    BY <1>6
  <1> QED BY <1>7, <1>8, ZenonT(60) DEF Whole

\* Those of a whole number begin at zero unless the config widens them.
LEMMA IntLimits ==
    ASSUME NEW k \in IntKeys, NEW battery
    PROVE  \E top \in Tops : Widened(k, battery, top)
  <1>1. PICK top \in Tops : baseNumberLimits(k, battery) = [Min |-> 0, Max |-> top]
    <2> DEFINE Top(b) == baseNumberLimits(k, battery) = Limits(0, b)
    <2>1. k = "UtiOutStart" => Top(23)
      BY DEF baseNumberLimits, configNumberLimits
    <2>2. k = "MaxChargeAmps" => Top(180)
      BY DEF baseNumberLimits, configNumberLimits
    <2>3. k = "ACChargeAmps" => Top(80)
      BY DEF baseNumberLimits, configNumberLimits
    <2>4. k = "FlashStart" => Top(65535)
      BY DEF baseNumberLimits, configNumberLimits
    <2>5. \A b : Limits(0, b) = [Min |-> 0, Max |-> 100 * b]
      <3>1. 100 * 0 = 0
        OBVIOUS
      <3> QED BY <3>1, Zenon DEF Limits
    <2> HIDE DEF Top
    <2>6. PICK b \in {23, 80, 180, 65535} : Top(b)
      BY <2>1, <2>2, <2>3, <2>4 DEF IntKeys
    <2>7. baseNumberLimits(k, battery) = [Min |-> 0, Max |-> 100 * b]
      BY <2>5, <2>6 DEF Top
    <2>8. 100 * b \in Tops
      BY <2>6 DEF Tops
    <2> QED BY <2>7, <2>8
  <1>2. BulkMax(k, battery) = {}
    BY DEF BulkMax, IntKeys
  <1>a. baseNumberLimits(k, battery).Min = 0 /\ baseNumberLimits(k, battery).Max = top
    BY <1>1
  <1>3. ASSUME NEW config
        PROVE  discoveryNumberLimits(k, config, battery) = UpTo(top, Widening(k, config))
    <2> DEFINE W == Widening(k, config)
    <2>1. {top} \cup W \cup BulkMax(k, battery) = {top} \cup W
      BY <1>2
    <2> QED BY <1>a, <2>1, LimitsOf, Zenon DEF UpTo
  <1>5. Widened(k, battery, top)
    BY <1>3, Zenon DEF Widened
  <1> QED BY <1>5

\* Within limits that nothing widens.
LEMMA WithinNone ==
    ASSUME NEW n \in Int, NEW top \in Int
    PROVE  Within(n, UpTo(top, {})) <=> (0 <= n /\ n <= top)
  BY LeastOfOne DEF Within, UpTo

\* Within limits that a number widens.
LEMMA WithinOne ==
    ASSUME NEW n \in Int, NEW top \in Int, NEW c \in Int
    PROVE  Within(n, UpTo(top, {c})) <=> /\ (0 <= n \/ c <= n)
                                         /\ (n <= top \/ n <= c)
  <1>1. {0} \cup {c} = {0, c} /\ {top} \cup {c} = {top, c}
    OBVIOUS
  <1>2. UpTo(top, {c}).Min = Min({0, c}) /\ UpTo(top, {c}).Max = Max({top, c})
    BY <1>1 DEF UpTo
  <1>3. Min({0, c}) = IF 0 <= c THEN 0 ELSE c
    BY LeastOfTwo
  <1>4. Max({top, c}) = IF top <= c THEN c ELSE top
    BY LeastOfTwo
  <1> QED BY <1>2, <1>3, <1>4 DEF Within

\* Rounding to tenths keeps whole limits.
LEMMA RoundingWithin ==
    ASSUME NEW n \in Int, NEW a \in Nat, NEW b \in Nat, 100 * a <= n, n <= 100 * b
    PROVE  100 * a <= 10 * Tenths(n) /\ 10 * Tenths(n) <= 100 * b
  BY DEF Tenths

\* What is encoded is as long as the register, and is a number again.
LEMMA Encoded ==
    ASSUME NEW d, d.Length \in {1, 2}, NEW n \in Int,
           NEW words \in encodeRawValue(n, d)
    PROVE  /\ Len(words) = d.Length
           /\ decodeRegisterValue(words, d) \in Int
  <1> DEFINE Word(i) == (n \div WordSize ^ (d.Length - i)) % WordSize
  <1>0. WordSize \in Nat \ {0} /\ Half \in Nat
    BY DEF WordSize, Half
  <1>1. words = [i \in 1..d.Length |-> Word(i)]
    BY DEF encodeRawValue
  <1>2. \A i \in 1..d.Length : Word(i) \in Int
    <2> HIDE DEF WordSize, Half
    <2>1. WordSize ^ 0 = 1 /\ WordSize ^ 1 = WordSize
      BY DEF WordSize
    <2>2. \A i \in 1..d.Length : d.Length - i \in {0, 1}
      OBVIOUS
    <2>3. \A e \in {0, 1} : WordSize ^ e \in Nat \ {0}
      BY <1>0, <2>1
    <2>4. \A e \in {0, 1} : (n \div WordSize ^ e) % WordSize \in Int
      BY <1>0, <2>3
    <2> QED BY <2>2, <2>4
  <1> HIDE DEF Word, WordSize, Half
  <1>3. Len(words) = d.Length
    BY <1>1
  <1>4. words[1] \in Int
    BY <1>1, <1>2
  <1>5. d.Length = 2 => words[2] \in Int
    BY <1>1, <1>2
  <1> QED BY <1>0, <1>3, <1>4, <1>5 DEF decodeRegisterValue

\* What is written is a number.
LEMMA WriteNumbers ==
    ASSUME NEW k \in DOMAIN holdingByKey, NEW value, Parsed(value),
           NEW n \in Write(holdingByKey[k], value)
    PROVE  n \in Int
  <1>1. CASE k \in IntKeys
    BY <1>1, IntTable, WholeNumbers DEF Write
  <1>2. CASE k \in ScaleKeys
    BY <1>2, ScaleTable, ValueNumbers, Rounding DEF Write
  <1>3. CASE k \in BoolKeys
    BY <1>3, BoolTable DEF Write, Bit
  <1>4. CASE k \in EnumKeys
    BY <1>4, EnumTable, Enums DEF Write, reverseEnum, EnumOk
  <1>5. CASE k = "OverTempRestart"
    BY <1>5, OverTempTable DEF Write, overTempWrite, Bit
  <1>6. CASE k \in NilKeys
    BY <1>6, NilTable DEF Write
  <1> QED BY <1>1, <1>2, <1>3, <1>4, <1>5, <1>6, Kinds

\* The nominal maxima are whole numbers.
LEMMA NominalTable ==
    ASSUME NEW k, NEW m \in Nominals(k)
    PROVE  /\ k \in IntKeys /\ m \in DOMAIN holdingByKey /\ m # k
           /\ holdingByKey[m].Read = "identity" /\ Nominals(k) = {m}
  BY DEF Nominals, discoveryNominalMaxRegisters, IntKeys, holdingByKey, Def

-----------------------------------------------------------------------------
(* The requests as they are.                                               *)

\* The request for the input registers.
LEMMA InputWindow == inputRegisterWindow = [Start |-> 0, Count |-> 89]
  <1> DEFINE starts == {d.Start : d \in inputRegisters}
             ends == {LastWord(d) : d \in inputRegisters}
  <1>0. ASSUME NEW d \in inputRegisters
        PROVE  d.Start \in Int /\ d.Length \in Int /\ 0 <= d.Start
               /\ d.Start + d.Length - 1 <= 88
    BY DEF inputRegisters
  <1>a. [Start |-> 0, Length |-> 1] \in inputRegisters
    BY DEF inputRegisters
  <1>b. [Start |-> 87, Length |-> 2] \in inputRegisters
    BY DEF inputRegisters
  <1>1. 0 \in starts /\ \A a \in starts : a \in Int /\ 0 <= a
    <2>1. [Start |-> 0, Length |-> 1].Start = 0
      OBVIOUS
    <2>2. 0 \in starts
      BY <1>a, <2>1
    <2>3. \A a \in starts : a \in Int /\ 0 <= a
      BY <1>0
    <2> QED BY <2>2, <2>3
  <1>2. 88 \in ends /\ \A a \in ends : a \in Int /\ a <= 88
    BY <1>0, <1>b DEF LastWord
  <1>3. Min(starts) = 0
    BY <1>1 DEF Min
  <1>4. Max(ends) = 88
    BY <1>2 DEF Max
  <1> QED BY <1>3, <1>4 DEF inputRegisterWindow, buildRegisterWindow

\* It serves all of them.
LEMMA InputServed ==
    ASSUME NEW d \in inputRegisters
    PROVE  /\ InWindow(d.Start, inputRegisterWindow)
           /\ InWindow(LastWord(d), inputRegisterWindow)
  <1>1. d.Start \in Int /\ d.Length \in Int /\ 0 <= d.Start /\ 1 <= d.Length
        /\ d.Start + d.Length - 1 <= 88
    BY DEF inputRegisters
  <1> QED BY <1>1, InputWindow DEF InWindow, LastWord

\* The requests for the holding registers.
LEMMA HoldingWindows ==
    holdingRegisterWindows = {[Start |-> 0, Count |-> 45], [Start |-> 45, Count |-> 45],
                              [Start |-> 90, Count |-> 18]}
  <1> DEFINE W(c) == [Start |-> c, Count |-> Min({45, 107 - c + 1})]
             S == {b \in 0..107 : b % 45 = 0}
  <1>1. holdingRegisterWindows = {W(c) : c \in S}
    <2> DEFINE window == buildRegisterWindow(holdingRegisters)
    <2>1. window.Start = 0 /\ window.Start + window.Count - 1 = 107
      BY HoldingWindow
    <2> HIDE DEF window
    <2> DEFINE Cut(start, last) ==
                   {[Start |-> c, Count |-> Min({45, last - c + 1})] :
                    c \in {b \in start..last : (b - start) % 45 = 0}}
    <2>2. holdingRegisterWindows
              = Cut(window.Start, window.Start + window.Count - 1)
      BY DEF holdingRegisterWindows, buildRegisterWindows,
         maxHoldingReadRegisters, window
    <2>3. {b \in 0..107 : (b - 0) % 45 = 0} = S
      OBVIOUS
    <2>4. Cut(0, 107) = {W(c) : c \in S}
      <3> HIDE DEF S
      <3> QED BY <2>3
    <2> HIDE DEF Cut, W, S
    <2> QED BY <2>1, <2>2, <2>4
  <1>2. S = {0, 45, 90}
    OBVIOUS
  <1>3. Min({45, 108}) = 45 /\ Min({45, 63}) = 45 /\ Min({45, 18}) = 18
    BY LeastOfTwo
  <1>4. W(0) = [Start |-> 0, Count |-> 45] /\ W(45) = [Start |-> 45, Count |-> 45]
        /\ W(90) = [Start |-> 90, Count |-> 18]
    <2>1. 107 - 0 + 1 = 108 /\ 107 - 45 + 1 = 63 /\ 107 - 90 + 1 = 18
      OBVIOUS
    <2> QED BY <1>3, <2>1
  <1> HIDE DEF W, S
  <1>5. holdingRegisterWindows = {W(0), W(45), W(90)}
    BY <1>1, <1>2
  <1> QED BY <1>4, <1>5

\* No definition lies across two of them.
LEMMA HoldingServed ==
    ASSUME NEW d \in holdingRegisters
    PROVE  \E w \in holdingRegisterWindows :
               \A a \in d.Start..LastWord(d) : \A v \in holdingRegisterWindows :
                   InWindow(a, v) <=> v = w
  <1> DEFINE w1 == [Start |-> 0, Count |-> 45]
             w2 == [Start |-> 45, Count |-> 45]
             w3 == [Start |-> 90, Count |-> 18]
  <1>1. d.Start \in Int /\ LastWord(d) \in Int
        /\ \/ 0 <= d.Start /\ LastWord(d) <= 44
           \/ 45 <= d.Start /\ LastWord(d) <= 89
           \/ 90 <= d.Start /\ LastWord(d) <= 107
    BY DEF holdingRegisters, LastWord
  <1>2. \A a \in Int : /\ InWindow(a, w1) <=> (0 <= a /\ a <= 44)
                       /\ InWindow(a, w2) <=> (45 <= a /\ a <= 89)
                       /\ InWindow(a, w3) <=> (90 <= a /\ a <= 107)
    BY DEF InWindow
  <1>3. w1.Start = 0 /\ w2.Start = 45 /\ w3.Start = 90
    OBVIOUS
  <1>4. w1 # w2 /\ w1 # w3 /\ w2 # w3
    BY <1>3
  <1>5. holdingRegisterWindows = {w1, w2, w3}
    BY HoldingWindows
  <1>6. \A a \in d.Start..LastWord(d) :
            a \in Int /\ d.Start <= a /\ a <= LastWord(d)
    BY <1>1
  <1> HIDE DEF w1, w2, w3
  <1>7. CASE 0 <= d.Start /\ LastWord(d) <= 44
    <2>1. \A a \in d.Start..LastWord(d) : \A v \in {w1, w2, w3} : InWindow(a, v) <=> v = w1
      BY <1>1, <1>2, <1>4, <1>6, <1>7
    <2> QED BY <1>5, <2>1
  <1>8. CASE 45 <= d.Start /\ LastWord(d) <= 89
    <2>1. \A a \in d.Start..LastWord(d) : \A v \in {w1, w2, w3} : InWindow(a, v) <=> v = w2
      BY <1>1, <1>2, <1>4, <1>6, <1>8
    <2> QED BY <1>5, <2>1
  <1>9. CASE 90 <= d.Start /\ LastWord(d) <= 107
    <2>1. \A a \in d.Start..LastWord(d) : \A v \in {w1, w2, w3} : InWindow(a, v) <=> v = w3
      BY <1>1, <1>2, <1>4, <1>6, <1>9
    <2> QED BY <1>5, <2>1
  <1> QED BY <1>1, <1>7, <1>8, <1>9

=============================================================================
