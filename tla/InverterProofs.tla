--------------------------- MODULE InverterProofs ---------------------------
(* Proofs about Inverter, for every set of registers and every payload.    *)
EXTENDS Inverter, RegistersProofs, SequenceTheorems, TLAPS

-----------------------------------------------------------------------------
(* What is written means what was asked, whatever the payload.             *)

\* Whole numbers.
LEMMA IntMeaning ==
    ASSUME NEW k \in IntKeys, NEW value, Parsed(value),
           NEW words \in Encode(k, value)
    PROVE  \E v \in Decode(k, words) : Means(v, value)
  <1> DEFINE d == holdingByKey[k]
  <1>1. PICK n \in Write(d, value) : words \in encodeRawValue(n, d)
    BY DEF Encode
  <1>2. n \in asInt64(value)
    BY <1>1, IntTable DEF Write
  <1>3. n \in Int /\ 100 * n \in asFloat64(value)
    BY <1>2, WholeNumbers
  <1>4. decodeRegisterValue(words, d) = n
    BY <1>1, <1>3, IntTable, WordCodec
  <1>5. Decode(k, words) = {[number |-> 100 * n]}
    BY <1>4, IntTable, NoEnums DEF Decode, Read
  <1>6. Means([number |-> 100 * n], value)
    <2>1. 100 * n - 100 * n \in -5..5
      BY <1>3
    <2> QED BY <1>3, <2>1, ValueTypes DEF Means
  <1> QED BY <1>5, <1>6

\* Numbers of tenths.
LEMMA ScaleMeaning ==
    ASSUME NEW k \in ScaleKeys, NEW value, Parsed(value),
           NEW words \in Encode(k, value)
    PROVE  \E v \in Decode(k, words) : Means(v, value)
  <1> DEFINE d == holdingByKey[k]
  <1>1. PICK n \in Write(d, value) : words \in encodeRawValue(n, d)
    BY DEF Encode
  <1>2. PICK m \in asFloat64(value) : n = Tenths(m)
    BY <1>1, ScaleTable DEF Write
  <1>3. n \in Int /\ 10 * n - m \in -5..5
    BY <1>2, ValueNumbers, Rounding
  <1>4. decodeRegisterValue(words, d) = n
    BY <1>1, <1>3, ScaleTable, WordCodec
  <1>5. Decode(k, words) = {[number |-> 10 * n]}
    BY <1>4, ScaleTable, NoEnums DEF Decode, Read
  <1>6. Means([number |-> 10 * n], value)
    BY <1>2, <1>3, ValueTypes DEF Means
  <1> QED BY <1>5, <1>6

\* Switches.
LEMMA BoolMeaning ==
    ASSUME NEW k \in BoolKeys, NEW value, Parsed(value),
           NEW words \in Encode(k, value)
    PROVE  \E v \in Decode(k, words) : Means(v, value)
  <1> DEFINE d == holdingByKey[k]
  <1>1. PICK n \in Write(d, value) : words \in encodeRawValue(n, d)
    BY DEF Encode
  <1>2. PICK b \in parseBool(value) : n = Bit(b)
    BY <1>1, BoolTable DEF Write
  <1>3. n \in Int /\ b = (n # 0) /\ parseBool(value) = {b}
    BY <1>2, OneBool DEF Bit
  <1>4. decodeRegisterValue(words, d) = n
    BY <1>1, <1>3, BoolTable, WordCodec
  <1>5. Decode(k, words) = {[bool |-> n # 0]}
    BY <1>4, BoolTable, NoEnums DEF Decode, Read
  <1>6. Means([bool |-> n # 0], value)
    BY <1>3, ValueTypes DEF Means
  <1> QED BY <1>5, <1>6

\* The inverted switch.
LEMMA OverTempMeaning ==
    ASSUME NEW value, Parsed(value),
           NEW words \in Encode("OverTempRestart", value)
    PROVE  \E v \in Decode("OverTempRestart", words) : Means(v, value)
  <1> DEFINE d == holdingByKey["OverTempRestart"]
  <1>1. PICK n \in Write(d, value) : words \in encodeRawValue(n, d)
    BY DEF Encode
  <1>2. PICK b \in parseBool(value) : n = Bit(~b)
    BY <1>1, OverTempTable DEF Write, overTempWrite
  <1>3. n \in 0..1 /\ b = (n = 0) /\ parseBool(value) = {b}
    BY <1>2, OneBool DEF Bit
  <1>4. decodeRegisterValue(words, d) = n
    BY <1>1, <1>3, OverTempTable, WordCodec
  <1>5. "overTempRestart" \in DOMAIN enums
        /\ enums["overTempRestart"] = [m \in 0..1 |-> [bool |-> m = 0]]
    BY DEF enums
  <1>6. [bool |-> n = 0] \in Decode("OverTempRestart", words)
    BY <1>3, <1>4, <1>5, OverTempTable DEF Decode, Read
  <1>7. Means([bool |-> n = 0], value)
    BY <1>3, ValueTypes DEF Means
  <1> QED BY <1>6, <1>7

\* Select entities.
LEMMA EnumMeaning ==
    ASSUME NEW k \in EnumKeys, NEW value, Parsed(value),
           NEW words \in Encode(k, value)
    PROVE  \E v \in Decode(k, words) : Means(v, value)
  <1> DEFINE d == holdingByKey[k]
             enum == enums[d.Read]
  <1>1. PICK n \in Write(d, value) : words \in encodeRawValue(n, d)
    BY DEF Encode
  <1>2. n \in DOMAIN enum /\ enum[n] = value
    BY <1>1, EnumTable DEF Write, reverseEnum
  <1>3. n \in Int /\ DOMAIN value = {"text"}
    BY <1>2, Enums DEF EnumOk
  <1>4. decodeRegisterValue(words, d) = n
    BY <1>1, <1>3, EnumTable, WordCodec
  <1>5. value \in Decode(k, words)
    BY <1>2, <1>4, EnumTable, NoEnums DEF Decode, Read
  <1>6. Means(value, value)
    BY <1>3 DEF Means, Is
  <1> QED BY <1>5, <1>6

\* Whatever the payload and the register.
LEMMA WriteMeaning ==
    ASSUME NEW k \in DOMAIN holdingByKey, NEW payload,
           NEW value \in parseMQTTCommandValue(payload),
           NEW words \in Encode(k, value)
    PROVE  \E v \in Decode(k, words) : Means(v, value)
  <1>1. Parsed(value)
    BY ParsedValues
  <1>2. ASSUME k \in NilKeys PROVE FALSE
    BY <1>2, NilTable DEF Encode, Write
  <1> QED
    BY <1>1, <1>2, Kinds, IntMeaning, ScaleMeaning, BoolMeaning, EnumMeaning,
       OverTempMeaning

\* WritesMeanWhatWasAsked holds, whatever numerals strconv.ParseFloat knows and
\* whatever payloads arrive: what WriteConfig encodes, ReadConfig decodes to
\* what was asked for, and a select entity offers the values of its register.
THEOREM WritesCorrect == Spec => []WritesMeanWhatWasAsked
  <1>1. \A k \in DOMAIN holdingByKey, payload \in Samples :
            \A value \in parseMQTTCommandValue(payload) :
                \A words \in Encode(k, value) :
                    \E v \in Decode(k, words) : Means(v, value)
    BY WriteMeaning
  <1>2. DOMAIN selectOptions = EnumKeys
    BY Zenon DEF selectOptions, EnumKeys
  <1>3. \A k \in DOMAIN selectOptions :
            LET enum == enums[holdingByKey[k].Read]
            IN  {enum[n] : n \in DOMAIN enum} = [text : selectOptions[k]]
    <2>1. \A k \in DOMAIN selectOptions : Offers(k)
      BY <1>2, Enums
    <2> QED BY <2>1, Zenon DEF Offers, ValuesOf
  <1>4. WritesMeanWhatWasAsked
    BY <1>1, <1>3 DEF WritesMeanWhatWasAsked
  <1> QED BY <1>4, PTL

-----------------------------------------------------------------------------
(* Numbers keep their limits.                                              *)

\* A whole number is read as it was written.
LEMMA IntWritten ==
    ASSUME NEW k \in IntKeys, NEW n \in Int,
           NEW words \in Encode(k, [number |-> n])
    PROVE  Decode(k, words) = {[number |-> n]} /\ 0 <= n
  <1> DEFINE d == holdingByKey[k]
             value == [number |-> n]
  <1>1. PICK m \in Write(d, value) : words \in encodeRawValue(m, d)
    BY DEF Encode
  <1>2. asFloat64(value) = {n} /\ Parsed(value)
    BY ValueTypes DEF asFloat64, Parsed
  <1>3. m \in Int /\ 100 * m = n
    BY <1>1, <1>2, IntTable, WholeNumbers DEF Write
  <1>4. m \in 0..(WordSize - 1) /\ decodeRegisterValue(words, d) = m
    BY <1>1, <1>3, IntTable, WordCodec
  <1>5. Decode(k, words) = {[number |-> 100 * m]}
    BY <1>4, IntTable, NoEnums DEF Decode, Read
  <1>6. 0 <= m
    BY <1>4, WordSizeIs
  <1> QED BY <1>3, <1>5, <1>6

\* A number of tenths is read rounded.
LEMMA ScaleWritten ==
    ASSUME NEW k \in ScaleKeys, NEW n \in Int,
           NEW words \in Encode(k, [number |-> n])
    PROVE  Decode(k, words) = {[number |-> 10 * Tenths(n)]}
  <1> DEFINE d == holdingByKey[k]
             value == [number |-> n]
  <1>1. PICK m \in Write(d, value) : words \in encodeRawValue(m, d)
    BY DEF Encode
  <1>2. asFloat64(value) = {n}
    BY ValueTypes DEF asFloat64
  <1>3. m = Tenths(n) /\ m \in Int
    BY <1>1, <1>2, ScaleTable, Rounding DEF Write
  <1>4. decodeRegisterValue(words, d) = m
    BY <1>1, <1>3, ScaleTable, WordCodec
  <1> QED BY <1>3, <1>4, ScaleTable, NoEnums DEF Decode, Read

\* What is written of a number within the limits is within them.
LEMMA WrittenWithin ==
    ASSUME NEW k \in IntKeys \cup ScaleKeys, NEW n \in Int,
           NEW config, NEW battery,
           Within(n, discoveryNumberLimits(k, config, battery)),
           NEW words \in Encode(k, [number |-> n]), NEW v \in Decode(k, words)
    PROVE  Within(v.number, discoveryNumberLimits(k, config, battery))
  <1>1. CASE k \in IntKeys
    <2>1. v.number = n
      BY <1>1, IntWritten
    <2> QED BY <2>1
  <1>2. CASE k \in ScaleKeys
    <2>1. v.number = 10 * Tenths(n)
      BY <1>2, ScaleWritten
    <2>2. PICK a, b \in 0..100 : discoveryNumberLimits(k, config, battery) =
                                     [Min |-> 100 * a, Max |-> 100 * b]
      <3>1. Whole(discoveryNumberLimits(k, config, battery))
        BY <1>2, ScaleLimits
      <3> QED BY <3>1, Zenon DEF Whole
    <2>3. 100 * a <= n /\ n <= 100 * b
      BY <2>2 DEF Within
    <2> QED BY <2>1, <2>2, <2>3, RoundingWithin DEF Within
  <1> QED BY <1>1, <1>2

\* A number of tenths within the limits can be written.
LEMMA ScaleFits ==
    ASSUME NEW k \in ScaleKeys, NEW n \in Int, NEW config, NEW battery,
           Within(n, discoveryNumberLimits(k, config, battery))
    PROVE  \E words \in Encode(k, [number |-> n]) : Decode(k, words) # {}
  <1> DEFINE d == holdingByKey[k]
             value == [number |-> n]
  <1>1. PICK a, b \in 0..100 : discoveryNumberLimits(k, config, battery) =
                                   [Min |-> 100 * a, Max |-> 100 * b]
    <2>1. Whole(discoveryNumberLimits(k, config, battery))
      BY ScaleLimits
    <2> QED BY <2>1, Zenon DEF Whole
  <1>2. 100 * a <= 10 * Tenths(n) /\ 10 * Tenths(n) <= 100 * b /\ Tenths(n) \in Int
    BY <1>1, RoundingWithin, Rounding DEF Within
  <1>3. Tenths(n) \in 0..(WordSize - 1)
    <2>1. 0 <= Tenths(n) /\ Tenths(n) <= 1000
      BY <1>1, <1>2
    <2>2. WordSize \in Nat /\ 1000 < WordSize
      BY DEF WordSize
    <2> QED BY <1>2, <2>1, <2>2
  <1>4. PICK words \in encodeRawValue(Tenths(n), d) : TRUE
    BY <1>3, ScaleTable, WordFits
  <1>5. Tenths(n) \in Write(d, value)
    BY ScaleTable, ValueTypes DEF Write, asFloat64
  <1>6. words \in Encode(k, value)
    BY <1>4, <1>5 DEF Encode
  <1> QED BY <1>6, ScaleWritten, ZenonT(60)

\* So can a whole number, if what widens the limits fits a register.
LEMMA IntFits ==
    ASSUME NEW k \in IntKeys, NEW n \in Int, NEW config, NEW battery,
           \A c \in Widening(k, config) : c \in Nat /\ c <= 40000,
           Within(n, discoveryNumberLimits(k, config, battery)), n % 100 = 0
    PROVE  \E words \in Encode(k, [number |-> n]) : Decode(k, words) # {}
  <1> DEFINE d == holdingByKey[k]
             value == [number |-> n]
             m == n \div 100
             limits == discoveryNumberLimits(k, config, battery)
             W == Widening(k, config)
  <1>0. PICK top \in Tops : Widened(k, battery, top)
    BY IntLimits
  <1>1. limits = UpTo(top, W)
    BY <1>0 DEF Widened
  <1>a. top \in Nat /\ top <= 6553500
    BY DEF Tops
  <1>2. 0 <= n /\ n <= 6553500
    <2>1. CASE W = {}
      <3>1. Within(n, UpTo(top, {}))
        BY <1>1, <2>1
      <3> QED BY <1>a, <3>1, WithinNone
    <2>2. CASE W # {}
      <3>1. PICK c \in Nat : W = {c} /\ c <= 40000
        BY <2>2 DEF Widening
      <3>2. Within(n, UpTo(top, {c}))
        BY <1>1, <3>1
      <3> QED BY <1>a, <3>1, <3>2, WithinOne
    <2> QED BY <2>1, <2>2
  <1>3. m \in 0..(WordSize - 1)
    <2>1. m \in Int /\ 0 <= m /\ m <= 65535
      BY <1>2
    <2> QED BY <2>1, WordSizeIs
  <1>4. PICK words \in encodeRawValue(m, d) : TRUE
    BY <1>3, IntTable, WordFits
  <1>5. asFloat64(value) = {n}
    BY ValueTypes DEF asFloat64
  <1>6. m \in Write(d, value)
    BY <1>5, IntTable DEF Write, asInt64
  <1>7. words \in Encode(k, value)
    BY <1>4, <1>6 DEF Encode
  <1> QED BY <1>7, IntWritten

\* Whatever the payload, an accepted number fits, if what widens the limits fits a register.
LEMMA Fitting ==
    ASSUME NEW k, isWritableNumberRegister(k), NEW config, NEW battery,
           \A c \in Widening(k, config) : c \in Nat /\ c <= 40000,
           NEW payload, NEW value \in parseMQTTCommandValue(payload)
    PROVE  AcceptedFits(k, value, config, battery)
  <1> DEFINE limits == discoveryNumberLimits(k, config, battery)
  <1>0. k \in IntKeys \cup ScaleKeys
    BY NumberKeys
  <1>1. SUFFICES ASSUME validateWritableNumberValue(k, value, config, battery)
                 PROVE  AcceptedFits(k, value, config, battery)
    BY DEF AcceptedFits
  <1>2. Is(value, "number") /\ Within(value.number, limits)
    BY <1>1 DEF validateWritableNumberValue
  <1>3. PICK n \in Int : value = [number |-> n]
    BY <1>2, ParsedValues, ValueTypes DEF Parsed
  <1>4. Within(n, limits)
    BY <1>2, <1>3
  <1>5. ASSUME NEW words \in Encode(k, value), NEW v \in Decode(k, words)
        PROVE  Within(v.number, limits)
    BY <1>0, <1>3, <1>4, WrittenWithin
  <1>6. k \in ScaleKeys => \E words \in Encode(k, value) : Decode(k, words) # {}
    BY <1>3, <1>4, ScaleFits
  <1>7. k \in IntKeys /\ value.number % 100 = 0 =>
            \E words \in Encode(k, value) : Decode(k, words) # {}
    BY <1>3, <1>4, IntFits
  <1>8. k \in IntKeys => holdingByKey[k].Write = "intWrite"
    BY IntTable
  <1> HIDE DEF limits
  <1> QED BY <1>0, <1>5, <1>6, <1>7, <1>8 DEF AcceptedFits, limits

\* AcceptedNumbersFit holds, whatever numerals strconv.ParseFloat knows and
\* whatever payloads arrive: a number validateWritableNumberValue accepts
\* survives scaleWrite, intWrite and encodeRawValue within its limits.
THEOREM AcceptedNumbersCorrect == Spec => []AcceptedNumbersFit
  <1>1. ASSUME NEW k \in {j \in DOMAIN holdingByKey : isWritableNumberRegister(j)},
               NEW payload \in Samples, NEW battery, NEW amps \in SampleAmps,
               NEW value \in parseMQTTCommandValue(payload)
        PROVE  AcceptedFits(k, value, Currents(amps), battery)
    <2> DEFINE config == Currents(amps)
    <2>1. ASSUME NEW c \in Widening(k, config) PROVE c \in Nat /\ c <= 40000
      <3>1. k \in {"ACChargeAmps", "MaxChargeAmps"} /\ c = config[k].number
        BY DEF Widening, Nominals, discoveryNominalMaxRegisters
      <3>2. config[k].number = 100 * amps
        BY <3>1 DEF Currents
      <3> QED BY <3>1, <3>2 DEF SampleAmps
    <2> HIDE DEF config
    <2>2. AcceptedFits(k, value, config, battery)
      BY <2>1, Fitting
    <2> QED BY <2>2 DEF config
  <1>2. AcceptedNumbersFit
    BY <1>1, Zenon DEF AcceptedNumbersFit
  <1> QED BY <1>2, PTL

-----------------------------------------------------------------------------
(* The inductive invariant.                                                *)

\* What a command can be.
CommandValues ==
    UNION {parseMQTTCommandValue(p) : p \in UNION {Payloads[k] : k \in DOMAIN Payloads}}
Commands == [key : Keys, value : CommandValues, current : BOOLEAN]

\* A register holds a number.
Held == \A k \in Keys : decodeRegisterValue(device[k], holdingByKey[k]) \in Int

\* The queue and the loop hold commands, the loop one at most.
Queued == /\ commands \in Seq(Commands) /\ command \subseteq Commands
          /\ \A c, d \in command : c = d

\* A config is of all registers.
Complete ==
    /\ \A c \in pendingConfig : DOMAIN c = Keys
    /\ \A c \in publishing : DOMAIN c = Keys

\* A read begins with no register and ends with all: those it has not read
\* yet are in one of the requests left.
Reading ==
    /\ pc \notin {"read", "decode"} => DOMAIN registers = {}
    /\ pc = "read" => \A k \in Keys \ DOMAIN registers :
                          \E w \in windows : InRequest(k, w)
    /\ pc = "decode" => DOMAIN registers = Keys

\* A register written and not read back yet holds what was written, and has
\* been read so, or another hand was there.
Compared ==
    /\ acked \subseteq DOMAIN pendingReadbacks
    /\ \A k \in DOMAIN pendingReadbacks :
           device[k] # pendingReadbacks[k] => k \in touched
    /\ \A k \in DOMAIN pendingReadbacks \cap DOMAIN registers :
           registers[k] # pendingReadbacks[k] => k \in touched

\* A command that is current was accepted for what the inverter holds: the
\* battery type, and what bears on the limits of its register.
AcceptedFor(c, held, config, battery) ==
    /\ DOMAIN config = Keys
    /\ Decode("BatteryType", held["BatteryType"]) = {[text |-> battery]}
    /\ \A j \in LimitedBy(c.key) \cap Keys : Decode(j, held[j]) = {config[j]}
    /\ validateWritableNumberValue(c.key, c.value, config, battery)
Accepted(c, held) ==
    c.current /\ isWritableNumberRegister(c.key) =>
        \E config, battery : AcceptedFor(c, held, config, battery)

\* So are all of them.
InLimits ==
    /\ \A i \in 1..Len(commands) : Accepted(commands[i], device)
    /\ \A c \in command : Accepted(c, device)

Invariant ==
    /\ TypeOK /\ Held /\ Queued /\ Complete /\ Reading /\ Compared /\ InLimits
\* It holds at first.
LEMMA InvariantInit == Init => Invariant
  <1> SUFFICES ASSUME Init PROVE Invariant
    OBVIOUS
  <1>1. DOMAIN Nothing = {}
    BY DEF Nothing
  <1>a. /\ commands = <<>> /\ pc = "idle" /\ command = {} /\ windows = {}
        /\ registers = Nothing /\ pendingReadbacks = Nothing
        /\ acked = {} /\ touched = {} /\ pendingConfig = {} /\ publishing = {}
        /\ lastPublishedConfig = Nothing
    BY Zenon DEF Init
  <1>2. TypeOK
    <2>1. DOMAIN device = Keys
      BY Zenon DEF Init
    <2>2. Len(commands) <= QueueSize
      BY <1>a, QueueAssumption
    <2> QED BY <1>1, <1>a, <2>1, <2>2 DEF TypeOK
  <1>3. Held
    <2> SUFFICES ASSUME NEW k \in Keys
                 PROVE  decodeRegisterValue(device[k], holdingByKey[k]) \in Int
      BY DEF Held
    <2>1. encodeRawValue(InitialRaw[k], holdingByKey[k]) # {}
      BY InputsAssumption DEF encodeRawValue
    <2>2. device[k] \in encodeRawValue(InitialRaw[k], holdingByKey[k])
      BY <2>1, Zenon DEF Init
    <2>3. holdingByKey[k].Length \in {1, 2}
      BY KeysAssumption, Layout
    <2>4. InitialRaw[k] \in Int
      BY InputsAssumption
    <2> QED BY <2>2, <2>3, <2>4, Encoded
  <1>4. Queued /\ Complete
    BY <1>a DEF Queued, Complete
  <1>5. Reading /\ Compared
    BY <1>1, <1>a DEF Reading, Compared
  <1>6. InLimits
    BY <1>a DEF InLimits
  <1> QED BY <1>2, <1>3, <1>4, <1>5, <1>6 DEF Invariant

-----------------------------------------------------------------------------
(* What the steps do to a command and to a register.                       *)

\* A command stays one when a register is changed, and is current only if it
\* was, and the register does not bear on its limits.
LEMMA OutdatedFacts ==
    ASSUME NEW c \in Commands, NEW k
    PROVE  /\ Outdated(c, k) \in Commands
           /\ Outdated(c, k).key = c.key /\ Outdated(c, k).value = c.value
           /\ Outdated(c, k).current =>
                  c.current /\ k \notin {"BatteryType"} \cup LimitedBy(c.key)
  BY DEF Commands, Outdated

\* What a change does.
LEMMA ChangesFacts ==
    ASSUME TypeOK, Queued, NEW k \in Keys, NEW words, Changes(k, words)
    PROVE  /\ device' = [device EXCEPT ![k] = words] /\ DOMAIN device' = Keys
           /\ device'[k] = words /\ \A j \in Keys \ {k} : device'[j] = device[j]
           /\ commands' \in Seq(Commands) /\ Len(commands') = Len(commands)
           /\ \A i \in 1..Len(commands) : /\ commands[i] \in Commands
                                          /\ commands'[i] = Outdated(commands[i], k)
  <1>1. DOMAIN commands = 1..Len(commands) /\ Len(commands) \in Nat
        /\ \A i \in 1..Len(commands) : commands[i] \in Commands
    BY DEF Queued
  <1>2. commands' = [i \in 1..Len(commands) |-> Outdated(commands[i], k)]
    BY <1>1 DEF Changes
  <1>3. \A i \in 1..Len(commands) : Outdated(commands[i], k) \in Commands
    BY <1>1, OutdatedFacts
  <1>4. commands' \in Seq(Commands) /\ Len(commands') = Len(commands)
    BY <1>1, <1>2, <1>3
  <1>5. DOMAIN device = Keys
    BY DEF TypeOK
  <1> QED BY <1>1, <1>2, <1>4, <1>5 DEF Changes

\* What is encoded for a command.
LEMMA CommandWords ==
    ASSUME NEW c \in Commands, NEW words \in Encode(c.key, c.value)
    PROVE  /\ c.key \in Keys /\ Parsed(c.value)
           /\ Len(words) = holdingByKey[c.key].Length
           /\ decodeRegisterValue(words, holdingByKey[c.key]) \in Int
  <1>1. c.key \in Keys /\ c.key \in DOMAIN holdingByKey /\ c.value \in CommandValues
    BY KeysAssumption DEF Commands
  <1>2. Parsed(c.value)
    BY <1>1, ParsedValues DEF CommandValues
  <1>3. PICK n \in Write(holdingByKey[c.key], c.value) :
            words \in encodeRawValue(n, holdingByKey[c.key])
    BY DEF Encode
  <1>4. n \in Int
    BY <1>1, <1>2, <1>3, WriteNumbers
  <1> QED BY <1>1, <1>2, <1>3, <1>4, Layout, Encoded

\* What the panel sets.
LEMMA PanelWords ==
    ASSUME NEW k \in DOMAIN PanelRaw, NEW raw \in PanelRaw[k],
           NEW words \in encodeRawValue(raw, holdingByKey[k])
    PROVE  k \in Keys /\ decodeRegisterValue(words, holdingByKey[k]) \in Int
  <1>1. k \in Keys /\ k \in DOMAIN holdingByKey /\ raw \in Int
    BY KeysAssumption, InputsAssumption
  <1> QED BY <1>1, Layout, Encoded

\* What the end of the process leaves.
LEMMA EndFacts ==
    ASSUME End
    PROVE  /\ commands' = <<>> /\ pc' = "idle" /\ command' = {} /\ windows' = {}
           /\ registers' = Nothing /\ pendingReadbacks' = Nothing
           /\ acked' = {} /\ touched' = {} /\ pendingConfig' = {}
           /\ publishing' = {} /\ lastPublishedConfig' = Nothing
           /\ device' = device /\ DOMAIN Nothing = {}
  <1>1. DOMAIN Nothing = {}
    BY DEF Nothing
  <1> QED BY <1>1, Zenon DEF End

\* After it the invariant is as good as new.
LEMMA EndStep ==
    ASSUME TypeOK, Held, End
    PROVE  Invariant'
  <1>1. TypeOK'
    <2>1. Len(commands') <= QueueSize
      BY EndFacts, QueueAssumption
    <2> QED BY <2>1, EndFacts DEF TypeOK
  <1>2. Held' /\ Queued' /\ Complete'
    BY EndFacts DEF Held, Queued, Complete
  <1>3. Reading' /\ Compared'
    BY EndFacts DEF Reading, Compared
  <1>4. InLimits'
    BY EndFacts DEF InLimits
  <1> QED BY <1>1, <1>2, <1>3, <1>4 DEF Invariant

\* What WriteOk and WriteFails do with their command.
Written(c, words) ==
    /\ Changes(c.key, words)
    /\ pendingReadbacks' = With(pendingReadbacks, c.key, words)
    /\ acked' = acked \cup {c.key} /\ touched' = touched \ {c.key}
Tried(c, words) ==
    \/ Changes(c.key, words) /\ touched' = touched \cup {c.key}
    \/ UNCHANGED <<device, commands, touched>>

\* There are requests.
LEMMA Requests == holdingRegisterWindows # {}
  BY WordsRead

-----------------------------------------------------------------------------
(* The invariant is preserved, part by part.                               *)

\* Every variable keeps its type.
LEMMA TypeStep ==
    ASSUME Invariant, [Next]_vars
    PROVE  TypeOK'
  <1> USE DEF Invariant
  <1>0. Len(commands) \in Nat /\ QueueSize \in Nat /\ DOMAIN Nothing = {}
    BY QueueAssumption DEF Queued, Nothing
  <1>1. ASSUME NEW k \in DOMAIN Payloads, NEW payload \in Payloads[k],
               HandleCommand(k, payload)
        PROVE  TypeOK'
    <2>1. Len(commands') = Len(commands) + 1
      BY <1>1 DEF HandleCommand, Queued
    <2>2. Len(commands') <= QueueSize
      BY <1>0, <1>1, <2>1 DEF HandleCommand
    <2> QED BY <1>1, <2>2 DEF HandleCommand, TypeOK, reading, readback, mqtt
  <1>2. CASE RejectWrite
    <2>1. Len(commands') <= QueueSize
      BY <1>0, <1>2 DEF RejectWrite, Queued, TypeOK
    <2> QED BY <1>2, <2>1 DEF RejectWrite, TypeOK, reading, readback, mqtt
  <1>3. CASE BeginWrite
    <2>1. Len(commands') <= QueueSize
      BY <1>0, <1>3 DEF BeginWrite, Queued, TypeOK
    <2> QED BY <1>3, <2>1 DEF BeginWrite, TypeOK, reading, readback, mqtt
  <1>4. CASE WriteOk
    <2>0. PICK c \in command : \E words \in Encode(c.key, c.value) : Written(c, words)
      BY <1>4 DEF WriteOk, Written
    <2>a. PICK words \in Encode(c.key, c.value) : Written(c, words)
      BY <2>0
    <2>1. /\ Changes(c.key, words)
          /\ pendingReadbacks' = With(pendingReadbacks, c.key, words)
          /\ acked' = acked \cup {c.key} /\ touched' = touched \ {c.key}
      BY <2>a DEF Written
    <2>2. c \in Commands
      BY DEF Queued
    <2>3. c.key \in Keys /\ Len(words) = holdingByKey[c.key].Length
      BY <2>2, CommandWords
    <2>4. DOMAIN device' = Keys /\ Len(commands') <= QueueSize
      BY <2>1, <2>3, ChangesFacts DEF TypeOK
    <2>5. \A j \in DOMAIN pendingReadbacks' :
              j \in Keys /\ Len(pendingReadbacks'[j]) = holdingByKey[j].Length
      BY <2>1, <2>3 DEF With, TypeOK
    <2> QED BY <1>4, <2>1, <2>3, <2>4, <2>5 DEF WriteOk, TypeOK, reading, mqtt
  <1>5. CASE WriteFails
    <2>0. PICK c \in command : \E words \in Encode(c.key, c.value) : Tried(c, words)
      BY <1>5 DEF WriteFails, Tried
    <2>a. PICK words \in Encode(c.key, c.value) : Tried(c, words)
      BY <2>0
    <2>1. \/ Changes(c.key, words) /\ touched' = touched \cup {c.key}
          \/ UNCHANGED <<device, commands, touched>>
      BY <2>a DEF Tried
    <2>2. c \in Commands
      BY DEF Queued
    <2>3. c.key \in Keys
      BY <2>2, CommandWords
    <2>4. DOMAIN device' = Keys /\ Len(commands') <= QueueSize /\ touched' \subseteq Keys
      BY <2>1, <2>3, ChangesFacts DEF TypeOK
    <2> QED BY <1>5, <2>4 DEF WriteFails, TypeOK, reading, readback, mqtt
  <1>6. CASE BeginRead
    BY <1>0, <1>6, Requests DEF BeginRead, TypeOK, readback, mqtt
  <1>7. CASE ReadWindow
    BY <1>7 DEF ReadWindow, TypeOK, readback, mqtt
  <1>8. CASE ReadFails
    BY <1>0, <1>8 DEF ReadFails, TypeOK, mqtt
  <1>9. CASE DecodeFails \/ End
    BY <1>9, EndStep DEF DecodeFails
  <1>10. CASE ReadOk
    BY <1>0, <1>10 DEF ReadOk, TypeOK
  <1>11. CASE Retry
    BY <1>0, <1>11, Requests DEF Retry, TypeOK, reading, readback, mqtt
  <1>12. CASE PublishBatteryType
    BY <1>12 DEF PublishBatteryType, TypeOK, reading, readback
  <1>13. CASE RememberConfig
    BY <1>13 DEF RememberConfig, TypeOK, Complete, reading, readback
  <1>14. ASSUME NEW k \in DOMAIN PanelRaw, NEW raw \in PanelRaw[k], Panel(k, raw)
         PROVE  TypeOK'
    <2>1. PICK words \in encodeRawValue(raw, holdingByKey[k]) : Changes(k, words)
      BY <1>14 DEF Panel
    <2>2. k \in Keys
      BY <2>1, PanelWords
    <2>3. DOMAIN device' = Keys /\ Len(commands') <= QueueSize
      BY <2>1, <2>2, ChangesFacts DEF TypeOK
    <2> QED BY <1>14, <2>2, <2>3 DEF Panel, TypeOK, reading, readback, mqtt
  <1>15. CASE UNCHANGED vars
    BY <1>15 DEF vars, TypeOK, reading, readback, mqtt
  <1> QED
    BY <1>1, <1>2, <1>3, <1>4, <1>5, <1>6, <1>7, <1>8, <1>9, <1>10, <1>11,
       <1>12, <1>13, <1>14, <1>15 DEF Next

\* What a step does to the registers and the commands, if it does not end the
\* process: nothing, or a change of one register.
LEMMA StepWords ==
    ASSUME Invariant, [Next]_vars, ~End
    PROVE  \/ device' = device
           \/ \E k \in Keys : \E words :
                  /\ Changes(k, words)
                  /\ decodeRegisterValue(words, holdingByKey[k]) \in Int
  <1> USE DEF Invariant
  <1>1. CASE WriteOk
    <2>1. PICK c \in command : \E words \in Encode(c.key, c.value) : Written(c, words)
      BY <1>1 DEF WriteOk, Written
    <2>2. PICK words \in Encode(c.key, c.value) : Written(c, words)
      BY <2>1
    <2>3. c \in Commands
      BY DEF Queued
    <2> QED BY <2>2, <2>3, CommandWords DEF Written
  <1>2. CASE WriteFails
    <2>1. PICK c \in command : \E words \in Encode(c.key, c.value) : Tried(c, words)
      BY <1>2 DEF WriteFails, Tried
    <2>2. PICK words \in Encode(c.key, c.value) : Tried(c, words)
      BY <2>1
    <2>3. c \in Commands
      BY DEF Queued
    <2> QED BY <2>2, <2>3, CommandWords DEF Tried
  <1>3. ASSUME NEW k \in DOMAIN PanelRaw, NEW raw \in PanelRaw[k], Panel(k, raw)
        PROVE  \E words : /\ k \in Keys /\ Changes(k, words)
                          /\ decodeRegisterValue(words, holdingByKey[k]) \in Int
    <2>1. PICK words \in encodeRawValue(raw, holdingByKey[k]) : Changes(k, words)
      BY <1>3 DEF Panel
    <2> QED BY <2>1, PanelWords
  <1>4. ASSUME ~WriteOk, ~WriteFails,
               ~\E k \in DOMAIN PanelRaw : \E raw \in PanelRaw[k] : Panel(k, raw)
        PROVE  device' = device
    BY <1>4 DEF Next, HandleCommand, RejectWrite, BeginWrite, BeginRead, ReadWindow,
       ReadFails, DecodeFails, ReadOk, Retry, PublishBatteryType, RememberConfig, vars
  <1> QED BY <1>1, <1>2, <1>3, <1>4

\* A register holds a number.
LEMMA HeldStep ==
    ASSUME Invariant, [Next]_vars
    PROVE  Held'
  <1> USE DEF Invariant
  <1>1. CASE End
    BY <1>1, EndStep
  <1>2. CASE ~End
    <2>1. CASE device' = device
      BY <2>1 DEF Held
    <2>2. ASSUME NEW k \in Keys, NEW words, Changes(k, words),
                 decodeRegisterValue(words, holdingByKey[k]) \in Int
          PROVE  Held'
      BY <2>2, ChangesFacts DEF Held
    <2> QED BY <1>2, <2>1, <2>2, StepWords
  <1> QED BY <1>1, <1>2

\* The queue and the loop hold commands.
LEMMA QueuedStep ==
    ASSUME Invariant, [Next]_vars
    PROVE  Queued'
  <1> USE DEF Invariant
  <1>0. commands \in Seq(Commands) /\ command \subseteq Commands
    BY DEF Queued
  <1>1. ASSUME NEW k \in DOMAIN Payloads, NEW payload \in Payloads[k],
               HandleCommand(k, payload)
        PROVE  Queued'
    <2>1. PICK value \in parseMQTTCommandValue(payload) :
              commands' = Append(commands, [key |-> k, value |-> value,
                                            current |-> Known(k)])
      BY <1>1 DEF HandleCommand
    <2>2. k \in Keys
      BY InputsAssumption
    <2>3. value \in CommandValues
      BY DEF CommandValues
    <2>4. Known(k) \in BOOLEAN
      BY DEF Known
    <2> DEFINE known == Known(k)
    <2> HIDE DEF known
    <2>5. [key |-> k, value |-> value, current |-> known] \in Commands
      BY <2>2, <2>3, <2>4 DEF Commands, known
    <2>6. commands' \in Seq(Commands)
      BY <1>0, <2>1, <2>5 DEF known
    <2> QED BY <1>0, <1>1, <2>6 DEF HandleCommand, Queued
  <1>2. CASE RejectWrite
    BY <1>0, <1>2 DEF RejectWrite, Queued
  <1>3. CASE BeginWrite
    BY <1>0, <1>3 DEF BeginWrite, Queued
  <1>4. CASE WriteOk
    <2>1. PICK c \in command : \E words \in Encode(c.key, c.value) : Written(c, words)
      BY <1>4 DEF WriteOk, Written
    <2>2. PICK words \in Encode(c.key, c.value) : Written(c, words)
      BY <2>1
    <2>3. c.key \in Keys
      BY <1>0 DEF Commands
    <2>4. commands' \in Seq(Commands)
      BY <2>2, <2>3, ChangesFacts DEF Written
    <2> QED BY <1>4, <2>4 DEF WriteOk, Queued
  <1>5. CASE WriteFails
    <2>1. PICK c \in command : \E words \in Encode(c.key, c.value) : Tried(c, words)
      BY <1>5 DEF WriteFails, Tried
    <2>2. PICK words \in Encode(c.key, c.value) : Tried(c, words)
      BY <2>1
    <2>3. c.key \in Keys
      BY <1>0 DEF Commands
    <2>4. commands' \in Seq(Commands)
      BY <1>0, <2>2, <2>3, ChangesFacts DEF Tried
    <2> QED BY <1>0, <1>5, <2>4 DEF WriteFails, Queued
  <1>6. CASE End
    BY <1>6, EndStep
  <1>7. ASSUME NEW k \in DOMAIN PanelRaw, NEW raw \in PanelRaw[k], Panel(k, raw)
        PROVE  Queued'
    <2>1. PICK words \in encodeRawValue(raw, holdingByKey[k]) : Changes(k, words)
      BY <1>7 DEF Panel
    <2>2. commands' \in Seq(Commands)
      BY <2>1, InputsAssumption, ChangesFacts
    <2>3. command' \subseteq Commands
      BY <1>0, <1>7, OutdatedFacts DEF Panel
    <2>4. \A c, d \in command' : c = d
      BY <1>7 DEF Panel, Queued
    <2> QED BY <2>2, <2>3, <2>4 DEF Queued
  <1>8. CASE \/ BeginRead \/ ReadWindow \/ ReadFails \/ ReadOk \/ Retry
             \/ PublishBatteryType \/ RememberConfig \/ UNCHANGED vars
    <2>1. commands' = commands /\ command' = command
      BY <1>8 DEF BeginRead, ReadWindow, ReadFails, ReadOk, Retry,
         PublishBatteryType, RememberConfig, vars
    <2> QED BY <1>0, <2>1 DEF Queued
  <1> QED
    BY <1>1, <1>2, <1>3, <1>4, <1>5, <1>6, <1>7, <1>8 DEF Next, DecodeFails

\* A config is of all registers.
LEMMA CompleteStep ==
    ASSUME Invariant, [Next]_vars
    PROVE  Complete'
  <1> USE DEF Invariant
  <1>1. CASE ReadOk
    <2>1. DOMAIN ConfigOf(registers) = Keys
      BY <1>1 DEF ReadOk, Reading, ConfigOf
    <2>2. pendingConfig' = {ConfigOf(registers)} /\ publishing' = publishing
      BY <1>1 DEF ReadOk
    <2> QED BY <2>1, <2>2 DEF Complete
  <1>2. CASE PublishBatteryType
    BY <1>2 DEF PublishBatteryType, Complete
  <1>3. CASE RememberConfig
    BY <1>3 DEF RememberConfig, Complete
  <1>4. CASE End
    BY <1>4, EndStep
  <1>5. ASSUME ~ReadOk, ~PublishBatteryType, ~RememberConfig, ~End
        PROVE  pendingConfig' = pendingConfig /\ publishing' = publishing
    BY <1>5 DEF Next, HandleCommand, RejectWrite, BeginWrite, WriteOk, WriteFails,
       BeginRead, ReadWindow, ReadFails, DecodeFails, Retry, Panel, vars, mqtt
  <1> QED BY <1>1, <1>2, <1>3, <1>4, <1>5 DEF Complete

\* A read has the registers it is not going to ask for any more.
LEMMA ReadingStep ==
    ASSUME Invariant, [Next]_vars
    PROVE  Reading'
  <1> USE DEF Invariant
  <1>0. DOMAIN Nothing = {}
    BY DEF Nothing
  <1>1. ASSUME pc' = "read", windows' = holdingRegisterWindows, registers' = Nothing
        PROVE  Reading'
    <2>1. ASSUME NEW k \in Keys PROVE \E w \in holdingRegisterWindows : InRequest(k, w)
      <3>1. holdingByKey[k].Start \in 0..107
        BY KeysAssumption, Layout
      <3> QED BY <3>1, WordsRead DEF InRequest
    <2> QED BY <1>1, <2>1 DEF Reading
  <1>2. CASE BeginRead
    BY <1>1, <1>2 DEF BeginRead
  <1>3. CASE ReadWindow
    <2>1. PICK w \in windows :
              /\ registers' = [k \in DOMAIN registers \cup {j \in Keys : InRequest(j, w)} |->
                                  IF InRequest(k, w) THEN device[k] ELSE registers[k]]
              /\ windows' = windows \ {w}
      BY <1>3 DEF ReadWindow
    <2>2. DOMAIN registers' = DOMAIN registers \cup {j \in Keys : InRequest(j, w)}
      BY <2>1
    <2>3. \A k \in Keys \ DOMAIN registers' : \E v \in windows' : InRequest(k, v)
      BY <1>3, <2>1, <2>2 DEF ReadWindow, Reading
    <2>4. DOMAIN registers' \subseteq Keys
      BY <2>2 DEF TypeOK
    <2>5. CASE windows' = {}
      <3>1. pc' = "decode"
        BY <1>3, <2>5 DEF ReadWindow
      <3>2. DOMAIN registers' = Keys
        BY <2>3, <2>4, <2>5
      <3> QED BY <3>1, <3>2 DEF Reading
    <2>6. CASE windows' # {}
      <3>1. pc' = "read"
        BY <1>3, <2>6 DEF ReadWindow
      <3> QED BY <2>3, <3>1 DEF Reading
    <2> QED BY <2>5, <2>6
  <1>4. CASE Retry
    <2>1. CASE command = {}
      BY <1>1, <1>4, <2>1 DEF Retry
    <2>2. CASE command # {}
      BY <1>4, <2>2 DEF Retry, Reading, reading
    <2> QED BY <2>1, <2>2
  <1>5. CASE ReadFails \/ ReadOk
    BY <1>0, <1>5 DEF ReadFails, ReadOk, Reading
  <1>6. CASE End
    BY <1>6, EndStep
  <1>7. CASE BeginWrite \/ WriteOk \/ WriteFails
    BY <1>7 DEF BeginWrite, WriteOk, WriteFails, Reading, reading
  <1>8. ASSUME UNCHANGED <<pc, reading>> PROVE Reading'
    BY <1>8 DEF Reading, reading
  <1>9. ASSUME ~BeginRead, ~ReadWindow, ~Retry, ~ReadFails, ~ReadOk, ~End, ~BeginWrite,
               ~WriteOk, ~WriteFails
        PROVE  UNCHANGED <<pc, reading>>
    BY <1>9 DEF Next, HandleCommand, RejectWrite, DecodeFails, PublishBatteryType,
       RememberConfig, Panel, vars
  <1> QED BY <1>2, <1>3, <1>4, <1>5, <1>6, <1>7, <1>8, <1>9

\* What was written is held and read, or another hand was there.
LEMMA ComparedStep ==
    ASSUME Invariant, [Next]_vars
    PROVE  Compared'
  <1> USE DEF Invariant
  <1>0. DOMAIN Nothing = {}
    BY DEF Nothing
  <1>1. ASSUME pendingReadbacks' = Nothing, acked' = {} PROVE Compared'
    BY <1>0, <1>1 DEF Compared
  <1>2. CASE WriteOk
    <2>1. PICK c \in command : \E words \in Encode(c.key, c.value) : Written(c, words)
      BY <1>2 DEF WriteOk, Written
    <2>2. PICK words \in Encode(c.key, c.value) : Written(c, words)
      BY <2>1
    <2>3. c.key \in Keys
      BY DEF Queued, Commands
    <2>4. /\ device'[c.key] = words
          /\ \A j \in Keys \ {c.key} : device'[j] = device[j]
      BY <2>2, <2>3, ChangesFacts DEF Written
    <2>5. DOMAIN registers' = {}
      BY <1>2 DEF WriteOk, Reading, reading
    <2>6. /\ DOMAIN pendingReadbacks' = DOMAIN pendingReadbacks \cup {c.key}
          /\ pendingReadbacks'[c.key] = words
          /\ \A j \in DOMAIN pendingReadbacks \ {c.key} :
                 pendingReadbacks'[j] = pendingReadbacks[j]
      BY <2>2 DEF Written, With
    <2>7. acked' \subseteq DOMAIN pendingReadbacks'
      BY <2>2, <2>6 DEF Written, Compared
    <2>8. \A j \in DOMAIN pendingReadbacks' :
              device'[j] # pendingReadbacks'[j] => j \in touched'
      BY <2>2, <2>4, <2>6 DEF Written, Compared, TypeOK
    <2> QED BY <2>5, <2>7, <2>8 DEF Compared
  <1>3. ASSUME NEW k \in Keys, NEW words, Changes(k, words),
               touched' = touched \cup {k}, UNCHANGED <<reading, readback>>
        PROVE  Compared'
    <2>1. \A j \in Keys \ {k} : device'[j] = device[j]
      BY <1>3, ChangesFacts
    <2>2. \A j \in DOMAIN pendingReadbacks' :
              device'[j] # pendingReadbacks'[j] => j \in touched'
      BY <1>3, <2>1 DEF Compared, TypeOK, readback
    <2> QED BY <1>3, <2>2 DEF Compared, reading, readback
  <1>4. ASSUME UNCHANGED <<device, reading, readback, touched>> PROVE Compared'
    BY <1>4 DEF Compared, reading, readback
  <1>5. CASE WriteFails
    <2>1. PICK c \in command : \E words \in Encode(c.key, c.value) : Tried(c, words)
      BY <1>5 DEF WriteFails, Tried
    <2>2. PICK words \in Encode(c.key, c.value) : Tried(c, words)
      BY <2>1
    <2>3. c.key \in Keys
      BY DEF Queued, Commands
    <2>4. UNCHANGED <<reading, readback>>
      BY <1>5 DEF WriteFails
    <2> QED BY <1>3, <1>4, <2>2, <2>3, <2>4 DEF Tried
  <1>6. CASE ReadWindow
    <2>1. PICK w \in windows :
              registers' = [k \in DOMAIN registers \cup {j \in Keys : InRequest(j, w)} |->
                               IF InRequest(k, w) THEN device[k] ELSE registers[k]]
      BY <1>6 DEF ReadWindow
    <2>2. UNCHANGED <<device, pendingReadbacks, acked, touched>>
      BY <1>6 DEF ReadWindow, readback
    <2>3. \A k \in DOMAIN registers' :
              \/ registers'[k] = device[k]
              \/ k \in DOMAIN registers /\ registers'[k] = registers[k]
      BY <2>1
    <2> QED BY <2>2, <2>3 DEF Compared
  <1>7. CASE BeginRead
    BY <1>0, <1>7 DEF BeginRead, Compared, readback
  <1>8. CASE Retry
    <2>1. CASE command = {}
      BY <1>0, <1>8, <2>1 DEF Retry, Compared, readback
    <2>2. CASE command # {}
      BY <1>4, <1>8, <2>2 DEF Retry
    <2> QED BY <2>1, <2>2
  <1>9. CASE ReadFails \/ ReadOk
    BY <1>1, <1>9 DEF ReadFails, ReadOk
  <1>10. CASE End
    BY <1>10, EndStep
  <1>11. ASSUME NEW k \in DOMAIN PanelRaw, NEW raw \in PanelRaw[k], Panel(k, raw)
         PROVE  Compared'
    <2>1. PICK words \in encodeRawValue(raw, holdingByKey[k]) : Changes(k, words)
      BY <1>11 DEF Panel
    <2>2. touched' = touched \cup {k} /\ UNCHANGED <<reading, readback>>
      BY <1>11 DEF Panel
    <2> QED BY <1>3, <2>1, <2>2, InputsAssumption
  <1>12. CASE \/ RejectWrite \/ BeginWrite \/ PublishBatteryType \/ RememberConfig
              \/ (\E k \in DOMAIN Payloads : \E payload \in Payloads[k] :
                      HandleCommand(k, payload))
              \/ UNCHANGED vars
    <2>1. UNCHANGED <<device, reading, readback, touched>>
      BY <1>12 DEF RejectWrite, BeginWrite, PublishBatteryType, RememberConfig,
         HandleCommand, vars
    <2> QED BY <1>4, <2>1
  <1> QED
    BY <1>2, <1>5, <1>6, <1>7, <1>8, <1>9, <1>10, <1>11, <1>12
       DEF Next, DecodeFails

-----------------------------------------------------------------------------
(* Commands stay accepted for what the inverter holds.                     *)

\* A command current at the message was accepted for what the inverter holds.
LEMMA NewAccepted ==
    ASSUME Invariant, NEW c \in Commands, c.current => Known(c.key),
           validateWritableNumberValue(c.key, c.value, lastPublishedConfig, batteryType)
    PROVE  Accepted(c, device)
  <1> SUFFICES ASSUME c.current PROVE Accepted(c, device)
    BY DEF Accepted
  <1>1. c.key \in LimitedBy(c.key) \cap Keys
    BY DEF LimitedBy, Commands
  <1>2. DOMAIN lastPublishedConfig = Keys
    BY <1>1 DEF Known, Invariant, TypeOK
  <1>3. AcceptedFor(c, device, lastPublishedConfig, batteryType)
    BY <1>2 DEF AcceptedFor, Known
  <1> QED BY <1>3 DEF Accepted

\* A command stays accepted when a register is changed that does not bear on
\* its limits; otherwise it is not current any more.
LEMMA StaysAccepted ==
    ASSUME NEW c \in Commands, NEW k, NEW held, NEW now, Accepted(c, held),
           \A j \in Keys \ {k} : now[j] = held[j]
    PROVE  Accepted(Outdated(c, k), now)
  <1> DEFINE d == Outdated(c, k)
  <1>1. SUFFICES ASSUME d.current, isWritableNumberRegister(d.key)
                 PROVE  \E config, battery : AcceptedFor(d, now, config, battery)
    BY DEF Accepted
  <1>2. /\ d.key = c.key /\ d.value = c.value /\ c.current
        /\ k \notin {"BatteryType"} \cup LimitedBy(c.key)
    BY <1>1, OutdatedFacts
  <1> HIDE DEF d
  <1>3. PICK config, battery : AcceptedFor(c, held, config, battery)
    BY <1>1, <1>2 DEF Accepted
  <1>4. now["BatteryType"] = held["BatteryType"]
    BY <1>2, KeysAssumption
  <1>5. \A j \in LimitedBy(c.key) \cap Keys : now[j] = held[j]
    BY <1>2
  <1>6. AcceptedFor(d, now, config, battery)
    BY <1>2, <1>3, <1>4, <1>5 DEF AcceptedFor
  <1> QED BY <1>6

\* The number of a register of whole numbers.
LEMMA HeldNumber ==
    ASSUME NEW k \in DOMAIN holdingByKey, holdingByKey[k].Read = "identity",
           NEW words, decodeRegisterValue(words, holdingByKey[k]) \in Int,
           NEW v, Decode(k, words) = {v}
    PROVE  v.number \in Int
  <1>1. Decode(k, words) = {[number |-> 100 * decodeRegisterValue(words, holdingByKey[k])]}
    BY NoEnums DEF Decode, Read
  <1>2. v = [number |-> 100 * decodeRegisterValue(words, holdingByKey[k])]
    BY <1>1
  <1> QED BY <1>2

\* A whole number stays within its limits once it is what the inverter holds:
\* if the old number widened the limits for it, the new one does so itself.
LEMMA OwnLimits ==
    ASSUME NEW k \in IntKeys, NEW config, NEW now, NEW battery, NEW n \in Int, 0 <= n,
           Within(n, discoveryNumberLimits(k, config, battery)),
           \A j \in {k} \cup Nominals(k) : j \in DOMAIN config => config[j].number \in Int,
           DOMAIN now = DOMAIN config, now[k] = [number |-> n],
           \A m \in Nominals(k) \cap DOMAIN config : now[m] = config[m]
    PROVE  Within(n, discoveryNumberLimits(k, now, battery))
  <1>1. PICK top \in Tops : Widened(k, battery, top)
    BY IntLimits
  <1>2. top \in Int
    BY DEF Tops
  <1>3. Within(n, UpTo(top, Widening(k, config)))
    BY <1>1 DEF Widened
  <1>4. SUFFICES Within(n, UpTo(top, Widening(k, now)))
    BY <1>1 DEF Widened
  <1>5. CASE n <= top
    <2>1. Widening(k, now) = {} \/ Widening(k, now) = {n}
      BY DEF Widening
    <2> QED BY <1>2, <1>5, <2>1, WithinNone, WithinOne
  <1>6. CASE ~(n <= top)
    <2>1. Widening(k, config) # {}
      BY <1>2, <1>3, <1>6, WithinNone
    <2>2. PICK m \in Nominals(k) : /\ {k, m} \subseteq DOMAIN config
                                   /\ config[k].number <= config[m].number
      BY <2>1 DEF Widening
    <2>3. Widening(k, config) = {config[k].number}
      BY <2>2 DEF Widening
    <2>4. n <= config[k].number
      BY <1>2, <1>3, <1>6, <2>2, <2>3, WithinOne
    <2>5. now[k].number <= now[m].number
      BY <2>2, <2>4
    <2>6. Widening(k, now) = {n}
      BY <2>2, <2>5 DEF Widening
    <2> QED BY <1>2, <2>6, WithinOne
  <1> QED BY <1>5, <1>6

\* What bears on the limits of a register.
LEMMA LimitedByNominals == \A k : LimitedBy(k) = {k} \cup Nominals(k)
  BY DEF LimitedBy, Nominals

\* An accepted number: its register, what it is, and that it is in its limits.
LEMMA AcceptedNumber ==
    ASSUME NEW c \in Commands, isWritableNumberRegister(c.key),
           NEW held, NEW config, NEW battery, AcceptedFor(c, held, config, battery)
    PROVE  /\ c.key \in IntKeys \cup ScaleKeys
           /\ \E n \in Int : /\ c.value = [number |-> n]
                             /\ Within(n, discoveryNumberLimits(c.key, config, battery))
  <1>1. Is(c.value, "number")
        /\ Within(c.value.number, discoveryNumberLimits(c.key, config, battery))
    BY DEF AcceptedFor, validateWritableNumberValue
  <1>2. Parsed(c.value)
    BY ParsedValues DEF Commands, CommandValues
  <1>3. PICK n \in Int : c.value = [number |-> n]
    BY <1>1, <1>2, ValueTypes DEF Parsed
  <1> QED BY <1>1, <1>3, NumberKeys

\* A command that changed its own register, and is tried again, is still
\* accepted for what the inverter holds.
LEMMA OwnAccepted ==
    ASSUME NEW c \in Commands, NEW words \in Encode(c.key, c.value),
           NEW held, NEW now, Accepted(c, held),
           \A k \in Keys : decodeRegisterValue(held[k], holdingByKey[k]) \in Int,
           now[c.key] = words, \A j \in Keys \ {c.key} : now[j] = held[j]
    PROVE  Accepted(c, now)
  <1> DEFINE k == c.key
  <1>1. SUFFICES ASSUME c.current, isWritableNumberRegister(k)
                 PROVE  \E config, battery : AcceptedFor(c, now, config, battery)
    BY DEF Accepted
  <1>2. PICK config, battery : AcceptedFor(c, held, config, battery)
    BY <1>1 DEF Accepted
  <1>3. k \in Keys /\ k \in DOMAIN holdingByKey
    BY KeysAssumption DEF Commands
  <1>4. k \in IntKeys \cup ScaleKeys
    BY <1>1, <1>2, AcceptedNumber
  <1>5. PICK n \in Int : /\ c.value = [number |-> n]
                         /\ Within(n, discoveryNumberLimits(k, config, battery))
    BY <1>1, <1>2, AcceptedNumber
  <1>6. k # "BatteryType"
    BY <1>4 DEF IntKeys, ScaleKeys
  <1>7. Decode("BatteryType", now["BatteryType"]) = {[text |-> battery]}
    BY <1>2, <1>6, KeysAssumption DEF AcceptedFor
  <1>8. DOMAIN config = Keys
        /\ \A j \in LimitedBy(k) \cap Keys : Decode(j, held[j]) = {config[j]}
    BY <1>2 DEF AcceptedFor
  <1>9. ASSUME NEW v, Decode(k, words) = {v},
               Within(n, discoveryNumberLimits(k, [config EXCEPT ![k] = v], battery))
        PROVE  AcceptedFor(c, now, [config EXCEPT ![k] = v], battery)
    <2> DEFINE new == [config EXCEPT ![k] = v]
    <2>1. DOMAIN new = Keys /\ new[k] = v /\ \A j \in Keys \ {k} : new[j] = config[j]
      BY <1>3, <1>8
    <2>2. \A j \in LimitedBy(k) \cap Keys : Decode(j, now[j]) = {new[j]}
      BY <1>8, <1>9, <2>1
    <2>3. c.value.number = n /\ Is(c.value, "number")
      BY <1>5, ValueTypes
    <2> HIDE DEF new
    <2>4. validateWritableNumberValue(k, c.value, new, battery)
      BY <1>9, <2>3 DEF validateWritableNumberValue, new
    <2>5. AcceptedFor(c, now, new, battery)
      BY <1>7, <2>1, <2>2, <2>4 DEF AcceptedFor
    <2> QED BY <2>5 DEF new
  <1>10. CASE k \in ScaleKeys
    <2>1. PICK v : Decode(k, words) = {v}
      BY <1>5, <1>10, ScaleWritten
    <2>2. \A f : Widening(k, f) = {}
      BY <1>10 DEF Widening, Nominals, ScaleKeys, discoveryNominalMaxRegisters
    <2>3. discoveryNumberLimits(k, [config EXCEPT ![k] = v], battery) =
          discoveryNumberLimits(k, config, battery)
      BY <2>2, LimitsOf, Zenon
    <2> QED BY <1>5, <1>9, <2>1, <2>3
  <1>11. CASE k \in IntKeys
    <2> DEFINE v == [number |-> n]
               new == [config EXCEPT ![k] = v]
    <2>1. Decode(k, words) = {v} /\ 0 <= n
      BY <1>5, <1>11, IntWritten
    <2>2. DOMAIN new = DOMAIN config /\ new[k] = v
          /\ \A j \in Keys \ {k} : new[j] = config[j]
      BY <1>3, <1>8
    <2>3. ASSUME NEW j \in {k} \cup Nominals(k), j \in DOMAIN config
          PROVE  config[j].number \in Int
      <3>1. j \in LimitedBy(k) \cap Keys
        BY <1>8, <2>3, LimitedByNominals
      <3>2. j \in DOMAIN holdingByKey /\ holdingByKey[j].Read = "identity"
        BY <1>3, <1>11, IntTable, NominalTable
      <3>3. Decode(j, held[j]) = {config[j]}
            /\ decodeRegisterValue(held[j], holdingByKey[j]) \in Int
        BY <1>8, <3>1
      <3> QED BY <3>2, <3>3, HeldNumber
    <2>4. \A m \in Nominals(k) \cap DOMAIN config : new[m] = config[m]
      BY <1>8, <2>2, NominalTable
    <2> HIDE DEF new
    <2>5. Within(n, discoveryNumberLimits(k, new, battery))
      BY <1>5, <1>11, <2>1, <2>2, <2>3, <2>4, OwnLimits
    <2> QED BY <1>9, <2>1, <2>5 DEF new
  <1> QED BY <1>4, <1>10, <1>11

\* So all commands stay accepted.
LEMMA InLimitsStep ==
    ASSUME Invariant, [Next]_vars
    PROVE  InLimits'
  <1> USE DEF Invariant
  <1>0. /\ commands \in Seq(Commands) /\ command \subseteq Commands
        /\ Len(commands) \in Nat
        /\ \A i \in 1..Len(commands) : commands[i] \in Commands
    BY DEF Queued
  <1>1. ASSUME NEW k \in DOMAIN Payloads, NEW payload \in Payloads[k],
               HandleCommand(k, payload)
        PROVE  InLimits'
    <2>1. PICK value \in parseMQTTCommandValue(payload) :
              /\ validateWritableNumberValue(k, value, lastPublishedConfig, batteryType)
              /\ commands' = Append(commands, [key |-> k, value |-> value,
                                               current |-> Known(k)])
      BY <1>1 DEF HandleCommand
    <2> DEFINE known == Known(k)
               c == [key |-> k, value |-> value, current |-> known]
    <2>2. k \in Keys /\ value \in CommandValues /\ known \in BOOLEAN
      BY InputsAssumption DEF CommandValues, Known
    <2> HIDE DEF known
    <2>3. c \in Commands /\ c.key = k /\ c.value = value /\ c.current = known
      BY <2>2 DEF Commands
    <2>4. commands' = Append(commands, c)
      BY <2>1 DEF known
    <2> HIDE DEF c
    <2>5. Accepted(c, device)
      BY <2>1, <2>3, NewAccepted DEF known
    <2>6. /\ Len(commands') = Len(commands) + 1
          /\ \A i \in 1..Len(commands) : commands'[i] = commands[i]
          /\ commands'[Len(commands) + 1] = c
      BY <1>0, <2>4
    <2>7. device' = device /\ command' = command
      BY <1>1 DEF HandleCommand
    <2>8. ASSUME NEW i \in 1..Len(commands') PROVE Accepted(commands'[i], device')
      <3>1. CASE i \in 1..Len(commands)
        BY <2>6, <2>7, <3>1 DEF InLimits
      <3>2. CASE i = Len(commands) + 1
        BY <2>5, <2>6, <2>7, <3>2
      <3> QED BY <1>0, <2>6, <3>1, <3>2
    <2> QED BY <2>7, <2>8 DEF InLimits
  <1>2. ASSUME commands # <<>>, commands' = Tail(commands), device' = device
        PROVE  \A i \in 1..Len(commands') : Accepted(commands'[i], device')
    <2>1. Len(commands') = Len(commands) - 1
          /\ \A i \in 1..Len(commands') : commands'[i] = commands[i + 1]
      BY <1>0, <1>2
    <2>2. \A i \in 1..Len(commands') : i + 1 \in 1..Len(commands)
      BY <1>0, <2>1
    <2> QED BY <1>2, <2>1, <2>2 DEF InLimits
  <1>3. CASE RejectWrite
    <2>1. commands # <<>> /\ commands' = Tail(commands) /\ device' = device
          /\ command' = command
      BY <1>3 DEF RejectWrite
    <2> QED BY <1>2, <2>1 DEF InLimits
  <1>4. CASE BeginWrite
    <2>1. commands # <<>> /\ commands' = Tail(commands) /\ device' = device
          /\ command' = {Head(commands)}
      BY <1>4 DEF BeginWrite
    <2>2. Head(commands) = commands[1] /\ 1 \in 1..Len(commands)
      BY <1>0, <2>1
    <2>3. \A c \in command' : Accepted(c, device')
      BY <2>1, <2>2 DEF InLimits
    <2> QED BY <1>2, <2>1, <2>3 DEF InLimits
  <1>5. ASSUME NEW k \in Keys, NEW words, Changes(k, words)
        PROVE  /\ \A i \in 1..Len(commands') : Accepted(commands'[i], device')
               /\ \A j \in Keys \ {k} : device'[j] = device[j]
               /\ device'[k] = words
    <2>1. /\ Len(commands') = Len(commands) /\ device'[k] = words
          /\ \A j \in Keys \ {k} : device'[j] = device[j]
          /\ \A i \in 1..Len(commands) : commands'[i] = Outdated(commands[i], k)
      BY <1>5, ChangesFacts
    <2>2. ASSUME NEW i \in 1..Len(commands) PROVE Accepted(commands'[i], device')
      <3>1. commands[i] \in Commands /\ Accepted(commands[i], device)
        BY <1>0 DEF InLimits
      <3>2. Accepted(Outdated(commands[i], k), device')
        BY <2>1, <3>1, StaysAccepted
      <3> QED BY <2>1, <3>2
    <2> QED BY <2>1, <2>2
  <1>6. CASE WriteOk
    <2>1. PICK c \in command : \E words \in Encode(c.key, c.value) : Written(c, words)
      BY <1>6 DEF WriteOk, Written
    <2>2. PICK words \in Encode(c.key, c.value) : Written(c, words)
      BY <2>1
    <2>3. c.key \in Keys
      BY <1>0 DEF Commands
    <2>4. \A i \in 1..Len(commands') : Accepted(commands'[i], device')
      BY <1>5, <2>2, <2>3 DEF Written
    <2> QED BY <1>6, <2>4 DEF WriteOk, InLimits
  <1>7. CASE WriteFails
    <2>1. PICK c \in command : \E words \in Encode(c.key, c.value) : Tried(c, words)
      BY <1>7 DEF WriteFails, Tried
    <2>2. PICK words \in Encode(c.key, c.value) : Tried(c, words)
      BY <2>1
    <2>3. c \in Commands /\ c.key \in Keys
      BY <1>0 DEF Commands
    <2>4. command' = command /\ command = {c}
      BY <1>7 DEF WriteFails, Queued
    <2>5. CASE Changes(c.key, words)
      <3>1. Accepted(c, device')
        BY <1>5, <2>2, <2>3, <2>5, OwnAccepted DEF InLimits, Held
      <3>2. \A i \in 1..Len(commands') : Accepted(commands'[i], device')
        BY <1>5, <2>3, <2>5
      <3> QED BY <2>4, <3>1, <3>2 DEF InLimits
    <2>6. CASE device' = device /\ commands' = commands
      BY <2>4, <2>6 DEF InLimits
    <2> QED BY <2>2, <2>5, <2>6 DEF Tried
  <1>8. ASSUME NEW k \in DOMAIN PanelRaw, NEW raw \in PanelRaw[k], Panel(k, raw)
        PROVE  InLimits'
    <2>1. PICK words \in encodeRawValue(raw, holdingByKey[k]) : Changes(k, words)
      BY <1>8 DEF Panel
    <2>2. k \in Keys
      BY InputsAssumption
    <2>3. ASSUME NEW c \in command PROVE Accepted(Outdated(c, k), device')
      BY <1>0, <1>5, <2>1, <2>2, StaysAccepted DEF InLimits
    <2>4. \A d \in command' : Accepted(d, device')
      BY <1>8, <2>3 DEF Panel
    <2> QED BY <1>5, <2>1, <2>2, <2>4 DEF InLimits
  <1>9. CASE End
    BY <1>9, EndStep
  <1>10. CASE \/ BeginRead \/ ReadWindow \/ ReadFails \/ ReadOk \/ Retry
              \/ PublishBatteryType \/ RememberConfig \/ UNCHANGED vars
    <2>1. commands' = commands /\ command' = command /\ device' = device
      BY <1>10 DEF BeginRead, ReadWindow, ReadFails, ReadOk, Retry,
         PublishBatteryType, RememberConfig, vars
    <2> QED BY <2>1 DEF InLimits
  <1> QED
    BY <1>1, <1>3, <1>4, <1>6, <1>7, <1>8, <1>9, <1>10 DEF Next, DecodeFails

-----------------------------------------------------------------------------
(* The theorems.                                                           *)

\* The invariant holds of every behaviour of the command path: the queue, the
\* loop, WriteConfig, ReadConfig and publishConfig, with any registers.
THEOREM InvariantHolds == Spec => []Invariant
  <1>1. Init => Invariant
    BY InvariantInit
  <1>2. Invariant /\ [Next]_vars => Invariant'
    BY TypeStep, HeldStep, QueuedStep, CompleteStep, ReadingStep, ComparedStep,
       InLimitsStep DEF Invariant
  <1> QED BY <1>1, <1>2, PTL DEF Spec

\* Type correctness: whatever the registers, the payloads and the queue's size.
THEOREM TypeCorrect == Spec => []TypeOK
  <1>1. Invariant => TypeOK
    BY DEF Invariant
  <1> QED BY <1>1, InvariantHolds, PTL

\* WritesVerified: ReadConfig compares every acknowledged write with what was
\* written, and a difference is due to another hand, whatever requests failed
\* and however writes, reads and the front panel interleave.
THEOREM VerifiedCorrect == Spec => []WritesVerified
  <1>1. Invariant => WritesVerified
    BY DEF Invariant, TypeOK, Reading, Compared, WritesVerified
  <1> QED BY <1>1, InvariantHolds, PTL

\* What the config published of these words says of a register.
LEMMA ConfigValue ==
    ASSUME NEW words, NEW k \in DOMAIN words, NEW v, Decode(k, words[k]) = {v}
    PROVE  ConfigOf(words)[k] = v
  BY DEF ConfigOf

\* CurrentWritesInLimits: a number accepted by validateWritableNumberValue for
\* what is published is in the limits that hold when it is written, unless
\* what bears on them changed since; also when the write is tried again after
\* the inverter took it.
THEOREM LimitsCorrect == Spec => []CurrentWritesInLimits
  <1>1. ASSUME Invariant, NEW c \in command, NEW words \in Encode(c.key, c.value),
               c.current, isWritableNumberRegister(c.key), NEW v \in Decode(c.key, words)
        PROVE  LET config == ConfigOf(device)
               IN  Within(v.number, discoveryNumberLimits(c.key, config,
                                                          config["BatteryType"].text))
    <2> DEFINE k == c.key
               config == ConfigOf(device)
    <2>1. c \in Commands /\ k \in Keys /\ DOMAIN device = Keys /\ DOMAIN config = Keys
      BY <1>1 DEF Invariant, TypeOK, Queued, Commands, ConfigOf
    <2>2. PICK known, battery : AcceptedFor(c, device, known, battery)
      BY <1>1 DEF Invariant, InLimits, Accepted
    <2>3. config["BatteryType"].text = battery
      <3>1. Decode("BatteryType", device["BatteryType"]) = {[text |-> battery]}
        BY <2>2 DEF AcceptedFor
      <3>2. config["BatteryType"] = [text |-> battery]
        BY <2>1, <3>1, ConfigValue, KeysAssumption
      <3> QED BY <3>2
    <2>4. DOMAIN known = Keys
          /\ \A j \in LimitedBy(k) \cap Keys : config[j] = known[j]
      BY <2>1, <2>2, ConfigValue DEF AcceptedFor
    <2> HIDE DEF config
    <2>5. Widening(k, config) = Widening(k, known)
      BY <2>1, <2>4, LimitedByNominals DEF Widening
    <2>6. discoveryNumberLimits(k, config, battery) = discoveryNumberLimits(k, known, battery)
      BY <2>5, LimitsOf, Zenon
    <2>7. k \in IntKeys \cup ScaleKeys
      BY <1>1, <2>1, <2>2, AcceptedNumber
    <2>8. PICK n \in Int : /\ c.value = [number |-> n]
                           /\ Within(n, discoveryNumberLimits(k, known, battery))
      BY <1>1, <2>1, <2>2, AcceptedNumber
    <2>9. Within(v.number, discoveryNumberLimits(k, known, battery))
      BY <1>1, <2>7, <2>8, WrittenWithin
    <2> QED BY <2>3, <2>6, <2>9 DEF config
  <1>2. Invariant => CurrentWritesInLimits
    BY <1>1 DEF CurrentWritesInLimits
  <1> QED BY <1>2, InvariantHolds, PTL

\* WindowsServeTables: the requests buildRegisterWindow and
\* buildRegisterWindows make of the tables are short enough, and none splits
\* a definition.
THEOREM WindowsCorrect == Spec => []WindowsServeTables
  <1>1. inputRegisterWindow.Count <= 125
    BY InputWindow
  <1>2. \A w \in holdingRegisterWindows : w.Count \in 1..45
    BY HoldingWindows
  <1>3. WindowsServeTables
    BY <1>1, <1>2, InputServed, HoldingServed DEF WindowsServeTables
  <1> QED BY <1>3, PTL

=============================================================================
