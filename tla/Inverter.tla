------------------------------ MODULE Inverter ------------------------------
(***************************************************************************)
(* A configuration command from the MQTT message to the register and back  *)
(* to the published state: handleCommand validates it against what was     *)
(* published last, the polling loop hands it to Inverter.WriteConfig, and  *)
(* ReadConfig reads the registers window by window, compares the pending   *)
(* read-backs and delivers the config to the MQTT publisher.               *)
(*                                                                         *)
(* One thread runs the inverter operations (Inverter.mu, the loop), one    *)
(* delivers messages, one publishes; somebody works the front panel.  Each *)
(* Modbus request is a step.  The loop's batches and deadlines are in      *)
(* PollingService, attempts and backoff of the recovery that runs a failed *)
(* operation again in RecoveringInverter.                                  *)
(***************************************************************************)
EXTENDS Registers

CONSTANTS
    Keys,         \* the registers of this instance
    Payloads,     \* what arrives on their command topics, a set per register
    Samples,      \* payloads the conversions are tried on
    QueueSize,    \* pollCommandQueueSize
    InitialRaw,   \* what the inverter holds at first, a number per register
    PanelRaw      \* the numbers the front panel may set, a set per register

ASSUME KeysAssumption ==
    Keys \subseteq DOMAIN holdingByKey /\ "BatteryType" \in Keys

ASSUME InputsAssumption ==
    /\ DOMAIN Payloads \subseteq Keys /\ DOMAIN PanelRaw \subseteq Keys
    /\ \A k \in DOMAIN PanelRaw : PanelRaw[k] \subseteq Int
    /\ \A k \in Keys : /\ InitialRaw[k] \in Int
                       /\ Fits(InitialRaw[k], holdingByKey[k])

ASSUME QueueAssumption == QueueSize \in Nat

VARIABLES
    device,               \* the words the inverter holds, per register
    commands,             \* the queue
    pc, command,          \* the loop: where it is, the command in its hands
    windows, registers,   \* the read: requests left, words read so far
    pendingReadbacks,     \* words to compare, per register written
    pendingConfig,        \* delivered to the publisher, {} if none
    publishing,           \* the config the publisher is at, {} if none
    batteryType, lastPublishedConfig,
    acked,                \* ghost: registers written since a read ended
    touched               \* ghost: changed by another hand since written

reading == <<windows, registers>>
readback == <<pendingReadbacks, acked>>
mqtt == <<pendingConfig, publishing, batteryType, lastPublishedConfig>>
vars == <<device, commands, pc, command, reading, readback, mqtt, touched>>

Nothing == [k \in {} |-> 0]   \* a Go map without entries
With(map, k, v) == [j \in DOMAIN map \cup {k} |-> IF j = k THEN v ELSE map[j]]

Decode(k, words) ==
    Read(holdingByKey[k], decodeRegisterValue(words, holdingByKey[k]))
Encode(k, value) ==
    UNION {encodeRawValue(n, holdingByKey[k]) : n \in Write(holdingByKey[k], value)}

\* What is published when these are the words of all registers.
ConfigOf(words) == [k \in DOMAIN words |-> CHOOSE v \in Decode(k, words[k]) : TRUE]
Decodable(words) == \A k \in DOMAIN words : Decode(k, words[k]) # {}

InRequest(k, w) == InWindow(holdingByKey[k].Start, w)
Init ==
    /\ device = [k \in Keys |-> CHOOSE w \in
                    encodeRawValue(InitialRaw[k], holdingByKey[k]) : TRUE]
    /\ commands = <<>> /\ pc = "idle" /\ command = {}
    /\ windows = {} /\ registers = Nothing
    /\ pendingReadbacks = Nothing /\ acked = {} /\ touched = {}
    /\ pendingConfig = {} /\ publishing = {}
    /\ batteryType = "" /\ lastPublishedConfig = Nothing

-----------------------------------------------------------------------------
\* The limits of a command hold as long as the battery type, the register
\* itself and its nominal maximum are what the service knew of them when it
\* accepted the command.
LimitedBy(k) == {k} \cup {discoveryNominalMaxRegisters[j] :
                             j \in {k} \cap DOMAIN discoveryNominalMaxRegisters}
Known(k) == /\ Decode("BatteryType", device["BatteryType"]) = {[text |-> batteryType]}
            /\ \A j \in LimitedBy(k) \cap Keys :
                   /\ j \in DOMAIN lastPublishedConfig
                   /\ Decode(j, device[j]) = {lastPublishedConfig[j]}
Outdated(c, k) ==
    [c EXCEPT !.current = @ /\ k \notin {"BatteryType"} \cup LimitedBy(c.key)]

\* The register's words are changed, by the loop's own write or the panel.
Changes(k, words) ==
    /\ device' = [device EXCEPT ![k] = words]
    /\ commands' = [i \in DOMAIN commands |-> Outdated(commands[i], k)]

BrokenHandleCommand(k, payload) ==   \* no validation
    /\ Len(commands) < QueueSize
    /\ \E value \in parseMQTTCommandValue(payload) :
           commands' = Append(commands, [key |-> k, value |-> value,
                                         current |-> Known(k)])
    /\ UNCHANGED <<device, pc, command, reading, readback, mqtt, touched>>

BrokenQueue(k, payload) ==   \* the queue's size off by one
    /\ Len(commands) <= QueueSize
    /\ \E value \in parseMQTTCommandValue(payload) :
        /\ validateWritableNumberValue(k, value, lastPublishedConfig, batteryType)
        /\ commands' = Append(commands, [key |-> k, value |-> value,
                                         current |-> Known(k)])
    /\ UNCHANGED <<device, pc, command, reading, readback, mqtt, touched>>

\* onMessage; a refused command changes nothing.
HandleCommand(k, payload) ==
    /\ Len(commands) < QueueSize
    /\ \E value \in parseMQTTCommandValue(payload) :
        /\ validateWritableNumberValue(k, value, lastPublishedConfig, batteryType)
        /\ commands' = Append(commands, [key |-> k, value |-> value,
                                         current |-> Known(k)])
    /\ UNCHANGED <<device, pc, command, reading, readback, mqtt, touched>>

-----------------------------------------------------------------------------
\* WriteConfig up to the request.  A command that cannot be encoded ends
\* here, as a configCommandError.
RejectWrite ==
    /\ pc = "idle" /\ commands # <<>>
    /\ Encode(Head(commands).key, Head(commands).value) = {}
    /\ commands' = Tail(commands)
    /\ UNCHANGED <<device, pc, command, reading, readback, mqtt, touched>>

BeginWrite ==
    /\ pc = "idle" /\ commands # <<>>
    /\ Encode(Head(commands).key, Head(commands).value) # {}
    /\ pc' = "write" /\ command' = {Head(commands)}
    /\ commands' = Tail(commands)
    /\ UNCHANGED <<device, reading, readback, mqtt, touched>>

BrokenWriteOk ==   \* a second write keeps the first read-back
    /\ pc = "write" /\ pc' = "idle" /\ command' = {}
    /\ \E c \in command : \E words \in Encode(c.key, c.value) :
        /\ Changes(c.key, words)
        /\ pendingReadbacks' = With(pendingReadbacks, c.key,
               IF c.key \in DOMAIN pendingReadbacks
               THEN pendingReadbacks[c.key] ELSE words)
        /\ acked' = acked \cup {c.key} /\ touched' = touched \ {c.key}
    /\ UNCHANGED <<reading, mqtt>>

\* The request is acknowledged: remember what to compare.
WriteOk ==
    /\ pc = "write" /\ pc' = "idle" /\ command' = {}
    /\ \E c \in command : \E words \in Encode(c.key, c.value) :
        /\ Changes(c.key, words)
        /\ pendingReadbacks' = With(pendingReadbacks, c.key, words)
        /\ acked' = acked \cup {c.key} /\ touched' = touched \ {c.key}
    /\ UNCHANGED <<reading, mqtt>>

\* It is not, although the inverter may have taken it.  A fatal error leads
\* to recovery; after a cancelled context the process ends (End).
WriteFails ==
    /\ pc = "write" /\ pc' = "recover"
    /\ \E c \in command : \E words \in Encode(c.key, c.value) :
        \/ Changes(c.key, words) /\ touched' = touched \cup {c.key}
        \/ UNCHANGED <<device, commands, touched>>
    /\ UNCHANGED <<command, reading, readback, mqtt>>

-----------------------------------------------------------------------------
BeginRead ==
    /\ pc = "idle" /\ pc' = "read"
    /\ windows' = holdingRegisterWindows /\ registers' = Nothing
    /\ UNCHANGED <<device, commands, command, readback, mqtt, touched>>

\* One request of readRegisterWindows.
ReadWindow ==
    /\ pc = "read"
    /\ \E w \in windows :
        /\ \A v \in windows : w.Start <= v.Start
        /\ registers' = [k \in DOMAIN registers \cup {j \in Keys : InRequest(j, w)} |->
                            IF InRequest(k, w) THEN device[k] ELSE registers[k]]
        /\ windows' = windows \ {w}
    /\ pc' = IF windows' = {} THEN "decode" ELSE pc
    /\ UNCHANGED <<device, commands, command, readback, mqtt, touched>>

\* The request fails: the deferred clear forgets the read-backs although the
\* read is run again.  (Answered short, it ends the process: End.)
ReadFails ==
    /\ pc = "read" /\ pc' = "recover"
    /\ windows' = {} /\ registers' = Nothing
    /\ pendingReadbacks' = Nothing /\ acked' = {}
    /\ UNCHANGED <<device, commands, command, mqtt, touched>>

\* Compare (the verdicts are only logged), clear, deliver.
ReadOk ==
    /\ pc = "decode" /\ Decodable(registers)
    /\ pc' = "idle" /\ windows' = {} /\ registers' = Nothing
    /\ pendingReadbacks' = Nothing /\ acked' = {}
    /\ pendingConfig' = {ConfigOf(registers)}
    /\ UNCHANGED <<device, commands, command, publishing, batteryType,
                   lastPublishedConfig, touched>>

\* Recovery has a link again and runs the operation once more, from its
\* beginning.
Retry ==
    /\ pc = "recover"
    /\ IF command = {}
       THEN pc' = "read" /\ windows' = holdingRegisterWindows /\ registers' = Nothing
       ELSE pc' = "write" /\ UNCHANGED reading
    /\ UNCHANGED <<device, commands, command, readback, mqtt, touched>>

\* The process ends: it is stopped or killed, recovery gives up, or it reads
\* a number that an enum does not know.  systemd starts a new one, which
\* knows nothing.
End ==
    /\ commands' = <<>> /\ pc' = "idle" /\ command' = {}
    /\ windows' = {} /\ registers' = Nothing
    /\ pendingReadbacks' = Nothing /\ acked' = {} /\ touched' = {}
    /\ pendingConfig' = {} /\ publishing' = {}
    /\ batteryType' = "" /\ lastPublishedConfig' = Nothing
    /\ UNCHANGED device

DecodeFails == pc = "decode" /\ ~Decodable(registers) /\ End

-----------------------------------------------------------------------------
\* publishConfig: the battery type, then the config, each under the lock.
PublishBatteryType ==
    /\ pendingConfig # {} /\ publishing = {}
    /\ publishing' = pendingConfig /\ pendingConfig' = {}
    /\ \E config \in pendingConfig : batteryType' = config["BatteryType"].text
    /\ UNCHANGED <<device, commands, pc, command, reading, readback,
                   lastPublishedConfig, touched>>

RememberConfig ==
    /\ \E config \in publishing : lastPublishedConfig' = config
    /\ publishing' = {}
    /\ UNCHANGED <<device, commands, pc, command, reading, readback,
                   pendingConfig, batteryType, touched>>

\* Somebody turns a knob, or the inverter changes a setting by itself.
Panel(k, raw) ==
    /\ \E words \in encodeRawValue(raw, holdingByKey[k]) :
        words # device[k] /\ Changes(k, words)
    /\ command' = {Outdated(c, k) : c \in command}
    /\ touched' = touched \cup {k}
    /\ UNCHANGED <<pc, reading, readback, mqtt>>

Next ==
    \/ \E k \in DOMAIN Payloads : \E payload \in Payloads[k] : HandleCommand(k, payload)
    \/ RejectWrite \/ BeginWrite \/ WriteOk \/ WriteFails
    \/ BeginRead \/ ReadWindow \/ ReadFails \/ DecodeFails \/ ReadOk
    \/ Retry \/ End \/ PublishBatteryType \/ RememberConfig
    \/ \E k \in DOMAIN PanelRaw : \E raw \in PanelRaw[k] : Panel(k, raw)

Spec == Init /\ [][Next]_vars

-----------------------------------------------------------------------------
\* Every variable keeps its type.  Whatever is kept for comparison is the
\* size of its register.
TypeOK ==
    /\ DOMAIN device = Keys /\ Len(commands) <= QueueSize
    /\ pc \in {"idle", "write", "read", "decode", "recover"}
    /\ (windows # {}) <=> (pc = "read")
    /\ DOMAIN registers \subseteq Keys /\ DOMAIN pendingReadbacks \subseteq Keys
    /\ \A k \in DOMAIN pendingReadbacks :
           Len(pendingReadbacks[k]) = holdingByKey[k].Length
    /\ DOMAIN lastPublishedConfig \in {{}, Keys}
    /\ acked \subseteq Keys /\ touched \subseteq Keys

\* Three properties of tables and conversions.  They do not depend on what
\* happened before, so they are stated of the initial states.

\* The requests built from the register tables are good: none longer than
\* the inverter answers (45 holding registers, 125 words in Modbus), no word
\* asked for twice, every definition served, and none split between two
\* requests, where it could be torn by a change in between.
WindowsServeTables ==
    Init =>
    /\ inputRegisterWindow.Count <= 125
    /\ \A d \in inputRegisters : /\ InWindow(d.Start, inputRegisterWindow)
                                 /\ InWindow(LastWord(d), inputRegisterWindow)
    /\ \A w \in holdingRegisterWindows : w.Count \in 1..45
    /\ \A d \in holdingRegisters : \E w \in holdingRegisterWindows :
           \A a \in d.Start..LastWord(d) : \A v \in holdingRegisterWindows :
               InWindow(a, v) <=> v = w

Means(v, value) ==
    CASE Is(v, "text") -> v = value
      [] Is(v, "bool") -> parseBool(value) = {v.bool}
      [] Is(v, "number") -> \E n \in asFloat64(value) : v.number - n \in -5..5

\* Whatever a payload and a register: words the service would write mean
\* what was asked.  Read back they give the option or the switch position
\* asked for, or the number to the register's resolution.  In particular
\* they can be read: WriteConfig never fails after the inverter took the
\* value, which would end the service.  And the options a select entity
\* offers are exactly those its register can have (the pairs of Read and
\* Write transforms, encoding and decoding, the tables of enums).
WritesMeanWhatWasAsked ==
    Init =>
    /\ \A k \in DOMAIN holdingByKey, payload \in Samples :
        \A value \in parseMQTTCommandValue(payload) :
            \A words \in Encode(k, value) :
                \E v \in Decode(k, words) : Means(v, value)
    /\ \A k \in DOMAIN selectOptions : LET enum == enums[holdingByKey[k].Read]
           IN  {enum[n] : n \in DOMAIN enum} = [text : selectOptions[k]]

\* What the service may know of the battery, none and a lithium one included.
SampleBatteries == {"", "AGM", "Lithium"}

\* A config of charge currents, in amperes: inside the limits, above them, and
\* above the nominal maximum, 300, too.
SampleAmps == {60, 100, 200, 400}
Currents(amps) ==
    [j \in {"ACChargeAmps", "MaxChargeAmps", "NomAcChgCurrRaw", "ParaMaxChgAmps"} |->
        [number |-> 100 * IF j \in {"ACChargeAmps", "MaxChargeAmps"} THEN amps ELSE 300]]

AcceptedFits(k, value, config, battery) ==
    LET Written == UNION {Decode(k, words) : words \in Encode(k, value)}
    IN  validateWritableNumberValue(k, value, config, battery) =>
            /\ Written = {} => /\ holdingByKey[k].Write = "intWrite"
                               /\ value.number % 100 # 0
            /\ \A v \in Written :
                   Within(v.number, discoveryNumberLimits(k, config, battery))

\* A number the MQTT service accepts can be written, unless the register
\* takes whole numbers only, and what is written keeps the limits it was
\* accepted for (validateWritableNumberValue against scaleWrite, intWrite
\* and encodeRawValue).
AcceptedNumbersFit ==
    Init =>
     \A k \in {j \in DOMAIN holdingByKey : isWritableNumberRegister(j)},
          payload \in Samples, battery \in SampleBatteries, amps \in SampleAmps :
        \A value \in parseMQTTCommandValue(payload) :
            AcceptedFits(k, value, Currents(amps), battery)

\* A number is written only inside the limits that hold for it, given that
\* battery type, register and nominal maximum still are what the service had
\* published when the command came (validateWritableNumberValue at the
\* message, rounding and encoding at the write).
CurrentWritesInLimits ==
    pc = "write" => \A c \in command : \A words \in Encode(c.key, c.value) :
        c.current /\ isWritableNumberRegister(c.key) /\ Decodable(device) =>
            LET config == ConfigOf(device)
            IN  \A v \in Decode(c.key, words) : Within(v.number,
                    discoveryNumberLimits(c.key, config, config["BatteryType"].text))

\* When a read is about to be compared, every write acknowledged since the
\* last read, complete or failed, is compared with what it wrote; and a
\* difference is due to another hand, or to a write that was not
\* acknowledged (pendingReadbacks in WriteConfig, ReadConfig and
\* reconcilePendingReadback).
WritesVerified ==
    pc = "decode" =>
        /\ acked \subseteq DOMAIN pendingReadbacks
        /\ \A k \in DOMAIN pendingReadbacks :
               registers[k] # pendingReadbacks[k] => k \in touched
=============================================================================
