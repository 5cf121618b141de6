------------------------------- MODULE Config -------------------------------
(***************************************************************************)
(* readConfig: from an ini file to the settings the service runs with, or  *)
(* to an error (config.go).                                                *)
(*                                                                         *)
(* A file is a function from the keys it contains to their trimmed values: *)
(* a text, or a number in tenths of a tick of time.Duration, finer than a  *)
(* Duration can hold (for a whole number, a tick stands for 1).  As in     *)
(* Registers, a conversion returns the set of its results, empty for an    *)
(* error.  Of a text only its verdict counts: whether it has a control     *)
(* character or wildcard, a slash, nothing but slashes.  The settings kept *)
(* are those a range is checked of; where slashes are trimmed off a topic, *)
(* no verdict changes.                                                     *)
(***************************************************************************)
EXTENDS Integers

CONSTANTS
    Files,      \* what config.ini may contain
    Second,     \* ticks
    MaxKeepalive, MaxWillDelay,   \* 2^16 - 1 and 2^32 - 2 seconds
    MaxDuration,   \* 2^63 - 1 nanoseconds, in ticks
    BadTexts,   \* with a control character or a wildcard
    Paths,      \* with a slash among others
    Slashes     \* with nothing but slashes

ASSUME SecondAssumption ==
    {Second, MaxKeepalive, MaxWillDelay, MaxDuration} \subseteq Nat \ {0}

Number(file, key) == IF "number" \in DOMAIN file[key] THEN {file[key].number} ELSE {}
Text(file, key) == IF "text" \in DOMAIN file[key] THEN {file[key].text} ELSE {}

\* A number is a whole one, in tenths of a tick.
ASSUME FilesAssumption ==
    \A file \in Files : \A key \in DOMAIN file : Number(file, key) \subseteq Int

-----------------------------------------------------------------------------
configSchema ==
    {"MODBUS.PORT", "MODBUS.TIMEOUT_SEC", "MQTT.HOST", "MQTT.PORT", "MQTT.USER",
     "MQTT.PASSWORD", "MQTT.TLS_ENABLED", "MQTT.TLS_CA_FILE",
     "MQTT.TLS_CERT_FILE", "MQTT.TLS_KEY_FILE", "MQTT.TLS_SERVER_NAME",
     "MQTT.CLIENT_ID", "MQTT.KEEPALIVE_SEC", "MQTT.WILL_DELAY_SEC",
     "MQTT.OPERATION_TIMEOUT_SEC", "MQTT.DISCONNECT_TIMEOUT_SEC",
     "MQTT.TOPIC_PREFIX", "MQTT.HA_DISCOVERY_PREFIX", "MQTT.HA_DEVICE_ID",
     "MQTT.HA_DEVICE_NAME", "POLLING.CONFIG_INTERVAL_SEC",
     "POLLING.STATUS_INTERVAL_SEC", "RECOVERY.RECONNECT_ATTEMPTS",
     "RECOVERY.INITIAL_BACKOFF_SEC", "RECOVERY.MAX_BACKOFF_SEC",
     "RECOVERY.RESET_COOLDOWN_SEC", "LOGGING.LEVEL"}

validateConfigSchema(file) == DOMAIN file \subseteq configSchema

validateExplicitValues(file) ==
    /\ \A key \in DOMAIN file \cap
            {"MODBUS.PORT", "MQTT.HOST", "MQTT.CLIENT_ID", "MQTT.TOPIC_PREFIX",
             "MQTT.HA_DISCOVERY_PREFIX", "MQTT.HA_DEVICE_ID",
             "MQTT.HA_DEVICE_NAME", "LOGGING.LEVEL"} : "" \notin Text(file, key)
    /\ \A key \in DOMAIN file \cap {"MQTT.TOPIC_PREFIX", "MQTT.HA_DISCOVERY_PREFIX"} :
            Text(file, key) \cap Slashes = {}

\* A number above 0 that a duration can hold; it may be less than one tick and
\* so become 0.
durationSeconds(file, key, fallback) ==
    IF key \notin DOMAIN file THEN {fallback}
    ELSE {n \div 10 :
          n \in {m \in Number(file, key) : 0 < m /\ m <= 10 * MaxDuration}}

intValue(file, key, fallback) ==
    IF key \notin DOMAIN file THEN {fallback}
    ELSE {n \div 10 : n \in {m \in Number(file, key) : m % 10 = 0}}

boolValue(file, key, fallback) ==
    IF key \notin DOMAIN file THEN {fallback}
    ELSE {b \in BOOLEAN : {} # Text(file, key) \cap
              IF b THEN {"true", "t", "1"} ELSE {"false", "f", "0"}}

value(file, key, fallback) ==
    IF key \notin DOMAIN file THEN {fallback}
    ELSE {IF t = "" THEN fallback ELSE t : t \in Text(file, key)}

optionalValue(file, key) ==
    IF key \notin DOMAIN file THEN {""}
    ELSE {IF t \in {"none", "null", "false"} THEN "" ELSE t : t \in Text(file, key)}

validateMQTTIdentifier(name, pathSafe) ==
    name \notin BadTexts /\ (pathSafe => name \notin Paths \cup Slashes)

validateMQTTTopic(topic) == topic \notin BadTexts

parseLogLevel(level) == level \in {"DEBUG", "INFO", "WARN", "WARNING", "ERROR"}

-----------------------------------------------------------------------------
\* What can be read of the file, if every value can.
Settings(file) ==
    [Port : IF "MODBUS.PORT" \in DOMAIN file THEN Text(file, "MODBUS.PORT") ELSE {},
     Timeout : durationSeconds(file, "MODBUS.TIMEOUT_SEC", (3 * Second) \div 2),
     MQTTPort : intValue(file, "MQTT.PORT", 1883),
     TLSEnabled : boolValue(file, "MQTT.TLS_ENABLED", FALSE),
     TLSCAFile : optionalValue(file, "MQTT.TLS_CA_FILE"),
     TLSCertFile : optionalValue(file, "MQTT.TLS_CERT_FILE"),
     TLSKeyFile : optionalValue(file, "MQTT.TLS_KEY_FILE"),
     TLSServerName : optionalValue(file, "MQTT.TLS_SERVER_NAME"),
     Keepalive : durationSeconds(file, "MQTT.KEEPALIVE_SEC", 60 * Second),
     WillDelay : durationSeconds(file, "MQTT.WILL_DELAY_SEC", 300 * Second),
     OperationTimeout : durationSeconds(file, "MQTT.OPERATION_TIMEOUT_SEC", 10 * Second),
     DisconnectTimeout : durationSeconds(file, "MQTT.DISCONNECT_TIMEOUT_SEC", 5 * Second),
     ConfigInterval : durationSeconds(file, "POLLING.CONFIG_INTERVAL_SEC", 600 * Second),
     StatusInterval : durationSeconds(file, "POLLING.STATUS_INTERVAL_SEC", 2 * Second),
     ReconnectAttempts : intValue(file, "RECOVERY.RECONNECT_ATTEMPTS", 3),
     InitialBackoff : durationSeconds(file, "RECOVERY.INITIAL_BACKOFF_SEC", Second),
     MaxBackoff : durationSeconds(file, "RECOVERY.MAX_BACKOFF_SEC", 10 * Second),
     ResetCooldown : durationSeconds(file, "RECOVERY.RESET_COOLDOWN_SEC", 300 * Second),
     ClientID : UNION {value(file, "MQTT.CLIENT_ID", id) : id \in
                         value(file, "MQTT.HA_DEVICE_ID", "growatt_spf5000es")},
     HADeviceID : value(file, "MQTT.HA_DEVICE_ID", "growatt_spf5000es"),
     TopicPrefix : UNION {value(file, "MQTT.TOPIC_PREFIX", id) : id \in
                            value(file, "MQTT.HA_DEVICE_ID", "growatt_spf5000es")},
     HADiscoveryPrefix : value(file, "MQTT.HA_DISCOVERY_PREFIX", "homeassistant"),
     LogLevel : value(file, "LOGGING.LEVEL", "INFO")]

Ports == 1..65535

BrokenRanges(app) ==   \* the backoffs are not compared
    /\ 10 * app.Timeout >= Second /\ app.StatusInterval >= Second
    /\ app.ReconnectAttempts \in 1..20

\* The ranges that readConfig checks at its end.
Ranges(app) ==
    /\ app.Port # ""
    /\ 10 * app.Timeout >= Second
    /\ app.Keepalive \in Second..MaxKeepalive
    /\ app.WillDelay \in Second..MaxWillDelay
    /\ 10 * app.OperationTimeout >= Second
    /\ app.ConfigInterval >= Second /\ app.StatusInterval >= Second
    /\ app.ReconnectAttempts \in 1..20
    /\ app.MaxBackoff >= app.InitialBackoff
    /\ app.MQTTPort \in Ports
    /\ (app.TLSCertFile = "") <=> (app.TLSKeyFile = "")
    /\ app.TLSEnabled \/ {app.TLSCAFile, app.TLSCertFile, app.TLSServerName} = {""}
    /\ validateMQTTIdentifier(app.ClientID, FALSE)
    /\ validateMQTTIdentifier(app.HADeviceID, TRUE)
    /\ validateMQTTTopic(app.TopicPrefix) /\ validateMQTTTopic(app.HADiscoveryPrefix)
    /\ parseLogLevel(app.LogLevel)

readConfig(file) ==
    IF validateConfigSchema(file) /\ validateExplicitValues(file)
    THEN {app \in Settings(file) : Ranges(app)}
    ELSE {}
=============================================================================
