------------------------ MODULE MCRecoveringInverter ------------------------
(* RecoveringInverter with configuration files at the edges of what          *)
(* readConfig accepts.                                                       *)
EXTENDS RecoveringInverter, TLC

N(n) == [number |-> n]
T(t) == [text |-> t]

\* Durations of the order of the backoffs, in tenths of a tick.
Base == "MODBUS.PORT" :> T("/dev/inverter") @@ "RECOVERY.RECONNECT_ATTEMPTS" :> N(30)
        @@ "RECOVERY.INITIAL_BACKOFF_SEC" :> N(10) @@ "RECOVERY.MAX_BACKOFF_SEC" :> N(35)
        @@ "RECOVERY.RESET_COOLDOWN_SEC" :> N(120)

MCFiles ==
    {Base,
     "RECOVERY.INITIAL_BACKOFF_SEC" :> N(4) @@ Base,                \* rounds to none
     "RECOVERY.INITIAL_BACKOFF_SEC" :> N(30) @@ "RECOVERY.RECONNECT_ATTEMPTS" :> N(10) @@ Base,
     "RECOVERY.RESET_COOLDOWN_SEC" :> N(1) @@ Base,
     "MQTT.TLS_ENABLED" :> T("true") @@ "MQTT.TLS_CERT_FILE" :> T("cert")
         @@ "MQTT.TLS_KEY_FILE" :> T("key") @@ "RECOVERY.RESET_COOLDOWN_SEC" :> N(50) @@ Base,
     "MQTT.TLS_CA_FILE" :> T("none") @@ "RECOVERY.MAX_BACKOFF_SEC" :> N(10) @@ Base,
     \* Not accepted:
     "RECOVERY.MAX_BACKOFF_SEC" :> N(9) @@ Base,
     "RECOVERY.RECONNECT_ATTEMPTS" :> N(0) @@ Base,
     "RECOVERY.RECONNECT_ATTEMPTS" :> N(25) @@ Base,
     "RECOVERY.RESET_COOLDOWN_SEC" :> N(-10) @@ Base,
     "RECOVERY.RESET_COOLDOWN_SEC" :> N(10 * MaxDuration + 1) @@ Base,
     "RECOVERY.COOLDOWN" :> N(10) @@ Base,
     "MQTT.TOPIC_PREFIX" :> T("//") @@ Base,
     "MQTT.HA_DEVICE_ID" :> T("house/inverter") @@ Base,
     "MQTT.CLIENT_ID" :> T("inverter+") @@ Base,
     "MQTT.TLS_CA_FILE" :> T("ca") @@ Base,
     "LOGGING.LEVEL" :> T("verbose") @@ Base}
==============================================================================
