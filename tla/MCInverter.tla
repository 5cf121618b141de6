------------------------------ MODULE MCInverter ------------------------------
(* Inverter on a small instance: the battery type and a threshold whose    *)
(* limits depend on it, read by the first and the last of three requests.   *)
EXTENDS Inverter, TLC

MCNumeral ==
    "0" :> 0 @@ "1" :> 100 @@ "5.5" :> 550 @@ "20.04" :> 2004 @@ "23" :> 2300
    @@ "55.95" :> 5595 @@ "63.96" :> 6396 @@ "80" :> 8000 @@ "99.99" :> 9999
    @@ "100" :> 10000 @@ "-0.04" :> -4 @@ "65535" :> 6553500 @@ "65536" :> 6553600

MCSamples ==
    [quoted : BOOLEAN,
     text : DOMAIN MCNumeral \cup {"on", "off", "true", "no", "maybe", "SUB",
                                   "USE2", "Lithium", "NaN"}]

Bare(texts) == [quoted : {FALSE}, text : texts]

MCPayloads ==
    [BatteryType |-> Bare({"AGM", "Lithium", "maybe"}),
     uwAC2BatVolt |-> Bare({"80", "63.96"})]

MCInitialRaw == [BatteryType |-> 3, uwAC2BatVolt |-> 800]
MCPanelRaw == [BatteryType |-> {0, 9}, uwAC2BatVolt |-> {500}]
===============================================================================
