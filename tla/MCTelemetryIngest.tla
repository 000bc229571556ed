--------------------------- MODULE MCTelemetryIngest ---------------------------
(* Two devices.  Messages 1 and 3 are samples of d1 with the same timestamp,   *)
(* as a device without NTP sends after a reset; 2 and 4 are the meta payloads  *)
(* of two of its boots; 5 is a sample of d2 and 6 a broken message of it.      *)
EXTENDS TelemetryIngest

CONSTANTS d1, d2

MCLastMessage == 6
MCRows == {1, 3, 5}
MCMetas == {2, 4}
MCBroken == {6}
MCDevice == {d1, d2}
MCDeviceOf == [m \in 1 .. MCLastMessage |-> IF m < 5 THEN d1 ELSE d2]
MCKey == [m \in MCRows |-> IF m = 5 THEN "b" ELSE "a"]
================================================================================
