----------------------------- MODULE DeviceRegistry -----------------------------
(* The devices and user_devices tables of the backend and everything that      *)
(* writes them: the seed script, the ingestor's auto-registration and claims.  *)
(* No code removes a row of either table.                                      *)
EXTENDS Integers, FiniteSets

CONSTANTS
    User, Device,
    NoDevice      \* the seed script is not running

ASSUME RegistryAssumption == NoDevice \notin Device

VARIABLES
    hash,      \* devices.pairing_code_hash: "none" for a missing row, the
               \* placeholder "unprovisioned", or the code it is the hash of
    owns,      \* user_devices
    seeding,   \* the device of a seed script between its SELECT and its INSERT
    printed,   \* devices whose code a script has printed
    heardFirst \* devices whose row the ingestor has inserted

registry == <<hash, owns, seeding, printed, heardFirst>>

RegistryInit ==
    /\ hash = [d \in Device |-> "none"]
    /\ owns = {}
    /\ seeding = NoDevice
    /\ printed = {} /\ heardFirst = {}

(* Two formulas make a code out of a MAC: the backend's, a hash with a secret, *)
(* which seed_device.py and generate_qr.py print, and the firmware's, an XOR,  *)
(* which buildDeviceId offers over BLE.                                        *)
generate_pairing_code == "backend"
pairingCode == "firmware"
Code == {generate_pairing_code, pairingCode}

--------------------------------------------------------------------------------
(* seed_device.py: a session of its own, next to the running backend.          *)

(* A row that exists is left as it is, whatever hash it has, and the code is   *)
(* printed all the same.                                                       *)
SeedSelects(d) ==
    /\ seeding = NoDevice
    /\ \/ /\ hash[d] = "none" /\ seeding' = d
          /\ UNCHANGED printed
       \/ /\ hash[d] # "none" /\ printed' = printed \cup {d}
          /\ UNCHANGED seeding
    /\ UNCHANGED <<hash, owns, heardFirst>>

(* A row that has appeared since fails the INSERT, and the script with it.     *)
SeedInserts ==
    /\ seeding # NoDevice
    /\ seeding' = NoDevice
    /\ IF hash[seeding] = "none"
       THEN /\ hash' = [hash EXCEPT ![seeding] = generate_pairing_code]
            /\ printed' = printed \cup {seeding}
       ELSE UNCHANGED <<hash, printed>>
    /\ UNCHANGED <<owns, heardFirst>>

Unknown(batch) == {d \in batch : hash[d] = "none"}

(* Mutant: ON CONFLICT DO UPDATE.                                              *)
RegisterAnyway(batch) ==
    /\ hash' = [d \in Device |-> IF d \in batch THEN "unprovisioned" ELSE hash[d]]
    /\ heardFirst' = heardFirst \cup Unknown(batch)
    /\ UNCHANGED <<owns, seeding, printed>>

(* _flush and _handle_meta insert a placeholder for a device without a row.    *)
AutoRegister(batch) ==
    /\ hash' = [d \in Device |-> IF d \in Unknown(batch) THEN "unprovisioned" ELSE hash[d]]
    /\ heardFirst' = heardFirst \cup Unknown(batch)
    /\ UNCHANGED <<owns, seeding, printed>>

--------------------------------------------------------------------------------

(* get_device_or_404 and verify_pairing_code.  A code of another formula is    *)
(* refused with a 403; on the placeholder, which is no hash, bcrypt raises.    *)
CodeIsAccepted(d, code) == hash[d] = code

(* Whoever holds the code may claim; the owner's second claim changes nothing. *)
claim_device(u, d, code) ==
    /\ CodeIsAccepted(d, code)
    /\ owns' = owns \cup {<<u, d>>}
    /\ UNCHANGED <<hash, seeding, printed, heardFirst>>

(* list_user_devices, and the SELECT of get_mqtt_credentials.                  *)
DevicesOf(u) == {d \in Device : <<u, d>> \in owns}

(* The code the seed script has printed works for ever, unless the ingestor    *)
(* heard the device before the script's INSERT: then it never works, whatever  *)
(* runs of the script follow.  No telemetry before, between or after the       *)
(* script's statements replaces a hash it has inserted, and a claimed device   *)
(* keeps the hash it was claimed with.                                         *)
PrintedCodeWorks ==
    \A d \in Device :
        /\ d \in printed => (CodeIsAccepted(d, generate_pairing_code) <=> d \notin heardFirst)
        /\ (\E u \in User : <<u, d>> \in owns) => CodeIsAccepted(d, generate_pairing_code)
================================================================================
