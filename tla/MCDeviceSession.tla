--------------------------- MODULE MCDeviceSession ---------------------------
(* DeviceSession with two devices of every kind and the options that matter.*)
EXTENDS DeviceSession

AllKinds ==
    {[serial |-> "own", app |-> "std", boot |-> "std"],
     [serial |-> "EE", app |-> "std", boot |-> "std"],
     [serial |-> "own", app |-> "custom", boot |-> "custom"],
     [serial |-> "own", app |-> "custom", boot |-> "std"],
     [serial |-> "own", app |-> "std", boot |-> "custom"]}

\* --bus and --address together with one serial number are enough.
AllRequests ==
    {r \in RequestType :
        /\ r.force_no_reboot => r.force
        /\ r.at = "any" \/ (r.ser = NoSerial /\ r.force /\ r.pre_reboot)
        /\ ~r.pre_reboot => r.support = "one" /\ ~r.force_no_reboot /\ r.ser = NoSerial
        /\ r.support = "zero_or_more" => r.ser = NoSerial /\ r.filter # "any"
        /\ ~r.force => r.filter # "any"}
=============================================================================
