------------------------ MODULE DeviceSessionProofs ------------------------
(***************************************************************************)
(* Theorems about DeviceSession, for any number of devices, addresses and  *)
(* tries: the command runs on the device that was reset for it and on no   *)
(* other, that device is not given up on while it is there, it is sent     *)
(* back to its application, and success without having run the command     *)
(* means that the tries were used up.                                      *)
(*                                                                         *)
(* What the proofs rest on is how the settings by which devices are looked *)
(* for are changed after a reset (Tracking), and that the devices do not   *)
(* change between an enumeration and the decisions made on it (Listed).    *)
(***************************************************************************)
EXTENDS DeviceSession, FiniteSetTheorems, TLAPS

Filters == {"std", "custom", "any"}
TypeInv ==
    /\ kind \in [Devices -> Kinds]
    /\ mode \in [Devices -> {"app", "bootsel", "absent"}]
    /\ addr \in [Devices -> Addresses]
    /\ request \in Requests
    /\ settings \in [force : BOOLEAN, ser : Devices \cup {NoSerial}, filter : Filters,
                     at : Addresses \cup {"any"}]
    /\ tries \in Nat
    /\ devices \in [bootrom_ok : SUBSET Devices, stdio_usb : SUBSET Devices]
    /\ seen \in [bootsel : SUBSET Devices, app : SUBSET Devices]
    /\ target \in SUBSET Devices

\* How the device that was reset is looked for.
Tracking ==
    /\ target = {} => tries = 0
    /\ target = {} /\ pc \in {"enumerate", "decide"} =>
          settings.ser = request.ser /\ settings.filter = request.filter
    /\ \A d \in target :
        /\ target = {d} /\ tries > 0 /\ request.force /\ request.pre_reboot
        /\ settings.ser = IF request.ser = NoSerial /\ kind[d].serial = "own" THEN d
                          ELSE request.ser
        /\ settings.at = "any"
        /\ settings.filter = IF request.filter = "std" \/ settings.ser = NoSerial THEN "std"
                             ELSE "any"

\* What was listed is still there while it is decided what to do with it.
Listed ==
    pc = "decide" =>
        /\ devices.bootrom_ok = {d \in seen.bootsel : IsBootrom(d)}
        /\ \A d \in seen.bootsel : mode[d] = "bootsel"
        /\ devices.stdio_usb \subseteq seen.app

\* Where the program is, and what has happened by then.
Control ==
    /\ pc \in {"enumerate", "decide", "reboot_back", "exited"}
    /\ pc \in {"enumerate", "decide"} =>
          outcome = "none" /\ returned = {} /\ rc = "ok" /\ settings.force = request.force
    /\ pc = "reboot_back" => outcome = "stayed" /\ executed = devices.bootrom_ok /\ rc = "ok"

SessionInv ==
    /\ TypeInv /\ Tracking /\ Listed /\ Control
    /\ RunsOnTarget /\ FoundAgain /\ SentBack /\ OkMeansExecutedOrStuck

-----------------------------------------------------------------------------

LEMMA RequestTyped == ASSUME TypeInv PROVE request \in RequestType
BY SessionAssumption DEF TypeInv

LEMMA KindTyped == ASSUME TypeInv, NEW d \in Devices PROVE kind[d] \in KindType
BY SessionAssumption DEF TypeInv

\* Once a device was reset, whose serial number is known or was asked for, only one
\* device can be listed, and it is the one that was reset if none was asked for.
LEMMA OnlyTracked ==
    ASSUME SessionInv, pc = "decide", NEW d \in target, kind[d].serial = "own"
    PROVE  /\ devices.bootrom_ok \subseteq {settings.ser}
           /\ request.ser = NoSerial => settings.ser = d
<1>1. d \in Devices BY DEF SessionInv, TypeInv
<1>2. settings.ser # NoSerial
    BY <1>1, SessionAssumption DEF SessionInv, Tracking
<1>3. request.ser = NoSerial => settings.ser = d BY DEF SessionInv, Tracking
<1> QED BY <1>2, <1>3 DEF SessionInv, Listed, IsBootrom

\* A device that was reset is listed when it is there.
LEMMA ResetIsListed ==
    ASSUME SessionInv, pc = "decide", NEW d \in target, d \in seen.bootsel,
           request.ser \in {NoSerial, d},
           request.filter # "std" \/ kind[d].boot = "std"
    PROVE  d \in devices.bootrom_ok
<1>1. d \in Devices /\ kind[d] \in Kinds BY DEF SessionInv, TypeInv
<1>2. kind[d] \in KindType /\ (kind[d].serial = "EE" => kind[d].boot = "std")
    BY <1>1, SessionAssumption
<1>3. mode[d] = "bootsel" /\ Id(d) = kind[d].boot
    BY DEF SessionInv, Listed, Id
<1>4. settings.at = "any" /\ settings.ser \in {NoSerial, d}
    BY DEF SessionInv, Tracking
<1>5. settings.filter \in {"any", Id(d)}
    <2>1. CASE request.filter = "std" BY <1>3, <2>1 DEF SessionInv, Tracking
    <2>2. CASE request.filter # "std" /\ settings.ser # NoSerial
        BY <2>2 DEF SessionInv, Tracking
    <2>3. CASE request.filter # "std" /\ settings.ser = NoSerial
        <3>1. kind[d].serial = "EE"
            BY <1>1, <1>2, <2>3, SessionAssumption DEF SessionInv, Tracking, KindType
        <3> QED BY <1>2, <1>3, <2>3, <3>1 DEF SessionInv, Tracking
    <2> QED BY <2>1, <2>2, <2>3
<1> QED BY <1>3, <1>4, <1>5 DEF SessionInv, Listed, IsBootrom, Selected

-----------------------------------------------------------------------------

LEMMA Initially == Init => SessionInv
<1> SUFFICES ASSUME Init PROVE SessionInv OBVIOUS
<1>1. request \in RequestType BY SessionAssumption DEF Init
<1>2. TypeInv BY <1>1 DEF Init, TypeInv, RequestType, Filters
<1>3. Tracking /\ Listed /\ Control BY DEF Init, Tracking, Listed, Control
<1>4. RunsOnTarget /\ FoundAgain /\ SentBack /\ OkMeansExecutedOrStuck
    BY DEF Init, RunsOnTarget, FoundAgain, SentBack, OkMeansExecutedOrStuck
<1> QED BY <1>2, <1>3, <1>4 DEF SessionInv

LEMMA EnumerateKeeps == SessionInv /\ Enumerate => SessionInv'
<1> SUFFICES ASSUME SessionInv, Enumerate PROVE SessionInv' OBVIOUS
<1> USE DEF Enumerate, usb, progress
<1>1. TypeInv' BY DEF SessionInv, TypeInv
<1>2. Tracking' BY DEF SessionInv, Tracking
<1>3. Listed' BY DEF Listed, IsBootrom, IsStdio, Selected, Id
<1>4. Control' BY DEF SessionInv, Control
<1>5. (RunsOnTarget /\ FoundAgain /\ SentBack /\ OkMeansExecutedOrStuck)'
    BY DEF SessionInv, Control, RunsOnTarget, FoundAgain, SentBack, OkMeansExecutedOrStuck
<1> QED BY <1>1, <1>2, <1>3, <1>4, <1>5 DEF SessionInv

LEMMA NoDeviceKeeps == SessionInv /\ NoDevice => SessionInv'
<1> SUFFICES ASSUME SessionInv, NoDevice PROVE SessionInv' OBVIOUS
<1> USE DEF NoDevice, Exit, usb, progress
<1>1. TypeInv' BY DEF SessionInv, TypeInv
<1>2. Tracking' BY DEF SessionInv, Tracking
<1>3. Listed' /\ Control' BY DEF SessionInv, Listed, Control
<1>4. (RunsOnTarget /\ SentBack /\ OkMeansExecutedOrStuck)'
    BY DEF SessionInv, Control, RunsOnTarget, SentBack, OkMeansExecutedOrStuck
<1>5. FoundAgain' BY ResetIsListed DEF SessionInv, FoundAgain, NoneUsable
<1> QED BY <1>1, <1>2, <1>3, <1>4, <1>5 DEF SessionInv

LEMMA AmbiguousKeeps == SessionInv /\ Ambiguous => SessionInv'
<1> SUFFICES ASSUME SessionInv, Ambiguous PROVE SessionInv' OBVIOUS
<1> USE DEF Ambiguous, Exit, usb, progress
<1>1. TypeInv' BY DEF SessionInv, TypeInv
<1>2. Tracking' BY DEF SessionInv, Tracking
<1>3. Listed' /\ Control' BY DEF SessionInv, Listed, Control
<1>4. (RunsOnTarget /\ FoundAgain /\ SentBack /\ OkMeansExecutedOrStuck)'
    BY DEF SessionInv, Control, RunsOnTarget, FoundAgain, SentBack, OkMeansExecutedOrStuck
<1> QED BY <1>1, <1>2, <1>3, <1>4 DEF SessionInv

\* The one device that can be reset becomes the one that is looked for.
LEMMA ResetKeeps == SessionInv /\ ResetDevice => SessionInv'
<1> SUFFICES ASSUME SessionInv, ResetDevice PROVE SessionInv' OBVIOUS
<1> USE DEF Exit, usb, progress
<1>1. PICK d \in devices.stdio_usb :
        /\ devices.stdio_usb = {d}
        /\ \/ target' = {d} /\ Continue(TrackedSerial(d))
           \/ /\ Exit("usb")
              /\ settings' = [settings EXCEPT !.ser = TrackedSerial(d)]
              /\ UNCHANGED <<target, tries, devices>>
    BY DEF ResetDevice
<1>2. /\ pc = "decide" /\ tries = 0 /\ Forcing /\ request.pre_reboot
      /\ UNCHANGED <<kind, mode, addr, request, seen, executed, outcome, returned>>
    BY DEF ResetDevice
<1>3. /\ d \in Devices /\ kind[d] \in KindType /\ request \in RequestType
      /\ target = {}
    BY RequestTyped, KindTyped, <1>2 DEF SessionInv, TypeInv, Tracking
<1>4. /\ TrackedSerial(d) \in Devices \cup {NoSerial}
      /\ request.force /\ settings.force = request.force
    BY <1>2, <1>3 DEF TrackedSerial, AppSerial, SessionInv, TypeInv, Control, Forcing
<1>5. CASE target' = {d} /\ Continue(TrackedSerial(d))
    <2>1. ~LastTry BY <1>2, SessionAssumption DEF LastTry
    <2>2. /\ settings' = [settings EXCEPT !.ser = TrackedSerial(d), !.at = "any",
                                          !.filter = NextFilter(TrackedSerial(d))]
          /\ tries' = 1 /\ pc' = "enumerate" /\ rc' = rc
          /\ devices' = [bootrom_ok |-> {}, stdio_usb |-> {}]
        BY <1>2, <1>5, <2>1 DEF Continue
    <2>3. NextFilter(TrackedSerial(d)) \in {"std", "any"} BY DEF NextFilter
    <2>4. TypeInv' BY <1>2, <1>3, <1>4, <1>5, <2>2, <2>3 DEF SessionInv, TypeInv, Filters
    <2>5. settings.ser = request.ser /\ settings.filter = request.filter
        BY <1>2, <1>3 DEF SessionInv, Tracking
    <2>6. Tracking'
        <3>1. settings'.at = "any" /\ settings'.filter = NextFilter(TrackedSerial(d))
              /\ settings'.ser = TrackedSerial(d)
            BY <2>2 DEF SessionInv, TypeInv
        <3>2. TrackedSerial(d) = IF request.ser = NoSerial /\ kind[d].serial = "own" THEN d
                                 ELSE request.ser
            BY <1>3, <2>5, SessionAssumption DEF TrackedSerial, AppSerial, KindType
        <3>3. NextFilter(TrackedSerial(d)) =
                 IF request.filter = "std" \/ TrackedSerial(d) = NoSerial THEN "std" ELSE "any"
            BY <2>5 DEF NextFilter
        <3> QED BY <1>2, <1>4, <1>5, <2>2, <3>1, <3>2, <3>3 DEF Tracking
    <2>7. Listed' /\ Control' BY <1>2, <1>4, <2>2 DEF SessionInv, TypeInv, Listed, Control
    <2>8. (RunsOnTarget /\ FoundAgain /\ SentBack /\ OkMeansExecutedOrStuck)'
        BY <1>2, <2>2 DEF SessionInv, Control, RunsOnTarget, FoundAgain, SentBack,
                          OkMeansExecutedOrStuck
    <2> QED BY <2>4, <2>6, <2>7, <2>8 DEF SessionInv
<1>6. CASE Exit("usb") /\ settings' = [settings EXCEPT !.ser = TrackedSerial(d)]
           /\ UNCHANGED <<target, tries, devices>>
    <2>1. TypeInv' BY <1>2, <1>3, <1>4, <1>6 DEF SessionInv, TypeInv
    <2>2. Tracking' /\ Listed' /\ Control'
        BY <1>2, <1>3, <1>6 DEF SessionInv, Tracking, Listed, Control
    <2>3. (RunsOnTarget /\ FoundAgain /\ SentBack /\ OkMeansExecutedOrStuck)'
        BY <1>2, <1>3, <1>6 DEF RunsOnTarget, FoundAgain, SentBack, OkMeansExecutedOrStuck
    <2> QED BY <2>1, <2>2, <2>3 DEF SessionInv
<1> QED BY <1>1, <1>5, <1>6

\* It goes on being looked for in the same way; at the last try the program gives up.
LEMMA WaitKeeps == SessionInv /\ Wait => SessionInv'
<1> SUFFICES ASSUME SessionInv, Wait PROVE SessionInv' OBVIOUS
<1> USE DEF Exit, usb, progress
<1>1. /\ pc = "decide" /\ tries > 0 /\ (NoneUsable => ~LastTry)
      /\ Forcing /\ request.pre_reboot /\ Continue(settings.ser)
      /\ UNCHANGED <<kind, mode, addr, request, seen, target, executed, outcome, returned>>
    BY DEF Wait, StillWaiting
<1>2. /\ settings' = [settings EXCEPT !.ser = settings.ser, !.at = "any",
                                      !.filter = NextFilter(settings.ser)]
      /\ tries' = tries + 1
      /\ devices' = [bootrom_ok |-> {}, stdio_usb |-> {}]
      /\ \/ LastTry /\ pc' = "exited" /\ rc' = "ok"
         \/ ~LastTry /\ pc' = "enumerate" /\ rc' = rc
    BY <1>1 DEF Continue
<1>3. target # {} /\ tries \in Nat BY <1>1 DEF SessionInv, TypeInv, Tracking
<1>4. NextFilter(settings.ser) \in {"std", "any"} BY DEF NextFilter
<1>5. /\ settings'.ser = settings.ser /\ settings'.at = "any"
      /\ settings'.filter = NextFilter(settings.ser) /\ settings'.force = settings.force
    BY <1>2 DEF SessionInv, TypeInv
<1>6. TypeInv'
    <2>1. settings' = [force |-> settings.force, ser |-> settings.ser, at |-> "any",
                       filter |-> NextFilter(settings.ser)]
        BY <1>2 DEF SessionInv, TypeInv
    <2>2. settings' \in [force : BOOLEAN, ser : Devices \cup {NoSerial}, filter : Filters,
                         at : Addresses \cup {"any"}]
        BY <1>4, <2>1 DEF SessionInv, TypeInv, Filters
    <2> QED BY <1>1, <1>2, <2>2 DEF SessionInv, TypeInv
<1>7. Tracking'
    <2> SUFFICES ASSUME NEW d \in target
                 PROVE  /\ target = {d} /\ tries + 1 > 0 /\ request.force /\ request.pre_reboot
                        /\ settings.ser = IF request.ser = NoSerial /\ kind[d].serial = "own"
                                          THEN d ELSE request.ser
                        /\ NextFilter(settings.ser) =
                              IF request.filter = "std" \/ settings.ser = NoSerial THEN "std"
                              ELSE "any"
        BY <1>1, <1>2, <1>3, <1>5 DEF Tracking
    <2>1. settings.filter = IF request.filter = "std" \/ settings.ser = NoSerial THEN "std"
                            ELSE "any"
        BY DEF SessionInv, Tracking
    <2>2. NextFilter(settings.ser) = settings.filter BY <2>1 DEF NextFilter
    <2> QED BY <1>3, <2>1, <2>2 DEF SessionInv, Tracking
<1>8. Listed' /\ Control' BY <1>1, <1>2, <1>5 DEF SessionInv, Listed, Control
<1>9. (RunsOnTarget /\ FoundAgain /\ SentBack)'
    BY <1>1, <1>2 DEF SessionInv, Control, RunsOnTarget, FoundAgain, SentBack
<1>10. OkMeansExecutedOrStuck'
    <2>1. LastTry => seen.app # {}
        BY <1>1 DEF NoneUsable, Forcing, SessionInv, Listed
    <2>2. LastTry => tries' > MAX_REBOOT_TRIES
        BY <1>2, <1>3, SessionAssumption DEF LastTry
    <2> QED BY <1>1, <1>2, <1>3, <2>1, <2>2 DEF OkMeansExecutedOrStuck
<1> QED BY <1>6, <1>7, <1>8, <1>9, <1>10 DEF SessionInv

\* After a reset the command runs in BOOTSEL mode, and then only one device can be listed.
LEMMA ExecuteKeeps == SessionInv /\ Execute => SessionInv'
<1> SUFFICES ASSUME SessionInv, Execute PROVE SessionInv' OBVIOUS
<1> USE DEF Exit, usb, progress
<1>1. PICK o \in {"rebooted", "stayed", "threw"} :
        /\ outcome' = o
        /\ CASE GoesBack(o) -> pc' = "reboot_back" /\ UNCHANGED rc
             [] o = "threw" -> Exit("error")
             [] OTHER -> Exit("ok")
    BY DEF Execute
<1>2. /\ pc = "decide" /\ ~NoneUsable
      /\ Forcing => ~request.pre_reboot
      /\ settings' = [settings EXCEPT !.force = Forcing]
      /\ executed' = IF Forcing THEN devices.stdio_usb ELSE devices.bootrom_ok
      /\ UNCHANGED <<kind, mode, addr, request, tries, devices, seen, target, returned>>
    BY DEF Execute
<1>3. \/ GoesBack(o) /\ o = "stayed" /\ pc' = "reboot_back" /\ rc' = rc
      \/ ~GoesBack(o) /\ pc' = "exited" /\ rc' \in {"error", "ok"}
    BY <1>1 DEF GoesBack
<1>4. /\ settings'.ser = settings.ser /\ settings'.at = settings.at
      /\ settings'.filter = settings.filter /\ Forcing \in BOOLEAN
    BY <1>2 DEF SessionInv, TypeInv, Forcing
<1>5. Cardinality(devices.bootrom_ok) = 1 => devices.bootrom_ok # {} BY FS_EmptySet
<1>6. devices.bootrom_ok # {} => executed' = devices.bootrom_ok BY <1>2 DEF Forcing
<1>7. ASSUME NEW d \in target
      PROVE  /\ devices.bootrom_ok # {} /\ tries > 0
             /\ kind[d].serial = "own" => devices.bootrom_ok = {settings.ser}
             /\ kind[d].serial = "own" /\ request.ser = NoSerial => settings.ser = d
    <2>1. tries > 0 /\ request.force /\ request.pre_reboot BY DEF SessionInv, Tracking
    <2>2. settings.force BY <1>2, <2>1 DEF SessionInv, Control
    <2>3. devices.bootrom_ok # {} BY <1>2, <2>1, <2>2 DEF Forcing
    <2> QED BY <1>2, <2>1, <2>3, OnlyTracked
<1>8. TypeInv' BY <1>2, <1>4 DEF SessionInv, TypeInv
<1>9. Tracking' BY <1>2, <1>3, <1>4 DEF SessionInv, Tracking
<1>10. Listed' BY <1>3 DEF Listed
<1>11. Control' BY <1>1, <1>2, <1>3, <1>5, <1>6 DEF SessionInv, Control, GoesBack
<1>12. RunsOnTarget' BY <1>2, <1>6, <1>7 DEF RunsOnTarget
<1>13. FoundAgain' /\ OkMeansExecutedOrStuck'
    BY <1>1, <1>2, <1>3 DEF SessionInv, Control, FoundAgain, OkMeansExecutedOrStuck
<1>14. SentBack'
    <2> SUFFICES ASSUME NEW d \in target, pc' = "exited", o = "stayed",
                        ~request.force_no_reboot, kind[d].serial = "own"
                 PROVE  FALSE
        BY <1>1, <1>2 DEF SentBack
    <2>1. Cardinality(devices.bootrom_ok) = 1 BY <1>7, FS_Singleton
    <2>2. GoesBack(o) BY <1>7, <2>1 DEF GoesBack
    <2> QED BY <1>3, <2>2
<1> QED BY <1>8, <1>9, <1>10, <1>11, <1>12, <1>13, <1>14 DEF SessionInv

LEMMA RebootBackKeeps == SessionInv /\ RebootBack => SessionInv'
<1> SUFFICES ASSUME SessionInv, RebootBack PROVE SessionInv' OBVIOUS
<1> USE DEF RebootBack, Exit, usb, progress
<1>1. TypeInv' BY DEF SessionInv, TypeInv
<1>2. Tracking' BY DEF SessionInv, Tracking
<1>3. Listed' /\ Control' BY DEF SessionInv, Listed, Control
<1>4. (RunsOnTarget /\ FoundAgain /\ SentBack /\ OkMeansExecutedOrStuck)'
    BY DEF SessionInv, Control, RunsOnTarget, FoundAgain, SentBack, OkMeansExecutedOrStuck
<1> QED BY <1>1, <1>2, <1>3, <1>4 DEF SessionInv

LEMMA DeviceChangesKeeps ==
    ASSUME SessionInv, NEW d \in Devices, DeviceChanges(d) PROVE SessionInv'
<1> USE DEF DeviceChanges, usb, progress
<1>1. TypeInv' BY DEF SessionInv, TypeInv
<1>2. Tracking' BY DEF SessionInv, Tracking
<1>3. Listed' /\ Control' BY DEF SessionInv, Listed, Control
<1>4. (RunsOnTarget /\ FoundAgain /\ SentBack /\ OkMeansExecutedOrStuck)'
    BY DEF SessionInv, Control, RunsOnTarget, FoundAgain, SentBack, OkMeansExecutedOrStuck
<1> QED BY <1>1, <1>2, <1>3, <1>4 DEF SessionInv

LEMMA StutterKeeps == SessionInv /\ UNCHANGED vars => SessionInv'
BY DEF SessionInv, TypeInv, Tracking, Listed, Control, RunsOnTarget, FoundAgain, SentBack,
       OkMeansExecutedOrStuck, IsBootrom, Selected, Id, vars, usb, progress

\* The inductive invariant of the session.
THEOREM SessionInvariant == Spec => []SessionInv
<1>1. SessionInv /\ [Next]_vars => SessionInv'
    BY EnumerateKeeps, NoDeviceKeeps, AmbiguousKeeps, ResetKeeps, WaitKeeps, ExecuteKeeps,
       RebootBackKeeps, DeviceChangesKeeps, StutterKeeps DEF Next, Main
<1> QED BY Initially, <1>1, PTL DEF Spec

-----------------------------------------------------------------------------

\* After a forced reset main() runs the command on the device that was reset, and on
\* no other that came into BOOTSEL mode meanwhile.
THEOREM TargetOnly == Spec => []RunsOnTarget
BY SessionInvariant, PTL DEF SessionInv

\* The device that was reset and is there in BOOTSEL mode is not given up on, although
\* main() may look for it under another address and other ids.
THEOREM NotGivenUpOn == Spec => []FoundAgain
BY SessionInvariant, PTL DEF SessionInv

\* main() does not succeed without having sent a device that it reset, and that the
\* command left in BOOTSEL mode, back to its application.
THEOREM GoesBackToItsApplication == Spec => []SentBack
BY SessionInvariant, PTL DEF SessionInv

\* The only way for main() to succeed without having run the command is that a device
\* was reset for -f, that all tries to find it again were used up, and that at the last
\* one a device that could be reset was seen.
THEOREM SuccessIsExecution == Spec => []OkMeansExecutedOrStuck
BY SessionInvariant, PTL DEF SessionInv
=============================================================================
