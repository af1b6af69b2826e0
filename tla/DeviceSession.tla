---------------------------- MODULE DeviceSession ----------------------------
(***************************************************************************)
(* main() of main.cpp for a command that targets devices: the enumeration  *)
(* of the USB devices (picoboot_open_device, as far as it selects them),   *)
(* the choice of what to do with them, -f / -F, which reset a running      *)
(* device into BOOTSEL mode and look for it again up to MAX_REBOOT_TRIES   *)
(* times, the command itself and the reboot back into the application.     *)
(*                                                                         *)
(* Devices come, go, change their mode and their bus address as they like  *)
(* while the program enumerates or sleeps.  The command is a choice of its *)
(* outcomes.  Abstracted: messages, LED options, Windows drivers.  The     *)
(* early end of an enumeration that has found the serial number changes    *)
(* nothing: a BOOTSEL device found makes the others irrelevant.            *)
(***************************************************************************)
EXTENDS Naturals, FiniteSets

CONSTANTS
    Devices,
    Addresses,          \* bus and device address
    NoSerial,           \* settings.ser is empty
    MAX_REBOOT_TRIES,
    Kinds,              \* what a device may be, see KindType
    Requests            \* command lines, see RequestType

\* How a device identifies itself: its serial number while it runs an
\* application ("EE..." for an RP2040 running from RAM), and whether its vid/pid
\* are the standard ones, in the application and in BOOTSEL mode.
KindType == [serial : {"own", "EE"}, app : {"std", "custom"}, boot : {"std", "custom"}]

\* device_support and force_requires_pre_reboot of the command, and the options.
RequestType == [support : {"one", "zero_or_more"}, pre_reboot : BOOLEAN,
                force : BOOLEAN, force_no_reboot : BOOLEAN,
                ser : Devices \cup {NoSerial}, filter : {"std", "custom", "any"},
                at : Addresses \cup {"any"}]

ASSUME SessionAssumption ==
    /\ MAX_REBOOT_TRIES \in Nat \ {0}
    /\ NoSerial \notin Devices /\ "EE" \notin Devices /\ NoSerial # "EE"
    /\ Kinds \subseteq KindType /\ Requests \subseteq RequestType
    /\ \A k \in Kinds : k.serial = "EE" => k.boot = "std"
    /\ \A r \in Requests : r.force_no_reboot => r.force

VARIABLES
    kind, mode, addr,   \* the devices
    request,            \* the command line
    settings,           \* force, ser, filter and at of it, as they are changed
    tries,
    devices,            \* the device_map: BOOTSEL devices, resettable devices
    seen,               \* what could be opened when devices was made, by mode
    target,             \* the device that was reset, {} if none
    executed, outcome,  \* the devices the command ran on, and how it ended
    returned,           \* the devices asked to go back to their application
    pc, rc

usb == <<kind, mode, addr>>
progress == <<target, executed, outcome, returned>>
vars == <<usb, request, settings, tries, devices, seen, progress, pc, rc>>

-----------------------------------------------------------------------------
(* picoboot_open_device                                                    *)

Id(d) == IF mode[d] = "app" THEN kind[d].app ELSE kind[d].boot
Selected(d) ==
    /\ settings.at \in {"any", addr[d]}
    /\ settings.filter \in {"any", Id(d)}
AppSerial(d) == IF kind[d].serial = "own" THEN d ELSE "EE"

\* With the standard ids the product id tells a running application and its
\* serial number is compared; otherwise the reset interface does, and it is not.
IsStdio(d) ==
    /\ mode[d] = "app" /\ Selected(d)
    /\ settings.filter = "std" => settings.ser \in {NoSerial, AppSerial(d)}
IsBootrom(d) ==
    /\ mode[d] = "bootsel" /\ Selected(d)
    /\ settings.ser \in {NoSerial, d}

Enumerate ==
    /\ pc = "enumerate"
    /\ \E openable \in SUBSET Devices :
          /\ devices' = [bootrom_ok |-> {d \in openable : IsBootrom(d)},
                         stdio_usb |-> {d \in openable : IsStdio(d)}]
          /\ seen' = [bootsel |-> {d \in openable : mode[d] = "bootsel"},
                      app |-> {d \in openable : mode[d] = "app"}]
    /\ pc' = "decide"
    /\ UNCHANGED <<usb, request, settings, tries, progress, rc>>

-----------------------------------------------------------------------------
(* The body of the loop.                                                   *)

Exit(code) == pc' = "exited" /\ rc' = code

NoneUsable ==
    devices.bootrom_ok = {} /\ (~settings.force \/ devices.stdio_usb = {})
TooMany ==
    /\ request.support = "one"
    /\ \/ Cardinality(devices.bootrom_ok) > 1
       \/ devices.bootrom_ok = {} /\ Cardinality(devices.stdio_usb) > 1

\* A usable device makes -f unnecessary.
Forcing == settings.force /\ devices.bootrom_ok = {}

LastTry == tries = MAX_REBOOT_TRIES

NoDevice ==
    /\ pc = "decide" /\ NoneUsable
    /\ tries = 0 \/ LastTry
    /\ Exit("no_device")
    /\ UNCHANGED <<usb, request, settings, tries, devices, seen, progress>>

Ambiguous ==
    /\ pc = "decide" /\ ~NoneUsable
    /\ \/ TooMany
       \/ Forcing /\ tries = 0 /\ Cardinality(devices.stdio_usb) # 1
    /\ Exit("not_possible")
    /\ UNCHANGED <<usb, request, settings, tries, devices, seen, progress>>

\* The end of the iteration: bus and address may change and are not looked at
\* any more, nor are vid and pid if they were, provided the serial number is known.
NextFilter_Kept(ser) == settings.filter
NextFilter(ser) ==
    CASE settings.filter = "std" -> "std"
      [] settings.filter # "std" /\ ser = NoSerial -> "std"
      [] OTHER -> "any"
Continue_Uncounted(ser) ==
    /\ settings' = [settings EXCEPT !.ser = ser, !.at = "any", !.filter = NextFilter(ser)]
    /\ devices' = [bootrom_ok |-> {}, stdio_usb |-> {}]
    /\ pc' = "enumerate" /\ UNCHANGED <<tries, rc>>
Continue(ser) ==
    /\ settings' = [settings EXCEPT !.ser = ser, !.at = "any", !.filter = NextFilter(ser)]
    /\ tries' = tries + 1
    /\ devices' = [bootrom_ok |-> {}, stdio_usb |-> {}]
    /\ IF LastTry THEN Exit("ok") ELSE pc' = "enumerate" /\ UNCHANGED rc

\* The serial number by which the device is found again.
TrackedSerial_Untracked(d) == settings.ser
TrackedSerial(d) ==
    IF settings.ser = NoSerial /\ AppSerial(d) # "EE" THEN AppSerial(d) ELSE settings.ser

\* reboot_device into BOOTSEL mode. Whether the request arrives is not checked;
\* not being able to make it is an error.
ResetDevice ==
    /\ pc = "decide" /\ ~NoneUsable /\ ~TooMany
    /\ Forcing /\ request.pre_reboot /\ tries = 0
    /\ \E d \in devices.stdio_usb :
          /\ devices.stdio_usb = {d}
          /\ \/ target' = {d} /\ Continue(TrackedSerial(d))
             \/ /\ Exit("usb")
                /\ settings' = [settings EXCEPT !.ser = TrackedSerial(d)]
                /\ UNCHANGED <<target, tries, devices>>
    /\ UNCHANGED <<usb, request, seen, executed, outcome, returned>>

\* The device has not shown up in BOOTSEL mode, whatever else there is.
StillWaiting_EveryTry == tries > 0
StillWaiting == tries > 0 /\ (NoneUsable => ~LastTry)
Wait ==
    /\ pc = "decide" /\ StillWaiting
    /\ NoneUsable \/ ~TooMany
    /\ Forcing /\ request.pre_reboot
    /\ Continue(settings.ser)
    /\ UNCHANGED <<usb, request, seen, progress>>

\* The command runs. It may have rebooted the device itself, may leave it as it
\* is, or may throw; the device is rebooted if the program reset it before.
GoesBack_Never(o) == FALSE
GoesBack(o) ==
    /\ o = "stayed" /\ tries > 0 /\ ~request.force_no_reboot
    /\ Cardinality(devices.bootrom_ok) = 1
Execute ==
    /\ pc = "decide" /\ ~NoneUsable /\ ~TooMany
    /\ Forcing => ~request.pre_reboot /\ (tries = 0 => Cardinality(devices.stdio_usb) = 1)
    /\ settings' = [settings EXCEPT !.force = Forcing]
    /\ executed' = IF Forcing THEN devices.stdio_usb ELSE devices.bootrom_ok
    /\ \E o \in {"rebooted", "stayed", "threw"} :
          /\ outcome' = o
          /\ CASE GoesBack(o) -> pc' = "reboot_back" /\ UNCHANGED rc
               [] o = "threw" -> Exit("error")
               [] OTHER -> Exit("ok")
    /\ UNCHANGED <<usb, request, tries, devices, seen, target, returned>>

RebootBack ==
    /\ pc = "reboot_back"
    /\ \/ returned' = devices.bootrom_ok /\ Exit("ok")
       \/ returned' = {} /\ Exit("error")
    /\ UNCHANGED <<usb, request, settings, tries, devices, seen, target,
                   executed, outcome>>

-----------------------------------------------------------------------------
\* A device is plugged in or out, restarts, or is put into BOOTSEL mode.
DeviceChanges(d) ==
    /\ pc = "enumerate"
    /\ \E m \in {"app", "bootsel", "absent"} : mode' = [mode EXCEPT ![d] = m]
    /\ \E a \in Addresses : addr' = [addr EXCEPT ![d] = a]
    /\ UNCHANGED <<kind, request, settings, tries, devices, seen, progress, pc, rc>>

Init ==
    /\ kind \in [Devices -> Kinds]
    /\ mode \in [Devices -> {"app", "bootsel", "absent"}]
    /\ addr \in [Devices -> Addresses]
    /\ request \in Requests
    /\ settings = [force |-> request.force, ser |-> request.ser,
                   filter |-> request.filter, at |-> request.at]
    /\ tries = 0
    /\ devices = [bootrom_ok |-> {}, stdio_usb |-> {}]
    /\ seen = [bootsel |-> {}, app |-> {}]
    /\ target = {} /\ executed = {} /\ outcome = "none" /\ returned = {}
    /\ pc = "enumerate" /\ rc = "ok"

Main == Enumerate \/ NoDevice \/ Ambiguous \/ ResetDevice \/ Wait \/ Execute \/ RebootBack
Next == Main \/ \E d \in Devices : DeviceChanges(d)

Spec == Init /\ [][Next]_vars

\* The program itself never waits for anything but a sleep.
FairSpec == Spec /\ WF_vars(Main)

-----------------------------------------------------------------------------
(* Properties.                                                             *)

\* After a forced reset the command runs on the device that was reset and on no
\* other that is or comes into BOOTSEL mode meanwhile, if its serial is known.
RunsOnTarget ==
    \A d \in target :
        outcome # "none" /\ request.ser = NoSerial /\ kind[d].serial = "own"
        => executed = {d}

\* A device that was reset and is there in BOOTSEL mode at the last enumeration
\* is not given up on, even if it has another address and other ids than before.
FoundAgain ==
    \A d \in target :
        /\ rc = "no_device" /\ request.ser \in {NoSerial, d}
        /\ request.filter # "std" \/ kind[d].boot = "std"
        => d \notin seen.bootsel

\* A command that ran after a device was reset for it, and left the devices as
\* they are, has them all sent back to their application, unless -F says
\* otherwise; failing to is an error.
SentBack ==
    \A d \in target :
        /\ pc = "exited" /\ rc = "ok" /\ outcome = "stayed"
        /\ ~request.force_no_reboot /\ kind[d].serial = "own"
        => executed \subseteq returned

\* The program exits with success and without having run its command only when
\* a device was reset, all tries were used up, and one that could be reset is still
\* there at the last of them.
OkMeansExecutedOrStuck ==
    pc = "exited" /\ rc = "ok" /\ outcome = "none"
    => target # {} /\ tries > MAX_REBOOT_TRIES /\ seen.app # {}

\* The program ends.
Ends == <>(pc = "exited")
=============================================================================
