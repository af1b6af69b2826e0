------------------------- MODULE PicobootConnection -------------------------
(***************************************************************************)
(* The host side of the PICOBOOT protocol: picoboot_connection.c, which    *)
(* sends one command at a time over USB and caches what it believes about  *)
(* the device (xip_state, definitely_exclusive), and the C++ class         *)
(* picoboot::connection, which wraps every call (wrap_call), recovers from *)
(* a failed one and restores exclusive access in its destructor.           *)
(*                                                                         *)
(* The device (its execute-in-place state, its exclusive lock, the command *)
(* it has received and not yet carried out) is the environment: it may     *)
(* stall a command, carry it out late, or lose an answer, and its          *)
(* mass-storage interface is used by the operating system whenever the     *)
(* exclusive lock is not held.  Any transfer may fail at any time, which   *)
(* also stands for a timeout and for a device that has been unplugged.     *)
(*                                                                         *)
(* Abstracted: payloads, tokens, status codes and the lengths of timeouts. *)
(***************************************************************************)
EXTENDS Naturals

VARIABLES
    xip_state,              \* static xip_state: what the host believes
    definitely_exclusive,   \* static definitely_exclusive
    saved,                  \* saved_xip_state and saved_exclusive of picoboot_cmd
    cmd,                    \* the command picoboot_cmd is sending
    pc,                     \* where the host is
    ctx,                    \* on whose behalf: constructor, call, destructor, open
    fid,                    \* stage of picoboot_flash_id, "none" outside it
    fidOk,                  \* its ret is still 0
    exclusive,              \* connection::exclusive
    devXip,                 \* device: XIP is active or inactive
    devExclusive,           \* device: PICOBOOT holds the exclusive lock
    devCmd                  \* device: received, not carried out; "none", or "done"

host == <<xip_state, definitely_exclusive, saved>>
conn == <<cmd, pc, ctx, fid, fidOk, exclusive>>
device == <<devXip, devExclusive, devCmd>>
vars == <<host, conn, device>>

XipStates == {"XIP_UNKOWN", "XIP_ACTIVE", "XIP_INACTIVE"}
DevXipStates == {"active", "inactive"}

\* The commands, EXCLUSIVE_ACCESS split by its argument. EXEC stands for every
\* command without a data phase that the caches know nothing about (EXEC,
\* FLASH_ERASE, REBOOT, REBOOT2, VECTORIZE_FLASH), GET_INFO also for OTP_READ.
Commands == {"EXCLUSIVE", "NOT_EXCLUSIVE", "EXIT_XIP", "ENTER_CMD_XIP", "READ",
             "WRITE", "EXEC", "GET_INFO", "OTP_WRITE"}
HasDataPhase(c) == c \in {"READ", "WRITE", "GET_INFO", "OTP_WRITE"}

Stages == {"none", "claim", "exit", "write", "exec", "read", "release"}
PCs == {"closed", "idle", "send", "data", "ack", "fid", "failed", "reset",
        "recover", "thrown", "destroyed", "terminated"}

TypeOK ==
    /\ xip_state \in XipStates
    /\ definitely_exclusive \in BOOLEAN
    /\ saved \in [xip : XipStates, exclusive : BOOLEAN]
    /\ cmd \in Commands
    /\ pc \in PCs
    /\ ctx \in {"open", "ctor", "op", "dtor"}
    /\ fid \in Stages
    /\ fidOk \in BOOLEAN
    /\ exclusive \in BOOLEAN
    /\ devXip \in DevXipStates
    /\ devExclusive \in BOOLEAN
    /\ devCmd \in Commands \cup {"none", "done"}

Init ==
    /\ xip_state = "XIP_UNKOWN"
    /\ definitely_exclusive = FALSE
    /\ saved = [xip |-> "XIP_UNKOWN", exclusive |-> FALSE]
    /\ cmd = "READ"
    /\ pc = "closed"
    /\ ctx = "open"
    /\ fid = "none"
    /\ fidOk = TRUE
    /\ exclusive = FALSE
    /\ devXip \in DevXipStates
    /\ devExclusive \in BOOLEAN
    /\ devCmd = "none"

-----------------------------------------------------------------------------
(* What the caches say.                                                    *)

CanSkip_NoExclusive(xip, excl) == xip = "XIP_INACTIVE"
CanSkip(xip, excl) == excl /\ xip = "XIP_INACTIVE"

\* The caches after an acknowledged command.
XipAfter(c, before) ==
    CASE c = "EXIT_XIP" -> "XIP_INACTIVE"
      [] c = "ENTER_CMD_XIP" -> "XIP_ACTIVE"
      [] c \in {"READ", "WRITE"} -> before
      [] OTHER -> "XIP_UNKOWN"

ExclusiveAfter_ExecKept(c, before) ==
    CASE c = "EXCLUSIVE" -> TRUE
      [] c = "NOT_EXCLUSIVE" -> FALSE
      [] OTHER -> before
ExclusiveAfter(c, before) ==
    CASE c = "EXCLUSIVE" -> TRUE
      [] c \in {"ENTER_CMD_XIP", "EXIT_XIP", "READ", "WRITE"} -> before
      [] OTHER -> FALSE

-----------------------------------------------------------------------------
(* Returning from a picoboot_ function to its caller.                      *)

\* The stages of picoboot_flash_id: the result of claiming exclusive access is
\* ignored, any other failure goes to flash_id_return, which releases it.
NextStage(s, ok) ==
    CASE s = "claim" -> "exit"
      [] s = "exit" -> IF ok THEN "write" ELSE "release"
      [] s = "write" -> IF ok THEN "exec" ELSE "release"
      [] s = "exec" -> IF ok THEN "read" ELSE "release"
      [] OTHER -> "release"

\* Where control goes once the outermost C function has returned ok.
FinishPC_DtorIgnores(ok) ==
    CASE ok /\ ctx = "dtor" -> "destroyed"
      [] ok /\ ctx # "dtor" -> "idle"
      [] ~ok /\ ctx = "dtor" -> "destroyed"
      [] ~ok /\ ctx = "open" -> "closed"
      [] OTHER -> "failed"
FinishPC_DtorRetries(ok) ==
    CASE ok /\ ctx = "dtor" -> "destroyed"
      [] ok /\ ctx = "open" -> "closed"
      [] ok /\ ctx \in {"ctor", "op"} -> "idle"
      [] ~ok /\ ctx = "dtor" -> "send"
      [] ~ok /\ ctx = "open" -> "closed"
      [] OTHER -> "failed"
FinishPC(ok) ==
    CASE ok /\ ctx = "dtor" -> "destroyed"
      [] ok /\ ctx = "open" -> "closed"
      [] ok /\ ctx \in {"ctor", "op"} -> "idle"
      [] ~ok /\ ctx = "dtor" -> "reset"
      [] ~ok /\ ctx = "open" -> "closed"
      [] OTHER -> "failed"

Return(ok) ==
    \/ /\ fid = "none"
       /\ pc' = FinishPC(ok)
       /\ UNCHANGED <<fid, fidOk>>
    \/ /\ fid = "release"
       /\ pc' = FinishPC(fidOk)
       /\ fid' = "none"
       /\ fidOk' = TRUE
    \/ /\ fid \notin {"none", "release"}
       /\ pc' = "fid"
       /\ fid' = NextStage(fid, ok)
       /\ fidOk' = (fidOk /\ (ok \/ fid = "claim"))

-----------------------------------------------------------------------------
(* picoboot_cmd: send the command, move its data, wait for the ack.        *)

StartCmd(c) ==
    /\ cmd' = c
    /\ pc' = "send"

\* The early return: neither cache has been touched. The device may or may not
\* have received all of the command.
SendFails ==
    /\ pc = "send"
    /\ devCmd' \in {devCmd} \cup (IF devCmd \in {"none", "done"} THEN {cmd} ELSE {})
    /\ Return(FALSE)
    /\ UNCHANGED <<host, cmd, ctx, exclusive, devXip, devExclusive>>

\* The device takes a command only when it is not busy with another.
SendOk ==
    /\ pc = "send"
    /\ devCmd \in {"none", "done"}
    /\ devCmd' = cmd
    /\ saved' = [xip |-> xip_state, exclusive |-> definitely_exclusive]
    /\ xip_state' = "XIP_UNKOWN"
    /\ definitely_exclusive' = FALSE
    /\ pc' = IF HasDataPhase(cmd) THEN "data" ELSE "ack"
    /\ UNCHANGED <<cmd, ctx, fid, fidOk, exclusive, devXip, devExclusive>>

DataOk ==
    /\ pc = "data"
    /\ pc' = "ack"
    /\ UNCHANGED <<host, cmd, ctx, fid, fidOk, exclusive, device>>

\* A failed data phase or acknowledgement (a stall, or a timeout while the
\* device is still busy with the command).
TransferFails ==
    /\ pc \in {"data", "ack"}
    /\ Return(FALSE)
    /\ UNCHANGED <<host, cmd, ctx, exclusive, device>>

AckOk ==
    /\ pc = "ack"
    /\ devCmd = "done"
    /\ devCmd' = "none"
    /\ xip_state' = XipAfter(cmd, saved.xip)
    /\ definitely_exclusive' = ExclusiveAfter(cmd, saved.exclusive)
    /\ Return(TRUE)
    /\ UNCHANGED <<saved, cmd, ctx, exclusive, devXip, devExclusive>>

-----------------------------------------------------------------------------
(* The picoboot_ functions.                                                *)

\* picoboot_exit_xip: nothing is sent when the caches say XIP is already off;
\* otherwise xip_state is set before the command is sent.
ExitXip ==
    \/ /\ CanSkip(xip_state, definitely_exclusive)
       /\ Return(TRUE)
       /\ UNCHANGED <<xip_state, cmd>>
    \/ /\ ~CanSkip(xip_state, definitely_exclusive)
       /\ xip_state' = "XIP_INACTIVE"
       /\ StartCmd("EXIT_XIP")
       /\ UNCHANGED <<fid, fidOk>>

EnterCmdXip ==
    /\ xip_state' = "XIP_ACTIVE"
    /\ StartCmd("ENTER_CMD_XIP")
    /\ UNCHANGED <<fid, fidOk>>

PlainCmd(c) ==
    /\ c \notin {"EXIT_XIP", "ENTER_CMD_XIP"}
    /\ StartCmd(c)
    /\ UNCHANGED <<xip_state, fid, fidOk>>

\* The next command of picoboot_flash_id.
FlashIdStep ==
    /\ pc = "fid"
    /\ \/ fid = "claim" /\ PlainCmd("EXCLUSIVE")
       \/ fid = "exit" /\ ExitXip
       \/ fid = "write" /\ PlainCmd("WRITE")
       \/ fid = "exec" /\ PlainCmd("EXEC")
       \/ fid = "read" /\ PlainCmd("READ")
       \/ fid = "release" /\ PlainCmd("NOT_EXCLUSIVE")
    /\ UNCHANGED <<definitely_exclusive, saved, ctx, exclusive, device>>

StartFlashId ==
    /\ pc' = "fid"
    /\ fid' = "claim"
    /\ fidOk' = TRUE

\* picoboot_reset got its answer: pending work and the lock are gone, and the
\* host forgets that it held the lock. xip_state stays as it was.
ExclusiveAfterReset == FALSE
DeviceReset ==
    /\ devCmd' = "none"
    /\ devExclusive' = FALSE
    /\ devXip' = devXip

-----------------------------------------------------------------------------
(* Class connection.                                                       *)

\* picoboot_open_device: some device, in whatever state its last user left it.
\* A device with an unknown product id is asked for its chip info; on RP2040 a
\* serial number is compared with the flash id.
OpenDevice ==
    /\ pc \in {"closed", "destroyed"}
    /\ definitely_exclusive' = FALSE
    /\ devXip' \in DevXipStates
    /\ devExclusive' \in BOOLEAN
    /\ devCmd' = "none"
    /\ ctx' = "open"
    /\ \/ pc' = "closed" /\ UNCHANGED <<cmd, fid, fidOk>>
       \/ StartCmd("GET_INFO") /\ UNCHANGED <<fid, fidOk>>
       \/ StartFlashId /\ UNCHANGED cmd
    /\ UNCHANGED <<xip_state, saved, exclusive>>

\* The constructor: reset(), then exclusive_access(EXCLUSIVE) if asked for.
Connect(e) ==
    /\ pc = "closed"
    /\ exclusive' = e
    /\ ctx' = "ctor"
    /\ pc' = "reset"
    /\ UNCHANGED <<host, cmd, fid, fidOk, device>>

\* One call on a constructed connection.
Call(c) ==
    /\ pc = "idle"
    /\ ctx' = "op"
    /\ \/ c = "EXIT_XIP" /\ ExitXip
       \/ c = "ENTER_CMD_XIP" /\ EnterCmdXip
       \/ PlainCmd(c)
    /\ UNCHANGED <<definitely_exclusive, saved, exclusive, device>>

CallFlashId ==
    /\ pc = "idle"
    /\ ctx' = "op"
    /\ StartFlashId
    /\ UNCHANGED <<host, cmd, exclusive, device>>

CallReset ==
    /\ pc = "idle"
    /\ ctx' = "op"
    /\ pc' = "reset"
    /\ UNCHANGED <<host, cmd, fid, fidOk, exclusive, device>>

\* wrap_call asks for the status of a call that failed. Without an answer it
\* throws connection_error: out of the constructor nothing is left to destroy,
\* out of the (noexcept) destructor the program is terminated.
AfterThrow(o) ==
    CASE ctx = "ctor" -> "closed"
      [] ctx = "dtor" -> "terminated"
      [] OTHER -> o

StatusFails ==
    /\ pc = "failed"
    /\ pc' = AfterThrow("thrown")
    /\ UNCHANGED <<host, cmd, ctx, fid, fidOk, exclusive, device>>

RecoverPC_NoReset == AfterThrow("idle")
RecoverPC == "recover"
StatusOk ==
    /\ pc = "failed"
    /\ pc' = RecoverPC
    /\ UNCHANGED <<host, cmd, ctx, fid, fidOk, exclusive, device>>

\* The reset() of the constructor, of a caller or of the destructor succeeds.
ResetOk ==
    /\ pc = "reset"
    /\ definitely_exclusive' = ExclusiveAfterReset
    /\ \/ ctx = "ctor" /\ exclusive /\ StartCmd("EXCLUSIVE")
       \/ ctx = "ctor" /\ ~exclusive /\ pc' = "idle" /\ cmd' = cmd
       \/ ctx = "op" /\ pc' = "idle" /\ cmd' = cmd
       \/ ctx = "dtor" /\ pc' = "destroyed" /\ cmd' = cmd
    /\ DeviceReset
    /\ UNCHANGED <<xip_state, saved, ctx, fid, fidOk, exclusive>>

\* The reset() wrap_call makes "so we can continue": command_failure is thrown;
\* the caller of an operation catches it and goes on, or unwinds.
RecoverOk ==
    /\ pc = "recover"
    /\ definitely_exclusive' = ExclusiveAfterReset
    /\ pc' = AfterThrow("idle")
    /\ DeviceReset
    /\ UNCHANGED <<xip_state, saved, cmd, ctx, fid, fidOk, exclusive>>

\* A reset is itself a wrap_call: a failed one asks for the status again. The
\* device may have been reset without the host hearing of it.
ResetFails ==
    /\ pc \in {"reset", "recover"}
    /\ pc' = "failed"
    /\ DeviceReset \/ UNCHANGED device
    /\ UNCHANGED <<host, cmd, ctx, fid, fidOk, exclusive>>

\* The destructor.
Destroy ==
    /\ pc \in {"idle", "thrown"}
    /\ \/ /\ exclusive
          /\ ctx' = "dtor"
          /\ StartCmd("NOT_EXCLUSIVE")
       \/ /\ ~exclusive
          /\ pc' = "destroyed"
          /\ UNCHANGED <<cmd, ctx>>
    /\ UNCHANGED <<host, fid, fidOk, exclusive, device>>

-----------------------------------------------------------------------------
(* The device and the operating system's use of its mass-storage interface *)

DeviceExecutes ==
    /\ devCmd \in Commands
    /\ devCmd' = "done"
    /\ CASE devCmd = "EXIT_XIP" -> devXip' = "inactive" /\ UNCHANGED devExclusive
         [] devCmd = "ENTER_CMD_XIP" -> devXip' = "active" /\ UNCHANGED devExclusive
         [] devCmd = "EXCLUSIVE" -> devExclusive' = TRUE /\ UNCHANGED devXip
         [] devCmd = "NOT_EXCLUSIVE" -> devExclusive' = FALSE /\ UNCHANGED devXip
         [] devCmd \in {"READ", "WRITE"} -> UNCHANGED <<devXip, devExclusive>>
         [] OTHER -> devXip' \in DevXipStates /\ devExclusive' \in BOOLEAN
    /\ UNCHANGED <<host, conn>>

DeviceStalls ==
    /\ devCmd \in Commands
    /\ devCmd' = "none"
    /\ UNCHANGED <<host, conn, devXip, devExclusive>>

MassStorageAccess ==
    /\ ~devExclusive
    /\ devXip' \in DevXipStates
    /\ UNCHANGED <<host, conn, devExclusive, devCmd>>

-----------------------------------------------------------------------------
Transfer == SendFails \/ SendOk \/ DataOk \/ TransferFails \/ AckOk
Recovery == StatusFails \/ StatusOk \/ ResetOk \/ RecoverOk \/ ResetFails
Environment == DeviceExecutes \/ DeviceStalls \/ MassStorageAccess
Client ==
    \/ OpenDevice
    \/ \E e \in BOOLEAN : Connect(e)
    \/ \E c \in Commands : Call(c)
    \/ CallFlashId
    \/ CallReset
    \/ Destroy

Next == Transfer \/ Recovery \/ FlashIdStep \/ Client \/ Environment

Spec == Init /\ [][Next]_vars

\* Every libusb call returns within its timeout (1, 3 or 10 s), so the host
\* never waits for ever inside one.
HostStep == Transfer \/ Recovery \/ FlashIdStep
FairSpec == Spec /\ WF_vars(HostStep)

\* In addition a reset that is asked for again and again is answered in the end.
CooperativeSpec == FairSpec /\ SF_vars(ResetOk) /\ SF_vars(RecoverOk)

-----------------------------------------------------------------------------
(* Properties.                                                             *)

\* Whenever picoboot_exit_xip may be called and would send nothing, because it
\* is "definitely exclusive" and believes XIP to be off, XIP really is off on
\* the device: code that goes on to erase or program flash relies on it.
SkipIsSound ==
    /\ pc = "idle" \/ (pc = "fid" /\ fid = "exit")
    /\ CanSkip(xip_state, definitely_exclusive)
    => devXip = "inactive"

\* Between calls definitely_exclusive is never set on the host while the lock
\* is free on the device, whatever failed before.
BelievedLockIsHeld ==
    pc = "idle" /\ definitely_exclusive => devExclusive

\* When a call has returned or its command_failure has been caught, no command
\* the host gave up on can still be carried out, except the release at the end
\* of picoboot_flash_id, whose result is ignored and which the host counts as done.
NothingPending ==
    pc = "idle" /\ devCmd \in Commands =>
        devCmd = "NOT_EXCLUSIVE" /\ ~definitely_exclusive

\* An exclusive connection whose destructor has run has left the device
\* unlocked, however many of its calls failed.
ReleasedWhenDestroyed ==
    pc = "destroyed" /\ exclusive => ~devExclusive

-----------------------------------------------------------------------------
(* The inductive invariant behind those four.                              *)

\* What the caches say is true, and nothing the device has yet to carry out
\* can change that.
LockTrue == definitely_exclusive =>
    devExclusive /\ devCmd \in {"none", "done", "EXCLUSIVE"}
CachesTrue ==
    /\ LockTrue
    /\ CanSkip(xip_state, definitely_exclusive) => devXip = "inactive"

\* The stages of picoboot_flash_id that may still find the lock held on entry.
BeforeWrite == fid \in {"none", "claim", "exit"}

ControlInv ==
    /\ fid # "none" => pc \in {"fid", "send", "data", "ack"} /\ ctx \in {"open", "op"}
    /\ pc = "fid" => fid # "none"
    /\ pc \in {"send", "data", "ack"} =>
        CASE fid = "claim" -> cmd = "EXCLUSIVE"
          [] fid = "exit" -> cmd = "EXIT_XIP"
          [] fid = "write" -> cmd = "WRITE"
          [] fid = "exec" -> cmd = "EXEC"
          [] fid = "read" -> cmd = "READ"
          [] fid = "release" -> cmd = "NOT_EXCLUSIVE"
          [] OTHER -> (ctx = "dtor" => cmd = "NOT_EXCLUSIVE")
    /\ pc = "idle" => ctx \in {"ctor", "op"}
    /\ pc \in {"reset", "recover", "failed"} => ctx # "open"

\* Where the caches have to be true: between calls, and inside a call until
\* its command goes out (EXIT_XIP has by then already written xip_state).
CacheInv ==
    /\ pc = "idle" => CachesTrue
    /\ pc = "fid" /\ BeforeWrite => CachesTrue
    /\ pc = "send" /\ BeforeWrite /\ ctx # "dtor" =>
        IF cmd = "EXIT_XIP" THEN LockTrue ELSE CachesTrue
    /\ fid = "read" /\ pc \in {"fid", "send"} => ~definitely_exclusive
    /\ fid = "release" /\ fidOk => ~definitely_exclusive

\* Inside a transfer the caches are cleared, and the saved ones are true.
TransferInv ==
    pc \in {"data", "ack"} =>
        /\ ~definitely_exclusive
        /\ devCmd \in {cmd, "none", "done"}
        /\ cmd = "EXCLUSIVE" /\ devCmd = "done" => devExclusive
        /\ cmd = "NOT_EXCLUSIVE" /\ devCmd = "done" => ~devExclusive
        /\ fid = "read" => ~saved.exclusive
        /\ BeforeWrite /\ saved.exclusive
           /\ cmd \in {"READ", "WRITE", "EXIT_XIP", "ENTER_CMD_XIP"} => devExclusive
        /\ BeforeWrite /\ CanSkip(saved.xip, saved.exclusive)
           /\ cmd \in {"READ", "WRITE"} => devXip = "inactive"
        /\ BeforeWrite /\ saved.exclusive
           /\ cmd = "EXIT_XIP" /\ devCmd = "done" => devXip = "inactive"

PendingInv ==
    /\ NothingPending
    /\ fid = "release" /\ fidOk /\ pc \in {"fid", "send"} => devCmd \notin Commands
    /\ pc = "destroyed" /\ exclusive => ~devExclusive /\ devCmd \notin Commands

IInv == TypeOK /\ ControlInv /\ CacheInv /\ TransferInv /\ PendingInv

\* A call that was made returns or throws: recovery does not go on for ever.
Settled == {"idle", "closed", "thrown", "destroyed", "terminated"}
CallReturns == pc \notin Settled ~> pc \in Settled
=============================================================================
