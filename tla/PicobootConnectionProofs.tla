---------------------- MODULE PicobootConnectionProofs ----------------------
(***************************************************************************)
(* What holds of every execution of PicobootConnection: IInv is inductive, *)
(* and with it the four safety properties of the host's caches and of the  *)
(* exclusive lock.  One lemma per action, one step per conjunct of IInv.   *)
(***************************************************************************)
EXTENDS PicobootConnection, TLAPS

USE DEF XipStates, DevXipStates, Commands, Stages, PCs

\* Nothing has been opened or sent.
LEMMA InitIInv == Init => IInv
<1> SUFFICES ASSUME Init PROVE IInv
  OBVIOUS
<1>1. TypeOK
  <2>1. /\ definitely_exclusive \in BOOLEAN /\ fidOk \in BOOLEAN
        /\ exclusive \in BOOLEAN /\ devExclusive \in BOOLEAN
        /\ saved \in [xip : XipStates, exclusive : BOOLEAN]
    BY DEF Init
  <2>2. /\ xip_state \in XipStates /\ devXip \in DevXipStates
        /\ cmd \in Commands /\ devCmd \in Commands \cup {"none", "done"}
        /\ pc \in PCs /\ ctx \in {"open", "ctor", "op", "dtor"} /\ fid \in Stages
    BY DEF Init
  <2> QED BY ONLY <2>1, <2>2 DEF TypeOK
<1>2. ControlInv BY DEF Init, ControlInv
<1>3. CacheInv BY DEF Init, CacheInv
<1>4. TransferInv BY DEF Init, TransferInv
<1>5. PendingInv BY DEF Init, PendingInv, NothingPending
<1> QED BY <1>1, <1>2, <1>3, <1>4, <1>5 DEF IInv

-----------------------------------------------------------------------------
(* picoboot_cmd.                                                           *)

\* The caches are untouched; only a release may leave its command behind.
LEMMA SendFailsPreserves == IInv /\ SendFails => IInv'
<1> SUFFICES ASSUME IInv, SendFails PROVE IInv'
  OBVIOUS
<1> USE DEF SendFails, Return, NextStage, FinishPC, host, conn, device, IInv, TypeOK
<1>1. TypeOK'
  <2>1. /\ definitely_exclusive' \in BOOLEAN /\ fidOk' \in BOOLEAN
        /\ exclusive' \in BOOLEAN /\ devExclusive' \in BOOLEAN
        /\ saved' \in [xip : XipStates, exclusive : BOOLEAN]
    OBVIOUS
  <2>2. /\ xip_state' \in XipStates /\ devXip' \in DevXipStates
        /\ cmd' \in Commands /\ devCmd' \in Commands \cup {"none", "done"}
        /\ pc' \in PCs /\ ctx' \in {"open", "ctor", "op", "dtor"} /\ fid' \in Stages
    OBVIOUS
  <2> QED BY ONLY <2>1, <2>2 DEF TypeOK
<1>2. ControlInv'
  BY DEF ControlInv
<1>3. CacheInv'
  BY DEF ControlInv, CacheInv, TransferInv, PendingInv, NothingPending,
         BeforeWrite, CachesTrue, LockTrue, CanSkip
<1>4. TransferInv'
  BY DEF ControlInv, CacheInv, TransferInv, BeforeWrite, CachesTrue, LockTrue, CanSkip
<1>5. PendingInv'
  BY DEF ControlInv, CacheInv, TransferInv, PendingInv, NothingPending,
         BeforeWrite, CachesTrue, LockTrue
<1> QED BY ONLY <1>1, <1>2, <1>3, <1>4, <1>5 DEF IInv

\* What was true of the caches becomes true of the saved ones.
LEMMA SendOkPreserves == IInv /\ SendOk => IInv'
<1> SUFFICES ASSUME IInv, SendOk PROVE IInv'
  OBVIOUS
<1> USE DEF SendOk, HasDataPhase, host, conn, device, IInv, TypeOK
<1>1. TypeOK'
  <2>1. /\ definitely_exclusive' \in BOOLEAN /\ fidOk' \in BOOLEAN
        /\ exclusive' \in BOOLEAN /\ devExclusive' \in BOOLEAN
        /\ saved' \in [xip : XipStates, exclusive : BOOLEAN]
    OBVIOUS
  <2>2. /\ xip_state' \in XipStates /\ devXip' \in DevXipStates
        /\ cmd' \in Commands /\ devCmd' \in Commands \cup {"none", "done"}
        /\ pc' \in PCs /\ ctx' \in {"open", "ctor", "op", "dtor"} /\ fid' \in Stages
    OBVIOUS
  <2> QED BY ONLY <2>1, <2>2 DEF TypeOK
<1>2. ControlInv'
  BY DEF ControlInv
<1>3. CacheInv'
  BY DEF ControlInv, CacheInv, TransferInv, PendingInv, NothingPending,
         BeforeWrite, CachesTrue, LockTrue, CanSkip
<1>4. TransferInv'
  BY DEF ControlInv, CacheInv, TransferInv, BeforeWrite, CachesTrue, LockTrue, CanSkip
<1>5. PendingInv'
  BY DEF ControlInv, CacheInv, TransferInv, PendingInv, NothingPending,
         BeforeWrite, CachesTrue, LockTrue
<1> QED BY ONLY <1>1, <1>2, <1>3, <1>4, <1>5 DEF IInv

\* Nothing but pc changes.
LEMMA DataOkPreserves == IInv /\ DataOk => IInv'
BY DEF DataOk,
       host, conn, device, IInv, TypeOK, ControlInv, CacheInv, TransferInv, PendingInv,
       NothingPending, BeforeWrite, CachesTrue, LockTrue, CanSkip

\* The caches stay cleared.
LEMMA TransferFailsPreserves == IInv /\ TransferFails => IInv'
<1> SUFFICES ASSUME IInv, TransferFails PROVE IInv'
  OBVIOUS
<1> USE DEF TransferFails, Return, NextStage, FinishPC, host, conn, device, IInv, TypeOK
<1>1. TypeOK'
  <2>1. /\ definitely_exclusive' \in BOOLEAN /\ fidOk' \in BOOLEAN
        /\ exclusive' \in BOOLEAN /\ devExclusive' \in BOOLEAN
        /\ saved' \in [xip : XipStates, exclusive : BOOLEAN]
    OBVIOUS
  <2>2. /\ xip_state' \in XipStates /\ devXip' \in DevXipStates
        /\ cmd' \in Commands /\ devCmd' \in Commands \cup {"none", "done"}
        /\ pc' \in PCs /\ ctx' \in {"open", "ctor", "op", "dtor"} /\ fid' \in Stages
    OBVIOUS
  <2> QED BY ONLY <2>1, <2>2 DEF TypeOK
<1>2. ControlInv'
  BY DEF ControlInv
<1>3. CacheInv'
  BY DEF ControlInv, CacheInv, TransferInv, PendingInv, NothingPending,
         BeforeWrite, CachesTrue, LockTrue, CanSkip
<1>4. TransferInv'
  BY DEF ControlInv, CacheInv, TransferInv, BeforeWrite, CachesTrue, LockTrue, CanSkip
<1>5. PendingInv'
  BY DEF ControlInv, CacheInv, TransferInv, PendingInv, NothingPending,
         BeforeWrite, CachesTrue, LockTrue
<1> QED BY ONLY <1>1, <1>2, <1>3, <1>4, <1>5 DEF IInv

\* The device has carried out cmd, so the caches may be set or restored.
LEMMA AckOkPreserves == IInv /\ AckOk => IInv'
<1> SUFFICES ASSUME IInv, AckOk PROVE IInv'
  OBVIOUS
<1> USE DEF AckOk, XipAfter, ExclusiveAfter, Return, NextStage, FinishPC, host, conn, device, IInv, TypeOK
<1>1. TypeOK'
  <2>1. /\ definitely_exclusive' \in BOOLEAN /\ fidOk' \in BOOLEAN
        /\ exclusive' \in BOOLEAN /\ devExclusive' \in BOOLEAN
        /\ saved' \in [xip : XipStates, exclusive : BOOLEAN]
    OBVIOUS
  <2>2. /\ xip_state' \in XipStates /\ devXip' \in DevXipStates
        /\ cmd' \in Commands /\ devCmd' \in Commands \cup {"none", "done"}
        /\ pc' \in PCs /\ ctx' \in {"open", "ctor", "op", "dtor"} /\ fid' \in Stages
    OBVIOUS
  <2> QED BY ONLY <2>1, <2>2 DEF TypeOK
<1>2. ControlInv'
  BY DEF ControlInv
<1>3. CacheInv'
  BY DEF ControlInv, CacheInv, TransferInv, PendingInv, NothingPending,
         BeforeWrite, CachesTrue, LockTrue, CanSkip
<1>4. TransferInv'
  BY DEF ControlInv, CacheInv, TransferInv, BeforeWrite, CachesTrue, LockTrue, CanSkip
<1>5. PendingInv'
  BY DEF ControlInv, CacheInv, TransferInv, PendingInv, NothingPending,
         BeforeWrite, CachesTrue, LockTrue
<1> QED BY ONLY <1>1, <1>2, <1>3, <1>4, <1>5 DEF IInv

-----------------------------------------------------------------------------
(* The connection.                                                         *)

\* Each stage sends its own command.
LEMMA FlashIdStepPreserves == IInv /\ FlashIdStep => IInv'
BY DEF FlashIdStep, PlainCmd, StartCmd, ExitXip, Return, NextStage, FinishPC,
       host, conn, device, IInv, TypeOK, ControlInv, CacheInv, TransferInv, PendingInv,
       NothingPending, BeforeWrite, CachesTrue, LockTrue, CanSkip

\* A device may be in any state, so the caches are not believed.
LEMMA OpenDevicePreserves == IInv /\ OpenDevice => IInv'
BY DEF OpenDevice, StartFlashId, StartCmd,
       host, conn, device, IInv, TypeOK, ControlInv, CacheInv, TransferInv, PendingInv,
       NothingPending, BeforeWrite, CachesTrue, LockTrue, CanSkip

\* The constructor begins with a reset.
LEMMA ConnectPreserves == \A e \in BOOLEAN : IInv /\ Connect(e) => IInv'
BY DEF Connect,
       host, conn, device, IInv, TypeOK, ControlInv, CacheInv, TransferInv, PendingInv,
       NothingPending, BeforeWrite, CachesTrue, LockTrue, CanSkip

\* A call starts from true caches; EXIT_XIP may find nothing to do.
LEMMA CallPreserves == \A c \in Commands : IInv /\ Call(c) => IInv'
BY DEF Call, EnterCmdXip, PlainCmd, StartCmd, ExitXip, Return, NextStage, FinishPC,
       host, conn, device, IInv, TypeOK, ControlInv, CacheInv, TransferInv, PendingInv,
       NothingPending, BeforeWrite, CachesTrue, LockTrue, CanSkip

\* picoboot_flash_id starts from true caches.
LEMMA CallFlashIdPreserves == IInv /\ CallFlashId => IInv'
BY DEF CallFlashId, StartFlashId,
       host, conn, device, IInv, TypeOK, ControlInv, CacheInv, TransferInv, PendingInv,
       NothingPending, BeforeWrite, CachesTrue, LockTrue, CanSkip

\* An explicit reset changes nothing before it is answered.
LEMMA CallResetPreserves == IInv /\ CallReset => IInv'
BY DEF CallReset,
       host, conn, device, IInv, TypeOK, ControlInv, CacheInv, TransferInv, PendingInv,
       NothingPending, BeforeWrite, CachesTrue, LockTrue, CanSkip

\* The connection is given up.
LEMMA StatusFailsPreserves == IInv /\ StatusFails => IInv'
BY DEF StatusFails, AfterThrow,
       host, conn, device, IInv, TypeOK, ControlInv, CacheInv, TransferInv, PendingInv,
       NothingPending, BeforeWrite, CachesTrue, LockTrue, CanSkip

\* The device answers, and is reset next.
LEMMA StatusOkPreserves == IInv /\ StatusOk => IInv'
BY DEF StatusOk, RecoverPC,
       host, conn, device, IInv, TypeOK, ControlInv, CacheInv, TransferInv, PendingInv,
       NothingPending, BeforeWrite, CachesTrue, LockTrue, CanSkip

\* A reset clears the device's lock, its pending command and the host's belief.
LEMMA ResetOkPreserves == IInv /\ ResetOk => IInv'
<1> SUFFICES ASSUME IInv, ResetOk PROVE IInv'
  OBVIOUS
<1> USE DEF ResetOk, ExclusiveAfterReset, DeviceReset, StartCmd, host, conn, device, IInv, TypeOK
<1>1. TypeOK'
  <2>1. /\ definitely_exclusive' \in BOOLEAN /\ fidOk' \in BOOLEAN
        /\ exclusive' \in BOOLEAN /\ devExclusive' \in BOOLEAN
        /\ saved' \in [xip : XipStates, exclusive : BOOLEAN]
    OBVIOUS
  <2>2. /\ xip_state' \in XipStates /\ devXip' \in DevXipStates
        /\ cmd' \in Commands /\ devCmd' \in Commands \cup {"none", "done"}
        /\ pc' \in PCs /\ ctx' \in {"open", "ctor", "op", "dtor"} /\ fid' \in Stages
    OBVIOUS
  <2> QED BY ONLY <2>1, <2>2 DEF TypeOK
<1>2. ControlInv'
  BY DEF ControlInv
<1>3. CacheInv'
  BY DEF ControlInv, CacheInv, TransferInv, PendingInv, NothingPending,
         BeforeWrite, CachesTrue, LockTrue, CanSkip
<1>4. TransferInv'
  BY DEF ControlInv, CacheInv, TransferInv, BeforeWrite, CachesTrue, LockTrue, CanSkip
<1>5. PendingInv'
  BY DEF ControlInv, CacheInv, TransferInv, PendingInv, NothingPending,
         BeforeWrite, CachesTrue, LockTrue
<1> QED BY ONLY <1>1, <1>2, <1>3, <1>4, <1>5 DEF IInv

\* The same for the reset wrap_call makes.
LEMMA RecoverOkPreserves == IInv /\ RecoverOk => IInv'
<1> SUFFICES ASSUME IInv, RecoverOk PROVE IInv'
  OBVIOUS
<1> USE DEF RecoverOk, ExclusiveAfterReset, DeviceReset, AfterThrow, host, conn, device, IInv, TypeOK
<1>1. TypeOK'
  <2>1. /\ definitely_exclusive' \in BOOLEAN /\ fidOk' \in BOOLEAN
        /\ exclusive' \in BOOLEAN /\ devExclusive' \in BOOLEAN
        /\ saved' \in [xip : XipStates, exclusive : BOOLEAN]
    OBVIOUS
  <2>2. /\ xip_state' \in XipStates /\ devXip' \in DevXipStates
        /\ cmd' \in Commands /\ devCmd' \in Commands \cup {"none", "done"}
        /\ pc' \in PCs /\ ctx' \in {"open", "ctor", "op", "dtor"} /\ fid' \in Stages
    OBVIOUS
  <2> QED BY ONLY <2>1, <2>2 DEF TypeOK
<1>2. ControlInv'
  BY DEF ControlInv
<1>3. CacheInv'
  BY DEF ControlInv, CacheInv, TransferInv, PendingInv, NothingPending,
         BeforeWrite, CachesTrue, LockTrue, CanSkip
<1>4. TransferInv'
  BY DEF ControlInv, CacheInv, TransferInv, BeforeWrite, CachesTrue, LockTrue, CanSkip
<1>5. PendingInv'
  BY DEF ControlInv, CacheInv, TransferInv, PendingInv, NothingPending,
         BeforeWrite, CachesTrue, LockTrue
<1> QED BY ONLY <1>1, <1>2, <1>3, <1>4, <1>5 DEF IInv

\* The device may have been reset all the same.
LEMMA ResetFailsPreserves == IInv /\ ResetFails => IInv'
<1> SUFFICES ASSUME IInv, ResetFails PROVE IInv'
  OBVIOUS
<1> USE DEF ResetFails, DeviceReset, host, conn, device, IInv, TypeOK
<1>1. TypeOK'
  <2>1. /\ definitely_exclusive' \in BOOLEAN /\ fidOk' \in BOOLEAN
        /\ exclusive' \in BOOLEAN /\ devExclusive' \in BOOLEAN
        /\ saved' \in [xip : XipStates, exclusive : BOOLEAN]
    OBVIOUS
  <2>2. /\ xip_state' \in XipStates /\ devXip' \in DevXipStates
        /\ cmd' \in Commands /\ devCmd' \in Commands \cup {"none", "done"}
        /\ pc' \in PCs /\ ctx' \in {"open", "ctor", "op", "dtor"} /\ fid' \in Stages
    OBVIOUS
  <2> QED BY ONLY <2>1, <2>2 DEF TypeOK
<1>2. ControlInv'
  BY DEF ControlInv
<1>3. CacheInv'
  BY DEF ControlInv, CacheInv, TransferInv, PendingInv, NothingPending,
         BeforeWrite, CachesTrue, LockTrue, CanSkip
<1>4. TransferInv'
  BY DEF ControlInv, CacheInv, TransferInv, BeforeWrite, CachesTrue, LockTrue, CanSkip
<1>5. PendingInv'
  BY DEF ControlInv, CacheInv, TransferInv, PendingInv, NothingPending,
         BeforeWrite, CachesTrue, LockTrue
<1> QED BY ONLY <1>1, <1>2, <1>3, <1>4, <1>5 DEF IInv

\* The destructor sends the release, or has nothing to release.
LEMMA DestroyPreserves == IInv /\ Destroy => IInv'
BY DEF Destroy, StartCmd,
       host, conn, device, IInv, TypeOK, ControlInv, CacheInv, TransferInv, PendingInv,
       NothingPending, BeforeWrite, CachesTrue, LockTrue, CanSkip

-----------------------------------------------------------------------------
(* The device.                                                             *)

\* Only commands that the caches allow for are pending.
LEMMA DeviceExecutesPreserves == IInv /\ DeviceExecutes => IInv'
<1> SUFFICES ASSUME IInv, DeviceExecutes PROVE IInv'
  OBVIOUS
<1> USE DEF DeviceExecutes, host, conn, device, IInv, TypeOK
<1>1. TypeOK'
  <2>1. /\ definitely_exclusive' \in BOOLEAN /\ fidOk' \in BOOLEAN
        /\ exclusive' \in BOOLEAN /\ devExclusive' \in BOOLEAN
        /\ saved' \in [xip : XipStates, exclusive : BOOLEAN]
    OBVIOUS
  <2>2. /\ xip_state' \in XipStates /\ devXip' \in DevXipStates
        /\ cmd' \in Commands /\ devCmd' \in Commands \cup {"none", "done"}
        /\ pc' \in PCs /\ ctx' \in {"open", "ctor", "op", "dtor"} /\ fid' \in Stages
    OBVIOUS
  <2> QED BY ONLY <2>1, <2>2 DEF TypeOK
<1>2. ControlInv'
  BY DEF ControlInv
<1>3. CacheInv'
  BY DEF ControlInv, CacheInv, TransferInv, PendingInv, NothingPending,
         BeforeWrite, CachesTrue, LockTrue, CanSkip
<1>4. TransferInv'
  BY DEF ControlInv, CacheInv, TransferInv, BeforeWrite, CachesTrue, LockTrue, CanSkip
<1>5. PendingInv'
  BY DEF ControlInv, CacheInv, TransferInv, PendingInv, NothingPending,
         BeforeWrite, CachesTrue, LockTrue
<1> QED BY ONLY <1>1, <1>2, <1>3, <1>4, <1>5 DEF IInv

\* A stalled command is not pending any more.
LEMMA DeviceStallsPreserves == IInv /\ DeviceStalls => IInv'
BY DEF DeviceStalls,
       host, conn, device, IInv, TypeOK, ControlInv, CacheInv, TransferInv, PendingInv,
       NothingPending, BeforeWrite, CachesTrue, LockTrue, CanSkip

\* The lock keeps the operating system away from a device the caches speak of.
LEMMA MassStorageAccessPreserves == IInv /\ MassStorageAccess => IInv'
BY DEF MassStorageAccess,
       host, conn, device, IInv, TypeOK, ControlInv, CacheInv, TransferInv, PendingInv,
       NothingPending, BeforeWrite, CachesTrue, LockTrue, CanSkip

-----------------------------------------------------------------------------
(* The theorems.                                                           *)

\* In every reachable state of the connection, whatever fails, IInv holds.
THEOREM InvariantHolds == Spec => []IInv
<1>1. IInv /\ [Next]_vars => IInv'
  <2> SUFFICES ASSUME IInv, [Next]_vars PROVE IInv'
    OBVIOUS
  <2>1. CASE Transfer
    BY <2>1, SendFailsPreserves, SendOkPreserves, DataOkPreserves,
       TransferFailsPreserves, AckOkPreserves DEF Transfer
  <2>2. CASE Recovery
    BY <2>2, StatusFailsPreserves, StatusOkPreserves, ResetOkPreserves,
       RecoverOkPreserves, ResetFailsPreserves DEF Recovery
  <2>3. CASE FlashIdStep
    BY <2>3, FlashIdStepPreserves
  <2>4. CASE Client
    BY <2>4, OpenDevicePreserves, ConnectPreserves, CallPreserves,
       CallFlashIdPreserves, CallResetPreserves, DestroyPreserves DEF Client
  <2>5. CASE Environment
    BY <2>5, DeviceExecutesPreserves, DeviceStallsPreserves,
       MassStorageAccessPreserves DEF Environment
  <2>6. CASE UNCHANGED vars
    BY <2>6 DEF vars, host, conn, device, IInv, TypeOK, ControlInv, CacheInv,
                TransferInv, PendingInv, NothingPending, BeforeWrite, CachesTrue,
                LockTrue, CanSkip
  <2> QED BY <2>1, <2>2, <2>3, <2>4, <2>5, <2>6 DEF Next
<1> QED BY <1>1, InitIInv, PTL DEF Spec

\* The variables of the connection keep their types.
THEOREM TypeCorrect == Spec => []TypeOK
<1>1. IInv => TypeOK BY DEF IInv
<1> QED BY <1>1, InvariantHolds, PTL

\* picoboot_exit_xip sends nothing only when XIP really is off on the device.
THEOREM SkipSound == Spec => []SkipIsSound
<1>1. IInv => SkipIsSound
  BY DEF IInv, CacheInv, CachesTrue, BeforeWrite, SkipIsSound
<1> QED BY <1>1, InvariantHolds, PTL

\* Between calls the host never believes in a lock that the device has given up.
THEOREM LockSound == Spec => []BelievedLockIsHeld
<1>1. IInv => BelievedLockIsHeld
  BY DEF IInv, CacheInv, CachesTrue, LockTrue, BelievedLockIsHeld
<1> QED BY <1>1, InvariantHolds, PTL

\* No command of an earlier call can still be carried out when the next begins,
\* but for the unchecked release at the end of picoboot_flash_id.
THEOREM NoneLeftPending == Spec => []NothingPending
<1>1. IInv => NothingPending BY DEF IInv, PendingInv
<1> QED BY <1>1, InvariantHolds, PTL

\* The destructor of an exclusive connection leaves the device unlocked.
THEOREM DestructorReleases == Spec => []ReleasedWhenDestroyed
<1>1. IInv => ReleasedWhenDestroyed
  BY DEF IInv, PendingInv, ReleasedWhenDestroyed
<1> QED BY <1>1, InvariantHolds, PTL
=============================================================================
