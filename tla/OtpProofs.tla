------------------------------ MODULE OtpProofs ------------------------------
(***************************************************************************)
(* Theorems about Otp: however a command ends, it has changed only rows it *)
(* was asked for, and no row has lost a bit; a command is refused only for *)
(* what was there before it; loading a file leaves what a dump of it       *)
(* shows; what was set is what is shown; the values of rows with error     *)
(* correction are four bits apart; and a white label is never seen half    *)
(* written.                                                                *)
(*                                                                         *)
(* The first invariant, ConfinedInv, says what the device is still to      *)
(* write: rows of the command, and 24 bit words.  The second, Progress,    *)
(* follows a set and a JSON file row by row: the writes are those that the *)
(* rows found at the beginning call for, and of these the ones handed over *)
(* are in the rows, up to the row the device is at.  GetInv follows what   *)
(* is shown, and LabelInv the three writes of a white label.               *)
(***************************************************************************)
EXTENDS Otp, SequenceTheorems, FunctionTheorems, FoldTheorems, TLAPS

\* The writes that can be on their way to the device.
Requests == [wRow : Int, bEcc : BOOLEAN, data : Seq(SUBSET Bits)]

(* BitsOf gives bits, and error correction adds the bits 16 to 21. *)
LEMMA BitsOfType == \A n : BitsOf(n) \in SUBSET Bits
  BY DEF BitsOf

LEMMA EccType == \A x \in SUBSET Bits : otp_calculate_ecc(x) \in SUBSET Bits
  BY DEF otp_calculate_ecc, Checked, Bits

LEMMA RowType == \A e \in BOOLEAN, x \in SUBSET Bits : Row(e, x) \in SUBSET Bits
  BY EccType DEF Row

(* A command or an entry of a file is one of the kinds that are given. *)
LEMMA RedundancyType ==
  ASSUME NEW c, c.row \in Rows, c.copies \in Int
  PROVE  CopyCount(c) \in Nat \ {0}
<1>1. RegAt(c.row).redundancy \in Int
  BY RowsAssumption DEF RegAt, NoReg
<1> QED
  BY <1>1 DEF CopyCount, Redundancy

(* What otp set writes are 24 bit words, to rows of the register. *)
LEMMA SetWriteType ==
  ASSUME NEW c \in Sets, NEW old \in SUBSET Bits
  PROVE  /\ SetWrite(c, old) \in Requests
         /\ \A i \in 1..Len(SetWrite(c, old).data) :
               SetWrite(c, old).wRow + i - 1 \in JobRows(c)
<1> DEFINE n == IF SelectEcc(c) THEN 1 ELSE CopyCount(c)
<1>1. /\ c.kind = "set" /\ c.row \in Rows /\ c.row \in Int /\ c.copies \in Int
      /\ c.mask \in SUBSET Bits /\ c.raw \in BOOLEAN /\ c.ecc \in BOOLEAN
  <2>1. c \in [kind : {"set"}, row : Rows, mask : SUBSET Bits, field : BOOLEAN,
               value : Nat, ignore_set : BOOLEAN, ecc : BOOLEAN, raw : BOOLEAN, copies : Int]
    BY CommandsAssumption
  <2> QED
    BY <2>1 DEF Rows
<1>2. CopyCount(c) \in Nat \ {0}
  BY <1>1, RedundancyType
<1>3. n \in Nat /\ n <= CopyCount(c)
  BY <1>2
<1>4. NewValue(c, old) \in SUBSET Bits
  BY <1>1, BitsOfType DEF NewValue
<1>5. SelectEcc(c) \in BOOLEAN
  BY <1>1, RowsAssumption DEF SelectEcc, RegAt, NoReg
<1>6. [i \in 1..n |-> NewValue(c, old)] \in Seq(SUBSET Bits)
  BY <1>3, <1>4
<1>7. SetWrite(c, old) = Request(c.row, SelectEcc(c), [i \in 1..n |-> NewValue(c, old)])
  BY DEF SetWrite
<1>8. Len([i \in 1..n |-> NewValue(c, old)]) = n
  BY <1>3
<1>9. JobRows(c) = c.row..(c.row + CopyCount(c) - 1)
  BY <1>1 DEF JobRows, SetRows, Copies
<1> HIDE DEF n
<1>10. SetWrite(c, old) \in Requests
  BY <1>1, <1>5, <1>6, <1>7 DEF Request, Requests
<1> QED
  BY <1>1, <1>2, <1>3, <1>7, <1>8, <1>9, <1>10 DEF Request

(* What would be written of an entry are 24 bit words. *)
LEMMA EntryRequest ==
  ASSUME NEW e \in Entries, NEW old \in SUBSET Bits
  PROVE  /\ EntryWrite(e, old) \in Requests /\ EntryWrite(e, old).wRow = e.row
         /\ EntryWrite(e, old).data = DataOf(e, old)
         /\ WordsOf(e, old) \in Seq(SUBSET Bits) /\ wRowCount(e) \in Nat
<1>1. /\ e.row \in Rows /\ e.row \in Int /\ e.words \in Seq(Nat) /\ e.ecc \in BOOLEAN
      /\ e.redundancy \in Nat /\ \A f \in e.fields : f.mask \in SUBSET Bits
  BY DEF Entries, Rows
<1>r. RegAt(e.row).redundancy \in Int /\ RegAt(e.row).seq_length \in Nat /\ RegAt(e.row).ecc \in BOOLEAN
  <2>1. CASE e.row \in DOMAIN otp_regs
    <3>1. PICK reg : reg = otp_regs[e.row]
      OBVIOUS
    <3>2. reg \in [redundancy : Nat, seq_length : Nat, ecc : BOOLEAN, crit : BOOLEAN,
                  fields : SUBSET SUBSET Bits]
      BY <2>1, <3>1, RowsAssumption
    <3>3. RegAt(e.row) = reg
      BY <2>1, <3>1 DEF RegAt
    <3>4. reg.redundancy \in Int /\ reg.seq_length \in Nat /\ reg.ecc \in BOOLEAN
      BY ONLY <3>2
    <3> QED
      BY ONLY <3>3, <3>4
  <2>2. CASE e.row \notin DOMAIN otp_regs
    <3>1. RegAt(e.row) = NoReg
      BY <2>2 DEF RegAt
    <3> QED
      BY ONLY <3>1 DEF NoReg
  <2> QED
    BY <2>1, <2>2
<1>2. wRowCount(e) \in Nat
  BY <1>1, <1>r DEF wRowCount
<1>3. bEcc(e) \in BOOLEAN
  BY <1>1, <1>r DEF bEcc
<1>4. FieldBits(e.fields) \in SUBSET Bits
  BY <1>1 DEF FieldBits
<1>5. WordsOf(e, old) \in Seq(SUBSET Bits)
  <2>1. CASE e.fields # {}
    BY <2>1, <1>4 DEF WordsOf
  <2>2. CASE e.fields = {}
    <3>1. WordsOf(e, old) = [i \in 1..Len(e.words) |-> BitsOf(e.words[i])]
      BY <2>2, <1>1 DEF WordsOf
    <3> QED
      BY <3>1, <1>1, BitsOfType
  <2> QED
    BY <2>1, <2>2
<1>6. DataOf(e, old) \in Seq(SUBSET Bits)
  <2>1. CASE Len(WordsOf(e, old)) = 1 /\ wRowCount(e) > 1
    <3>1. WordsOf(e, old)[1] \in SUBSET Bits
      BY <2>1, <1>5, 1 \in 1..Len(WordsOf(e, old)), ElementOfSeq
    <3>2. DataOf(e, old) = [i \in 1..wRowCount(e) |-> WordsOf(e, old)[1]]
      BY <2>1 DEF DataOf
    <3> QED
      BY <3>1, <3>2, <1>2
  <2>2. CASE ~(Len(WordsOf(e, old)) = 1 /\ wRowCount(e) > 1)
    <3>1. DataOf(e, old) = WordsOf(e, old)
      BY <2>2 DEF DataOf
    <3> QED
      BY <3>1, <1>5
  <2> QED
    BY <2>1, <2>2
<1> QED
  BY <1>1, <1>2, <1>3, <1>5, <1>6 DEF EntryWrite, Request, Requests

(* What is written of an entry that is not refused goes to the rows that it stands for. *)
LEMMA EntryWriteType ==
  ASSUME NEW e \in Entries, NEW old \in SUBSET Bits, ~EntryRefused(e, old)
  PROVE  /\ EntryWrite(e, old) \in Requests
         /\ Len(EntryWrite(e, old).data) = wRowCount(e)
         /\ \A i \in 1..Len(EntryWrite(e, old).data) :
               EntryWrite(e, old).wRow + i - 1 \in Copies(e.row, wRowCount(e))
<1>1. e.row \in Int
  BY DEF Entries, Rows
<1>2. Len(DataOf(e, old)) = wRowCount(e)
  BY DEF EntryRefused
<1> QED
  BY <1>1, <1>2, EntryRequest DEF Copies

(* The writes of a white label, of which the data are words by assumption. *)
LEMMA WlWritesType ==
  ASSUME NEW w \in WhiteLabels
  PROVE  WlWrites(w) \in Seq(Requests)
<1>1. w.row \in Int /\ addr_row \in Int /\ flags_row \in Int
  BY CommandsAssumption, RowsAssumption DEF Rows
<1>2. wl_do_fields(w).data \in Seq(Nat) /\ wl_do_fields(w).flags \in SUBSET Bits
  BY WhiteLabelsAssumption
<1>3. StructWrite(w) \in Requests
  <2> DEFINE words == wl_do_fields(w).data
  <2>1. [i \in DOMAIN words |-> BitsOf(words[i])] = [i \in 1..Len(words) |-> BitsOf(words[i])]
    BY <1>2
  <2>2. [i \in 1..Len(words) |-> BitsOf(words[i])] \in Seq(SUBSET Bits)
    BY <1>2, BitsOfType
  <2> QED
    BY <1>1, <2>1, <2>2 DEF StructWrite, Request, Requests
<1>4. AddrWrite(w) \in Requests
  BY <1>1, BitsOfType DEF AddrWrite, Request, Requests
<1>5. FlagsWrite(w) \in Requests
  <2>1. otp_regs[flags_row].redundancy \in Nat
    BY RowsAssumption
  <2>2. [i \in 1..otp_regs[flags_row].redundancy |-> wl_do_fields(w).flags] \in Seq(SUBSET Bits)
    BY <2>1, <1>2
  <2> QED
    BY <1>1, <2>2 DEF FlagsWrite, Request, Requests
<1> QED
  BY <1>3, <1>4, <1>5 DEF WlWrites

-----------------------------------------------------------------------------
(* The invariant *)

RowsTyped == otp \in [Rows -> SUBSET Bits] /\ before \in [Rows -> SUBSET Bits]
PendingOk ==
    /\ pending \in Requests
    /\ \A i \in 1..Len(pending.data) : pending.wRow + i - 1 \in JobRows(job)
TodoOk ==
    /\ job.kind = "json" =>
          /\ job.entries \in Seq(Entries) /\ todo \in Seq(Entries)
          /\ ToSet(todo) \subseteq ToSet(job.entries)
    /\ job.kind = "white_label" =>
          todo \in Seq(Requests) /\ ToSet(todo) \subseteq ToSet(WlWrites(job))
ConfinedInv == RowsTyped /\ PendingOk /\ TodoOk /\ Confined

LEMMA TailOfSeq ==
  ASSUME NEW S, NEW s \in Seq(S), s # <<>>
  PROVE  /\ Head(s) \in S /\ Head(s) \in ToSet(s)
         /\ Tail(s) \in Seq(S) /\ ToSet(Tail(s)) \subseteq ToSet(s)
<1>1. Len(s) \in Nat \ {0} /\ DOMAIN s = 1..Len(s) /\ Head(s) = s[1]
  OBVIOUS
<1>2. Tail(s) \in Seq(S) /\ Len(Tail(s)) = Len(s) - 1
      /\ \A i \in 1..(Len(s) - 1) : Tail(s)[i] = s[i + 1]
  OBVIOUS
<1>3. Head(s) \in S
  BY <1>1, 1 \in 1..Len(s), ElementOfSeq
<1> QED
  BY <1>1, <1>2, <1>3 DEF ToSet

(* Nothing is pending at first and when a command that reads or has more to prepare starts. *)
LEMMA NothingPending == NoRequest \in Requests /\ Len(NoRequest.data) = 0
  BY DEF NoRequest, Request, Requests, NoRow

LEMMA ConfinedInitially == Init => ConfinedInv
<1> SUFFICES ASSUME Init PROVE ConfinedInv
  OBVIOUS
<1>1. RowsTyped
  BY RowsAssumption DEF Init, RowsTyped
<1>2. PendingOk
  BY NothingPending DEF Init, PendingOk
<1>3. TodoOk
  BY DEF Init, TodoOk, NoJob
<1>4. Confined
  BY DEF Init, Confined
<1> QED
  BY <1>1, <1>2, <1>3, <1>4 DEF ConfinedInv

(* What a write of the device does to the rows. *)
LEMMA WriteConfined == ConfinedInv /\ DeviceWritesRow => ConfinedInv'
<1> SUFFICES ASSUME ConfinedInv, DeviceWritesRow PROVE ConfinedInv'
  OBVIOUS
<1> DEFINE row == pending.wRow
           want == Row(pending.bEcc, Head(pending.data))
<1>1. /\ pending.data \in Seq(SUBSET Bits) /\ pending.data # <<>>
      /\ pending.bEcc \in BOOLEAN /\ row \in Int
  BY DEF ConfinedInv, PendingOk, Requests, DeviceWritesRow
<1>2. Head(pending.data) \in SUBSET Bits /\ Tail(pending.data) \in Seq(SUBSET Bits)
  BY <1>1, TailOfSeq
<1>3. want \in SUBSET Bits
  BY <1>1, <1>2, RowType
<1>4. row \in Rows /\ otp[row] \subseteq want /\ otp' = [otp EXCEPT ![row] = want]
  BY DEF DeviceWritesRow
<1>5. before' = before /\ job' = job /\ todo' = todo
  BY DEF DeviceWritesRow, Going
<1>6. pending' = Request(row + 1, pending.bEcc, Tail(pending.data))
  BY DEF DeviceWritesRow
<1>7. row \in JobRows(job)
  <2>1. 1 \in 1..Len(pending.data) /\ row + 1 - 1 = row
    BY <1>1
  <2> QED
    BY <2>1 DEF ConfinedInv, PendingOk
<1> HIDE DEF want
<1>8. RowsTyped'
  BY <1>3, <1>4, <1>5 DEF ConfinedInv, RowsTyped
<1>9. PendingOk'
  <2>1. pending' \in Requests
    BY <1>1, <1>2, <1>6 DEF Request, Requests
  <2>2. ASSUME NEW i \in 1..Len(Tail(pending.data))
        PROVE  row + 1 + i - 1 \in JobRows(job)
    <3>1. i + 1 \in 1..Len(pending.data) /\ row + 1 + i - 1 = row + (i + 1) - 1
      BY <1>1
    <3> QED
      BY <3>1 DEF ConfinedInv, PendingOk
  <2> QED
    BY <2>1, <2>2, <1>5, <1>6 DEF PendingOk, Request
<1>10. TodoOk'
  BY <1>5 DEF ConfinedInv, TodoOk
<1>11. Confined'
  BY <1>3, <1>4, <1>5, <1>7 DEF ConfinedInv, RowsTyped, Confined
<1> QED
  BY <1>8, <1>9, <1>10, <1>11 DEF ConfinedInv

(* The next entry of a file is written to the rows that it stands for. *)
LEMMA EntryConfined == ConfinedInv /\ NextEntry => ConfinedInv'
<1> SUFFICES ASSUME ConfinedInv, NextEntry PROVE ConfinedInv'
  OBVIOUS
<1> DEFINE e == Head(todo)
<1>1. /\ job.kind = "json" /\ todo # <<>>
      /\ otp' = otp /\ before' = before /\ job' = job
  BY DEF NextEntry, Going
<1>2. todo \in Seq(Entries) /\ ToSet(todo) \subseteq ToSet(job.entries)
      /\ job.entries \in Seq(Entries)
  BY <1>1 DEF ConfinedInv, TodoOk
<1>3. /\ e \in Entries /\ e \in ToSet(job.entries)
      /\ Tail(todo) \in Seq(Entries) /\ ToSet(Tail(todo)) \subseteq ToSet(job.entries)
  BY <1>1, <1>2, TailOfSeq
<1>4. RowsTyped' /\ Confined'
  BY <1>1 DEF ConfinedInv, RowsTyped, Confined
<1>5. TodoOk'
  BY <1>1, <1>2, <1>3 DEF TodoOk, NextEntry
<1>6. PendingOk'
  <2>1. CASE EntryRefused(e, otp[e.row])
    BY <1>1, <2>1 DEF NextEntry, ConfinedInv, PendingOk
  <2>2. CASE ~EntryRefused(e, otp[e.row])
    <3>1. pending' = EntryWrite(e, otp[e.row])
      BY <2>2 DEF NextEntry
    <3>2. otp[e.row] \in SUBSET Bits
      BY <1>3 DEF ConfinedInv, RowsTyped, Entries
    <3>3. Copies(e.row, wRowCount(e)) \subseteq JobRows(job)
      BY <1>1, <1>3 DEF JobRows
    <3> HIDE DEF e
    <3> QED
      BY <1>1, <1>3, <2>2, <3>1, <3>2, <3>3, EntryWriteType DEF PendingOk
  <2> QED
    BY <2>1, <2>2
<1> QED
  BY <1>4, <1>5, <1>6 DEF ConfinedInv

(* So is the next write of a white label. *)
LEMMA WlConfined == ConfinedInv /\ NextWrite => ConfinedInv'
<1> SUFFICES ASSUME ConfinedInv, NextWrite PROVE ConfinedInv'
  OBVIOUS
<1>1. /\ job.kind = "white_label" /\ todo # <<>>
      /\ otp' = otp /\ before' = before /\ job' = job
      /\ pending' = Head(todo) /\ todo' = Tail(todo)
  BY DEF NextWrite, Going
<1>2. todo \in Seq(Requests) /\ ToSet(todo) \subseteq ToSet(WlWrites(job))
  BY <1>1 DEF ConfinedInv, TodoOk
<1>3. /\ Head(todo) \in Requests /\ Head(todo) \in ToSet(WlWrites(job))
      /\ Tail(todo) \in Seq(Requests) /\ ToSet(Tail(todo)) \subseteq ToSet(WlWrites(job))
  BY <1>1, <1>2, TailOfSeq
<1>4. RowsTyped' /\ Confined'
  BY <1>1 DEF ConfinedInv, RowsTyped, Confined
<1>5. TodoOk'
  BY <1>1, <1>3 DEF TodoOk
<1>6. PendingOk'
  <2>1. Copies(Head(todo).wRow, Len(Head(todo).data)) \subseteq JobRows(job)
    BY <1>1, <1>3 DEF JobRows
  <2>2. Head(todo).wRow \in Int /\ Len(Head(todo).data) \in Nat
    BY <1>3 DEF Requests
  <2>3. \A i \in 1..Len(Head(todo).data) :
          Head(todo).wRow + i - 1 \in Copies(Head(todo).wRow, Len(Head(todo).data))
    BY <2>2 DEF Copies
  <2> QED
    BY <1>1, <1>3, <2>1, <2>3 DEF PendingOk
<1> QED
  BY <1>4, <1>5, <1>6 DEF ConfinedInv

(* A command begins with the rows as they are. *)
LEMMA BeginConfined ==
  ASSUME NEW c, ConfinedInv, Begin(c), otp' = otp
  PROVE  RowsTyped' /\ Confined' /\ job' = c
  BY DEF ConfinedInv, RowsTyped, Confined, Begin

LEMMA SetConfined == ConfinedInv /\ OtpSet => ConfinedInv'
<1> SUFFICES ASSUME ConfinedInv, OtpSet PROVE ConfinedInv'
  OBVIOUS
<1>1. PICK c \in Sets :
        /\ Begin(c)
        /\ pending' = IF Refusal(c, otp[c.row]) = "none" THEN SetWrite(c, otp[c.row])
                      ELSE NoRequest
  BY DEF OtpSet
<1>2. RowsTyped' /\ Confined' /\ job' = c
  BY <1>1, BeginConfined DEF OtpSet
<1>3. c.kind = "set" /\ c.row \in Rows
  BY CommandsAssumption
<1>4. otp[c.row] \in SUBSET Bits
  BY <1>3 DEF ConfinedInv, RowsTyped
<1>5. TodoOk'
  BY <1>2, <1>3 DEF TodoOk
<1>6. PendingOk'
  BY <1>1, <1>2, <1>4, SetWriteType, NothingPending DEF PendingOk
<1> QED
  BY <1>2, <1>5, <1>6 DEF ConfinedInv

LEMMA JsonConfined == ConfinedInv /\ OtpLoadJson => ConfinedInv'
<1> SUFFICES ASSUME ConfinedInv, OtpLoadJson PROVE ConfinedInv'
  OBVIOUS
<1>1. PICK f \in Files : f.kind = "json" /\ Begin(f) /\ todo' = f.entries
  BY DEF OtpLoadJson
<1>2. RowsTyped' /\ Confined' /\ job' = f
  BY <1>1, BeginConfined DEF OtpLoadJson
<1>3. f.entries \in Seq(Entries)
  BY <1>1, CommandsAssumption DEF JsonFiles, BinaryFiles
<1>4. TodoOk'
  BY <1>1, <1>2, <1>3 DEF TodoOk
<1>5. PendingOk'
  BY NothingPending DEF OtpLoadJson, PendingOk
<1> QED
  BY <1>2, <1>4, <1>5 DEF ConfinedInv

LEMMA BinaryConfined == ConfinedInv /\ OtpLoadBinary => ConfinedInv'
<1> SUFFICES ASSUME ConfinedInv, OtpLoadBinary PROVE ConfinedInv'
  OBVIOUS
<1>1. PICK f \in Files :
        /\ f.kind = "binary" /\ Begin(f)
        /\ \/ pending' = NoRequest
           \/ pending' = Request(f.row, f.ecc /\ ~f.raw,
                                 [i \in DOMAIN f.words |-> BitsOf(f.words[i])])
  BY DEF OtpLoadBinary
<1>2. RowsTyped' /\ Confined' /\ job' = f
  BY <1>1, BeginConfined DEF OtpLoadBinary
<1>3. /\ f.words \in Seq(Nat) /\ f.row \in Int
      /\ f.ecc \in BOOLEAN /\ f.raw \in BOOLEAN
  BY <1>1, CommandsAssumption DEF JsonFiles, BinaryFiles, Rows
<1>4. TodoOk'
  BY <1>1, <1>2 DEF TodoOk
<1>5. PendingOk'
  <2>1. CASE pending' = NoRequest
    BY <2>1, NothingPending DEF PendingOk
  <2>2. CASE pending' = Request(f.row, f.ecc /\ ~f.raw,
                                [i \in DOMAIN f.words |-> BitsOf(f.words[i])])
    <3>1. [i \in DOMAIN f.words |-> BitsOf(f.words[i])]
            = [i \in 1..Len(f.words) |-> BitsOf(f.words[i])]
      BY <1>3
    <3>2. [i \in 1..Len(f.words) |-> BitsOf(f.words[i])] \in Seq(SUBSET Bits)
      BY <1>3, BitsOfType
    <3>3. Len([i \in 1..Len(f.words) |-> BitsOf(f.words[i])]) = Len(f.words)
      BY <1>3
    <3>4. pending' \in Requests /\ pending'.wRow = f.row /\ Len(pending'.data) = Len(f.words)
      BY <1>3, <2>2, <3>1, <3>2, <3>3 DEF Request, Requests
    <3>5. JobRows(job)' = f.row..(f.row + Len(f.words) - 1)
      BY <1>1, <1>2 DEF JobRows, Copies
    <3> QED
      BY <1>3, <3>4, <3>5 DEF PendingOk
  <2> QED
    BY <1>1, <2>1, <2>2
<1> QED
  BY <1>2, <1>4, <1>5 DEF ConfinedInv

LEMMA WhiteLabelConfined == ConfinedInv /\ OtpWhiteLabel => ConfinedInv'
<1> SUFFICES ASSUME ConfinedInv, OtpWhiteLabel PROVE ConfinedInv'
  OBVIOUS
<1>1. PICK w \in WhiteLabels : Begin(w) /\ todo' = WlWrites(w)
  BY DEF OtpWhiteLabel
<1>2. RowsTyped' /\ Confined' /\ job' = w
  BY <1>1, BeginConfined DEF OtpWhiteLabel
<1>3. w.kind = "white_label"
  BY CommandsAssumption
<1>4. TodoOk'
  BY <1>1, <1>2, <1>3, WlWritesType DEF TodoOk
<1>5. PendingOk'
  BY NothingPending DEF OtpWhiteLabel, PendingOk
<1> QED
  BY <1>2, <1>4, <1>5 DEF ConfinedInv

LEMMA GetConfined == ConfinedInv /\ (OtpGet \/ ShowMatch) => ConfinedInv'
<1> SUFFICES ASSUME ConfinedInv, OtpGet \/ ShowMatch PROVE ConfinedInv'
  OBVIOUS
<1>1. CASE OtpGet
  <2>1. PICK g \in Gets : Begin(g)
    BY <1>1 DEF OtpGet
  <2>2. RowsTyped' /\ Confined' /\ job' = g
    BY <1>1, <2>1, BeginConfined DEF OtpGet
  <2>3. TodoOk'
    BY <2>2, CommandsAssumption DEF TodoOk
  <2>4. PendingOk'
    BY <1>1, NothingPending DEF OtpGet, PendingOk
  <2> QED
    BY <2>2, <2>3, <2>4 DEF ConfinedInv
<1>2. CASE ShowMatch
  BY <1>2 DEF ShowMatch, ConfinedInv, RowsTyped, PendingOk, TodoOk, Confined
<1> QED
  BY <1>1, <1>2

LEMMA OthersConfined ==
  ConfinedInv /\ (Finish \/ DeviceRefusesRow \/ ConnectionFails \/ UNCHANGED vars)
    => ConfinedInv'
  BY DEF Finish, DeviceRefusesRow, ConnectionFails, Going, vars,
         ConfinedInv, RowsTyped, PendingOk, TodoOk, Confined

(* However a command ends, only rows it was asked for have changed since it began, *)
(* and no row has lost a bit: for every layout of registers, every set of commands *)
(* and every row the device locks, wherever the connection fails.                  *)
THEOREM ConfinedTheorem == Spec => []Confined
<1>1. ConfinedInv /\ [Next]_vars => ConfinedInv'
  BY SetConfined, JsonConfined, EntryConfined, BinaryConfined, WhiteLabelConfined,
     WlConfined, GetConfined, OthersConfined, WriteConfined DEF Next
<1>2. ConfinedInv => Confined
  BY DEF ConfinedInv
<1> QED
  BY ConfinedInitially, <1>1, <1>2, PTL DEF Spec

-----------------------------------------------------------------------------
(* How far otp set and otp load of a JSON file have come *)

\* The writes of otp set and of a JSON file, from the rows as the command finds them.
Writes(c, rows) ==
    IF c.kind = "set" THEN <<SetWrite(c, rows[c.row])>>
    ELSE [j \in DOMAIN c.entries |-> EntryWrite(c.entries[j], rows[c.entries[j].row])]
WriteAt(j) == Writes(job, before)[j]
\* How many of them have been handed to the device, and how many rows of the last
\* of these it has written.
Started ==
    IF job.kind = "set" THEN IF Refusal(job, before[job.row]) = "none" THEN 1 ELSE 0
    ELSE Len(job.entries) - Len(todo)
RowsDone(j) == Len(WriteAt(j).data) - (IF j = Started THEN Len(pending.data) ELSE 0)
Followed == job.kind = "set" \/ (job.kind = "json" /\ EntriesApart(job.entries))

TodoIsRest ==
    /\ job.kind = "set" =>
          /\ job \in Sets /\ todo = <<>>
          /\ Refusal(job, before[job.row]) # "none" => result = Refusal(job, before[job.row])
    /\ job.kind = "json" =>
          /\ Len(todo) <= Len(job.entries)
          /\ \A i \in 1..Len(todo) : todo[i] = job.entries[Started + i]
PendingIsRest ==
    pending.data # <<>> =>
        /\ Started > 0 /\ Len(pending.data) <= Len(WriteAt(Started).data)
        /\ pending.bEcc = WriteAt(Started).bEcc
        /\ pending.wRow = WriteAt(Started).wRow + RowsDone(Started)
        /\ \A i \in 1..Len(pending.data) :
              pending.data[i] = WriteAt(Started).data[RowsDone(Started) + i]
\* A write that was started stands for the rows of its set or of its entry.
StartedOk ==
    job.kind = "json" =>
        \A j \in 1..Started : Len(WriteAt(j).data) = wRowCount(job.entries[j])
WrittenOk ==
    \A j \in 1..Started : \A i \in 1..Len(WriteAt(j).data) :
        LET row == WriteAt(j).wRow + i - 1
        IN  IF i <= RowsDone(j)
            THEN row \in Rows /\ otp[row] = Row(WriteAt(j).bEcc, WriteAt(j).data[i])
            ELSE row \in Rows => otp[row] = before[row]
OthersKept ==
    \A r \in Rows : otp[r] # before[r] =>
        \E j \in 1..Started : r \in Copies(WriteAt(j).wRow, Len(WriteAt(j).data))
Progress ==
    Followed => TodoIsRest /\ PendingIsRest /\ StartedOk /\ WrittenOk /\ OthersKept

LEMMA InCopies ==
  ASSUME NEW row \in Int, NEW n \in Nat, NEW r \in Int
  PROVE  r \in Copies(row, n) <=> row <= r /\ r < row + n
  BY DEF Copies

(* The write of an entry that gives fields depends on what its first row holds; *)
(* one that stands for no row does not, as it is refused or empty.              *)
LEMMA EntrySame ==
  ASSUME NEW e \in Entries, NEW old \in SUBSET Bits, NEW other \in SUBSET Bits,
         ~EntryRefused(e, old), wRowCount(e) > 0 => old = other
  PROVE  EntryWrite(e, old) = EntryWrite(e, other)
<1>1. CASE old = other
  BY <1>1
<1>2. CASE e.fields = {}
  <2>1. WordsOf(e, old) = WordsOf(e, other)
    BY <1>2 DEF WordsOf
  <2> QED
    BY <2>1 DEF EntryWrite, DataOf
<1>3. CASE e.fields # {} /\ old # other
  <2>1. wRowCount(e) = 0
    <3>1. wRowCount(e) \in Nat
      BY EntryRequest
    <3>2. ~(wRowCount(e) > 0)
      BY <1>3
    <3> QED
      BY <3>1, <3>2
  <2>2. Len(WordsOf(e, old)) = 1
    BY <1>3 DEF WordsOf
  <2>3. Len(DataOf(e, old)) = 1
    BY <2>1, <2>2 DEF DataOf
  <2> QED
    BY <2>1, <2>3 DEF EntryRefused
<1> QED
  BY <1>1, <1>2, <1>3

(* The writes that were started are writes. *)
LEMMA StartedWrites ==
  ASSUME ConfinedInv, Followed, TodoIsRest
  PROVE  /\ Started \in Nat
         /\ \A j \in 1..Started :
               /\ WriteAt(j) \in Requests /\ WriteAt(j).wRow \in Int
               /\ WriteAt(j).data \in Seq(SUBSET Bits) /\ Len(WriteAt(j).data) \in Nat
               /\ job.kind = "json" =>
                     /\ job.entries[j] \in Entries /\ WriteAt(j).wRow = job.entries[j].row
                     /\ WriteAt(j) = EntryWrite(job.entries[j], before[job.entries[j].row])
<1>1. \A w \in Requests : w.wRow \in Int /\ w.data \in Seq(SUBSET Bits) /\ Len(w.data) \in Nat
  BY DEF Requests
<1>2. CASE job.kind = "set"
  <2>1. Started \in 0..1
    BY <1>2 DEF Started
  <2>2. job \in Sets /\ before[job.row] \in SUBSET Bits
    BY <1>2, CommandsAssumption DEF TodoIsRest, ConfinedInv, RowsTyped
  <2>3. \A j \in 1..Started : j = 1
    BY <2>1
  <2>4. WriteAt(1) = SetWrite(job, before[job.row])
    BY <1>2 DEF WriteAt, Writes
  <2>5. WriteAt(1) \in Requests
    BY <2>2, <2>4, SetWriteType
  <2> QED
    BY <1>1, <1>2, <2>1, <2>3, <2>5
<1>3. CASE job.kind = "json"
  <2>1. job.entries \in Seq(Entries) /\ todo \in Seq(Entries)
    BY <1>3 DEF ConfinedInv, TodoOk
  <2>2. Len(todo) \in Nat /\ Len(job.entries) \in Nat /\ DOMAIN job.entries = 1..Len(job.entries)
    BY <2>1
  <2>3. Started \in Nat /\ Started <= Len(job.entries)
    BY <1>3, <2>2 DEF TodoIsRest, Started
  <2>4. ASSUME NEW j \in 1..Started
        PROVE  /\ WriteAt(j) \in Requests /\ job.entries[j] \in Entries
               /\ WriteAt(j).wRow = job.entries[j].row
               /\ WriteAt(j) = EntryWrite(job.entries[j], before[job.entries[j].row])
    <3>1. j \in 1..Len(job.entries)
      BY <2>2, <2>3
    <3>2. job.entries[j] \in Entries
      BY <2>1, <3>1, ElementOfSeq
    <3>3. before[job.entries[j].row] \in SUBSET Bits
      BY <3>2 DEF ConfinedInv, RowsTyped, Entries
    <3>4. WriteAt(j) = EntryWrite(job.entries[j], before[job.entries[j].row])
      BY <1>3, <2>2, <3>1 DEF WriteAt, Writes
    <3> QED
      BY <3>2, <3>3, <3>4, EntryRequest
  <2> QED
    BY <1>1, <2>3, <2>4
<1> QED
  BY <1>2, <1>3 DEF Followed

(* Two of them are for different rows. *)
LEMMA StartedApart ==
  ASSUME ConfinedInv, Followed, TodoIsRest, StartedOk,
         NEW j \in 1..Started, NEW k \in 1..Started, j # k
  PROVE  Copies(WriteAt(j).wRow, Len(WriteAt(j).data))
           \intersect Copies(WriteAt(k).wRow, Len(WriteAt(k).data)) = {}
<1>1. CASE job.kind = "set"
  BY <1>1 DEF Started
<1>2. CASE job.kind = "json"
  <2>1. j \in DOMAIN job.entries /\ k \in DOMAIN job.entries
    <3>1. job.entries \in Seq(Entries) /\ todo \in Seq(Entries)
      BY <1>2 DEF ConfinedInv, TodoOk
    <3>2. Len(todo) \in Nat /\ Len(job.entries) \in Nat /\ DOMAIN job.entries = 1..Len(job.entries)
      BY <3>1
    <3> QED
      BY <1>2, <3>2 DEF Started
  <2>2. EntriesApart(job.entries)
    BY <1>2 DEF Followed
  <2>3. /\ WriteAt(j).wRow = job.entries[j].row /\ Len(WriteAt(j).data) = wRowCount(job.entries[j])
        /\ WriteAt(k).wRow = job.entries[k].row /\ Len(WriteAt(k).data) = wRowCount(job.entries[k])
    BY <1>2, StartedWrites DEF StartedOk
  <2> QED
    BY <2>1, <2>2, <2>3 DEF EntriesApart
<1> QED
  BY <1>1, <1>2 DEF Followed

LEMMA BeginIs ==
  ASSUME NEW c, Begin(c)
  PROVE  job' = c /\ before' = otp
  BY SMT DEF Begin

(* A set starts with its one write, or with none. *)
LEMMA SetProgress == ConfinedInv /\ OtpSet => Progress'
<1> SUFFICES ASSUME ConfinedInv, OtpSet PROVE Progress'
  OBVIOUS
<1>1. PICK c \in Sets :
        /\ Begin(c) /\ result' = Refusal(c, otp[c.row])
        /\ pending' = IF Refusal(c, otp[c.row]) = "none" THEN SetWrite(c, otp[c.row])
                      ELSE NoRequest
  BY DEF OtpSet
<1>2. /\ job' = c /\ before' = otp /\ otp' = otp /\ todo' = <<>>
      /\ c.kind = "set" /\ otp[c.row] \in SUBSET Bits
  <2>1. c.kind = "set" /\ c.row \in Rows
    BY CommandsAssumption
  <2> QED
    BY <1>1, <2>1, BeginIs DEF OtpSet, ConfinedInv, RowsTyped
<1>3. TodoIsRest' /\ StartedOk'
  BY <1>1, <1>2 DEF TodoIsRest, StartedOk
<1>4. OthersKept'
  BY <1>2 DEF OthersKept
<1>5. CASE Refusal(c, otp[c.row]) # "none"
  <2>1. Started' = 0 /\ pending'.data = <<>>
    BY <1>1, <1>2, <1>5 DEF Started, NoRequest, Request
  <2>2. PendingIsRest' /\ WrittenOk'
    BY <2>1 DEF PendingIsRest, WrittenOk
  <2> QED
    BY <1>3, <1>4, <2>2 DEF Progress
<1>6. CASE Refusal(c, otp[c.row]) = "none"
  <2>1. Started' = 1
    BY <1>2, <1>6 DEF Started
  <2>2. WriteAt(1)' = SetWrite(c, otp[c.row]) /\ pending' = SetWrite(c, otp[c.row])
    BY <1>1, <1>2, <1>6 DEF WriteAt, Writes
  <2>3. SetWrite(c, otp[c.row]) \in Requests
    BY <1>2, SetWriteType
  <2>4. /\ Len(pending'.data) \in Nat /\ pending'.wRow \in Int
        /\ WriteAt(1)' = pending'
    BY <2>2, <2>3 DEF Requests
  <2>5. RowsDone(1)' = 0
    BY <2>1, <2>4 DEF RowsDone
  <2>6. PendingIsRest'
    BY <2>1, <2>4, <2>5 DEF PendingIsRest
  <2>7. WrittenOk'
    <3>1. \A j \in (1..Started)' : j = 1
      BY <2>1
    <3> QED
      BY <1>2, <2>4, <2>5, <3>1 DEF WrittenOk
  <2> QED
    BY <1>3, <1>4, <2>6, <2>7 DEF Progress
<1> QED
  BY <1>5, <1>6

(* A file starts with none of its entries written. *)
LEMMA JsonProgress == ConfinedInv /\ OtpLoadJson => Progress'
<1> SUFFICES ASSUME ConfinedInv, OtpLoadJson PROVE Progress'
  OBVIOUS
<1>1. PICK f \in Files : f.kind = "json" /\ Begin(f) /\ todo' = f.entries
  BY DEF OtpLoadJson
<1>2. /\ job' = f /\ before' = otp /\ otp' = otp /\ pending'.data = <<>>
      /\ f.entries \in Seq(Entries)
  BY <1>1, CommandsAssumption, BeginIs DEF OtpLoadJson, NoRequest, Request, JsonFiles, BinaryFiles
<1>3. Len(f.entries) \in Nat
  BY <1>2
<1>4. Started' = 0
  BY <1>1, <1>2, <1>3 DEF Started
<1>5. TodoIsRest'
  BY <1>1, <1>2, <1>3, <1>4 DEF TodoIsRest
<1>6. PendingIsRest' /\ StartedOk' /\ WrittenOk' /\ OthersKept'
  BY <1>2, <1>4 DEF PendingIsRest, StartedOk, WrittenOk, OthersKept
<1> QED
  BY <1>5, <1>6 DEF Progress

(* The other commands are not followed. *)
LEMMA OthersBegin == OtpLoadBinary \/ OtpWhiteLabel \/ OtpGet => Progress'
<1> SUFFICES ASSUME OtpLoadBinary \/ OtpWhiteLabel \/ OtpGet PROVE Progress'
  OBVIOUS
<1>1. job'.kind \in {"binary", "white_label", "get"}
  BY CommandsAssumption, BeginIs DEF OtpLoadBinary, OtpWhiteLabel, OtpGet, JsonFiles, BinaryFiles
<1> QED
  BY <1>1 DEF Progress, Followed

LEMMA OthersProgress ==
  Progress /\ (Finish \/ DeviceRefusesRow \/ ConnectionFails \/ ShowMatch \/ NextWrite \/ UNCHANGED vars)
    => Progress'
<1> SUFFICES ASSUME Progress, Followed',
                    Finish \/ DeviceRefusesRow \/ ConnectionFails \/ ShowMatch \/ NextWrite
                      \/ UNCHANGED vars
             PROVE  (TodoIsRest /\ PendingIsRest /\ StartedOk /\ WrittenOk /\ OthersKept)'
  BY DEF Progress
<1>1. UNCHANGED <<job, before>>
  BY DEF Finish, DeviceRefusesRow, ConnectionFails, ShowMatch, NextWrite, Going, vars
<1>2. Followed /\ job.kind \notin {"get", "white_label"}
  BY <1>1 DEF Followed
<1>3. UNCHANGED <<otp, pending, todo>>
  BY <1>2 DEF Finish, DeviceRefusesRow, ConnectionFails, ShowMatch, NextWrite, Going, vars
<1>4. /\ Started' = Started /\ \A j : WriteAt(j)' = WriteAt(j)
      /\ \A j : RowsDone(j)' = RowsDone(j)
  BY <1>1, <1>3 DEF Started, WriteAt, RowsDone
<1>5. result = "none" \/ UNCHANGED result
  BY DEF Finish, DeviceRefusesRow, ConnectionFails, ShowMatch, NextWrite, Going, vars, Working
<1>6. TodoIsRest'
  BY <1>1, <1>2, <1>3, <1>4, <1>5 DEF Progress, TodoIsRest
<1>7. PendingIsRest' /\ StartedOk' /\ WrittenOk' /\ OthersKept'
  BY <1>1, <1>2, <1>3, <1>4 DEF Progress, PendingIsRest, StartedOk, WrittenOk, OthersKept
<1> QED
  BY <1>6, <1>7

(* The next entry finds its rows as the command found them, so what is handed to *)
(* the device is the write it would have been then.                              *)
LEMMA EntryProgress == ConfinedInv /\ Progress /\ NextEntry => Progress'
<1> SUFFICES ASSUME ConfinedInv, Progress, NextEntry, Followed' PROVE Progress'
  BY DEF Progress
<1>e. PICK e : e = Head(todo)
  OBVIOUS
<1>j. PICK j : j = Started + 1
  OBVIOUS
<1>1. /\ job.kind = "json" /\ pending.data = <<>> /\ todo # <<>>
      /\ UNCHANGED <<otp, before, job>>
  BY DEF NextEntry, Going
<1>2. Followed /\ TodoIsRest /\ StartedOk /\ WrittenOk /\ OthersKept
  BY <1>1 DEF Followed, Progress
<1>3. \A k : WriteAt(k)' = WriteAt(k)
  BY <1>1 DEF WriteAt
<1>4. /\ job.entries \in Seq(Entries) /\ todo \in Seq(Entries)
      /\ Len(todo) \in Nat \ {0} /\ Len(job.entries) \in Nat
      /\ DOMAIN job.entries = 1..Len(job.entries) /\ Len(Tail(todo)) = Len(todo) - 1
      /\ e = todo[1]
  BY <1>1, <1>e DEF ConfinedInv, TodoOk
<1>5. Started = Len(job.entries) - Len(todo) /\ Started \in Nat /\ j \in DOMAIN job.entries
  BY <1>1, <1>2, <1>4, <1>j DEF Started, TodoIsRest
<1>6. e = job.entries[j] /\ e \in Entries /\ e.row \in Rows /\ e.row \in Int
  <2>1. e = job.entries[j]
    BY <1>1, <1>2, <1>4, <1>j, 1 \in 1..Len(todo) DEF TodoIsRest
  <2>2. e \in Entries
    BY <1>4, <1>5, <2>1, ElementOfSeq
  <2> QED
    BY <2>1, <2>2 DEF Entries, Rows
<1>7. otp[e.row] \in SUBSET Bits /\ before[e.row] \in SUBSET Bits
  BY <1>6 DEF ConfinedInv, RowsTyped
<1>8. WriteAt(j) = EntryWrite(e, before[e.row])
  BY <1>1, <1>5, <1>6 DEF WriteAt, Writes
<1>9. wRowCount(e) \in Nat
  BY <1>6, <1>7, EntryRequest
<1>10. ASSUME NEW r \in Rows, r \in Copies(e.row, wRowCount(e)) PROVE otp[r] = before[r]
  <2> SUFFICES ASSUME otp[r] # before[r] PROVE FALSE
    OBVIOUS
  <2>1. PICK k \in 1..Started : r \in Copies(WriteAt(k).wRow, Len(WriteAt(k).data))
    BY <1>2 DEF OthersKept
  <2>2. r \in Copies(job.entries[k].row, wRowCount(job.entries[k]))
    BY <1>1, <1>2, <2>1, StartedWrites DEF StartedOk
  <2>3. k # j /\ k \in DOMAIN job.entries
    BY <1>4, <1>5, <1>j
  <2> QED
    BY <1>1, <1>2, <1>5, <1>6, <1>10, <2>2, <2>3 DEF Followed, EntriesApart
<1>11. wRowCount(e) > 0 => otp[e.row] = before[e.row]
  BY <1>6, <1>9, <1>10 DEF Copies
<1>12. CASE EntryRefused(e, otp[e.row])
  <2>1. UNCHANGED <<pending, todo>>
    BY <1>12, <1>e DEF NextEntry
  <2>2. Started' = Started /\ \A k : RowsDone(k)' = RowsDone(k)
    BY <1>1, <1>3, <2>1 DEF Started, RowsDone
  <2> QED
    BY <1>1, <1>2, <1>3, <2>1, <2>2
       DEF Progress, TodoIsRest, PendingIsRest, StartedOk, WrittenOk, OthersKept
<1>13. CASE ~EntryRefused(e, otp[e.row])
  <2>1. pending' = WriteAt(j) /\ todo' = Tail(todo)
    <3>1. EntryWrite(e, otp[e.row]) = EntryWrite(e, before[e.row])
      BY <1>6, <1>7, <1>11, <1>13, EntrySame
    <3> QED
      BY <1>8, <1>13, <3>1, <1>e DEF NextEntry
  <2>2. /\ WriteAt(j) \in Requests /\ Len(WriteAt(j).data) = wRowCount(e)
        /\ WriteAt(j).wRow = e.row
    <3>1. EntryWrite(e, otp[e.row]) = EntryWrite(e, before[e.row])
      BY <1>6, <1>7, <1>11, <1>13, EntrySame
    <3> QED
      BY <1>6, <1>7, <1>8, <1>13, <3>1, EntryWriteType, EntryRequest
  <2>3. Started' = j
    BY <1>1, <1>4, <1>5, <2>1, <1>j DEF Started
  <2>4. ASSUME NEW k \in 1..j
        PROVE  RowsDone(k)' = IF k = j THEN 0 ELSE RowsDone(k)
    <3>1. CASE k = j
      BY <1>3, <1>9, <2>1, <2>2, <2>3, <3>1 DEF RowsDone
    <3>2. CASE k # j
      <4>1. RowsDone(k)' = Len(WriteAt(k).data) - 0
        BY <1>3, <2>3, <3>2 DEF RowsDone
      <4>2. RowsDone(k) = Len(WriteAt(k).data) - 0
        BY <1>1 DEF RowsDone
      <4> QED
        BY <3>2, <4>1, <4>2
    <3> QED
      BY <3>1, <3>2
  <2>5. TodoIsRest'
    <3>1. Len(todo') <= Len(job.entries)
      BY <1>2, <1>4, <1>1, <2>1 DEF TodoIsRest
    <3>2. ASSUME NEW i \in 1..Len(todo') PROVE todo'[i] = job.entries[j + i]
      <4>1. todo'[i] = todo[i + 1] /\ i + 1 \in 1..Len(todo)
        BY <1>4, <2>1
      <4>2. Started + (i + 1) = j + i
        <5>1. Started \in Int /\ i \in Int /\ j = Started + 1
          BY <1>5, <1>j
        <5> QED
          BY <5>1
      <4> QED
        BY <1>1, <1>2, <4>1, <4>2 DEF TodoIsRest
    <3> QED
      BY <1>1, <2>3, <3>1, <3>2 DEF TodoIsRest
  <2>6. PendingIsRest'
    <3>1. Len(pending'.data) \in Nat /\ pending'.wRow \in Int
      BY <2>1, <2>2, <1>9, <1>6
    <3>2. j > 0 /\ j \in 1..j
      BY <1>5, <1>j
    <3>3. RowsDone(Started)' = 0
      BY <2>3, <2>4, <3>2
    <3>4. WriteAt(Started)' = pending'
      BY <1>3, <2>1, <2>3
    <3> QED
      BY <2>3, <3>1, <3>2, <3>3, <3>4 DEF PendingIsRest
  <2>7. StartedOk'
    <3>1. ASSUME NEW k \in 1..j PROVE Len(WriteAt(k).data) = wRowCount(job.entries[k])
      <4>1. CASE k = j
        BY <1>6, <2>2, <4>1
      <4>2. CASE k # j
        <5>1. k \in 1..Started
          BY <1>5, <4>2, <1>j
        <5> QED
          BY <1>1, <1>2, <5>1 DEF StartedOk
      <4> QED
        BY <4>1, <4>2
    <3> QED
      BY <1>1, <1>3, <2>3, <3>1 DEF StartedOk
  <2>8. WrittenOk'
    <3>1. ASSUME NEW k \in 1..j, NEW i \in 1..Len(WriteAt(k).data)
          PROVE  LET row == WriteAt(k).wRow + i - 1
                 IN  IF i <= RowsDone(k)'
                     THEN row \in Rows /\ otp[row] = Row(WriteAt(k).bEcc, WriteAt(k).data[i])
                     ELSE row \in Rows => otp[row] = before[row]
      <4>1. CASE k = j
        <5>1. RowsDone(k)' = 0 /\ ~(i <= 0)
          BY <2>4, <4>1
        <5>2. WriteAt(k).wRow + i - 1 \in Copies(e.row, wRowCount(e))
          BY <1>6, <1>9, <2>2, <4>1 DEF Copies
        <5> QED
          BY <1>10, <5>1, <5>2
      <4>2. CASE k # j
        <5>1. RowsDone(k)' = RowsDone(k)
          BY <2>4, <4>2
        <5>2. k \in 1..Started
          BY <1>5, <4>2, <1>j
        <5> QED
          BY <1>2, <5>1, <5>2 DEF WrittenOk
      <4> QED
        BY <4>1, <4>2
    <3> QED
      BY <1>1, <1>3, <2>3, <3>1 DEF WrittenOk
  <2>9. OthersKept'
    <3>1. 1..Started \subseteq 1..j
      BY <1>5, <1>j
    <3> QED
      BY <1>1, <1>2, <1>3, <2>3, <3>1 DEF OthersKept
  <2> QED
    BY <2>5, <2>6, <2>7, <2>8, <2>9 DEF Progress
<1> QED
  BY <1>12, <1>13

(* The device writes the next row of the last write that was started: a row that no *)
(* other write is for, so that what these have written, or have found, is still there. *)
LEMMA WriteProgress == ConfinedInv /\ Progress /\ DeviceWritesRow => Progress'
<1> SUFFICES ASSUME ConfinedInv, Progress, DeviceWritesRow, Followed' PROVE Progress'
  BY DEF Progress
<1>n. PICK n : n = Started
  OBVIOUS
<1>w. PICK w : w = WriteAt(n)
  OBVIOUS
<1>k. PICK k : k = RowsDone(n)
  OBVIOUS
<1>l. PICK len : len = Len(w.data)
  OBVIOUS
<1>p. PICK left : left = Len(pending.data)
  OBVIOUS
<1>r. PICK row : row = pending.wRow
  OBVIOUS
<1>v. PICK want : want = Row(pending.bEcc, Head(pending.data))
  OBVIOUS
<1>1. /\ pending.data # <<>> /\ UNCHANGED <<before, job, todo, result>>
      /\ row \in Rows /\ otp' = [otp EXCEPT ![row] = want]
      /\ pending' = Request(row + 1, pending.bEcc, Tail(pending.data))
  BY <1>r, <1>v DEF DeviceWritesRow, Going
<1>2. Followed /\ TodoIsRest /\ PendingIsRest /\ StartedOk /\ WrittenOk /\ OthersKept
  BY <1>1 DEF Followed, Progress
<1>3. Started' = n /\ \A j : WriteAt(j)' = WriteAt(j)
  BY <1>1, <1>n DEF WriteAt, Started
<1>4. n \in Nat /\ n > 0 /\ n \in 1..n /\ w.wRow \in Int /\ len \in Nat
  <2>1. n \in Nat /\ n > 0
    BY <1>1, <1>2, <1>n, StartedWrites DEF PendingIsRest
  <2>2. n \in 1..n
    BY <2>1
  <2> QED
    BY <1>2, <2>1, <2>2, <1>n, <1>w, <1>l, StartedWrites
<1>5. /\ left \in Nat /\ left # 0 /\ row \in Int
      /\ Head(pending.data) = pending.data[1]
      /\ Len(Tail(pending.data)) = left - 1
      /\ \A i \in 1..(left - 1) : Tail(pending.data)[i] = pending.data[i + 1]
  BY <1>1, <1>p, <1>r DEF ConfinedInv, PendingOk, Requests
<1>6. /\ k = len - left /\ k \in Nat /\ k < len
      /\ row = w.wRow + k /\ pending.bEcc = w.bEcc
      /\ \A i \in 1..left : pending.data[i] = w.data[k + i]
  <2>1. k = len - left
    BY <1>n, <1>w, <1>k, <1>l, <1>p DEF RowsDone
  <2>2. left <= len
    BY <1>1, <1>2, <1>n, <1>w, <1>l, <1>p DEF PendingIsRest
  <2>3. k \in Nat /\ k < len
    BY <1>4, <1>5, <2>1, <2>2
  <2>4. row = w.wRow + k /\ pending.bEcc = w.bEcc
    BY <1>1, <1>2, <1>n, <1>w, <1>k, <1>r DEF PendingIsRest
  <2>5. \A i \in 1..left : pending.data[i] = w.data[k + i]
    BY <1>1, <1>2, <1>n, <1>w, <1>k, <1>p DEF PendingIsRest
  <2> QED
    BY <2>1, <2>3, <2>4, <2>5
<1>7. want = Row(w.bEcc, w.data[k + 1])
  <2>1. pending.data[1] = w.data[k + 1]
    BY <1>5, <1>6, 1 \in 1..left
  <2> QED
    BY <1>5, <1>6, <1>v, <2>1
<1>8. Len(pending'.data) = left - 1
  BY <1>1, <1>5 DEF Request
<1>9. RowsDone(n)' = k + 1 /\ \A j : j # n => RowsDone(j)' = RowsDone(j)
  <2>1. RowsDone(n)' = len - (left - 1)
    BY <1>3, <1>8, <1>w, <1>l DEF RowsDone
  <2>2. \A j : j # n => RowsDone(j)' = RowsDone(j)
    BY <1>3, <1>n DEF RowsDone
  <2>3. len - (left - 1) = k + 1
    BY <1>4, <1>5, <1>6
  <2> QED
    BY <2>1, <2>2, <2>3
<1>10. row \in Copies(w.wRow, len)
  <2>1. w.wRow <= row /\ row < w.wRow + len
    BY <1>4, <1>6
  <2> QED
    BY <1>4, <1>5, <2>1, InCopies
<1>11. otp'[row] = want /\ \A r : r # row => otp'[r] = otp[r]
  <2>1. DOMAIN otp = Rows
    BY DEF ConfinedInv, RowsTyped
  <2> QED
    BY <1>1, <2>1
<1>12. TodoIsRest'
  BY <1>1, <1>2, <1>3, <1>n DEF TodoIsRest
<1>13. StartedOk'
  BY <1>1, <1>2, <1>3, <1>n DEF StartedOk
<1>14. PendingIsRest'
  <2>1. /\ pending'.wRow = row + 1 /\ pending'.bEcc = pending.bEcc
        /\ pending'.data = Tail(pending.data)
    BY <1>1 DEF Request
  <2>2. left - 1 <= len /\ row + 1 = w.wRow + (k + 1)
    BY <1>4, <1>5, <1>6
  <2>3. ASSUME NEW i \in 1..(left - 1) PROVE pending'.data[i] = w.data[(k + 1) + i]
    <3>1. pending'.data[i] = pending.data[i + 1] /\ i + 1 \in 1..left
      BY <1>5, <2>1
    <3>2. k + (i + 1) = (k + 1) + i
      BY <1>6
    <3> QED
      BY <1>6, <3>1, <3>2
  <2>4. Started' = n /\ WriteAt(Started)' = w /\ RowsDone(Started)' = k + 1
    BY <1>3, <1>9, <1>w
  <2> QED
    <3>1. n > 0 /\ Len(pending'.data) <= Len(w.data)
      BY <1>4, <1>8, <1>l, <2>2
    <3>2. pending'.bEcc = w.bEcc /\ pending'.wRow = w.wRow + (k + 1)
      BY <1>6, <2>1, <2>2
    <3>3. \A i \in 1..Len(pending'.data) : pending'.data[i] = w.data[(k + 1) + i]
      BY <1>8, <2>3
    <3> QED
      BY <2>4, <3>1, <3>2, <3>3 DEF PendingIsRest
<1>15. WrittenOk'
  <2>1. ASSUME NEW j \in 1..n, NEW i \in 1..Len(WriteAt(j).data),
               NEW r, r = WriteAt(j).wRow + i - 1
        PROVE  IF i <= RowsDone(j)'
               THEN r \in Rows /\ otp'[r] = Row(WriteAt(j).bEcc, WriteAt(j).data[i])
               ELSE r \in Rows => otp'[r] = before[r]
    <3>1. WriteAt(j).wRow \in Int /\ Len(WriteAt(j).data) \in Nat
      BY <1>2, <1>n, StartedWrites
    <3>2. r \in Copies(WriteAt(j).wRow, Len(WriteAt(j).data))
      <4>1. r \in Int /\ WriteAt(j).wRow <= r /\ r < WriteAt(j).wRow + Len(WriteAt(j).data)
        BY <2>1, <3>1
      <4> QED
        BY <3>1, <4>1, InCopies
    <3>3. IF i <= RowsDone(j) THEN r \in Rows /\ otp[r] = Row(WriteAt(j).bEcc, WriteAt(j).data[i])
          ELSE r \in Rows => otp[r] = before[r]
      BY <1>2, <1>n, <2>1 DEF WrittenOk
    <3>4. CASE j # n
      <4>1. r # row
        BY <1>2, <1>4, <1>10, <1>n, <1>w, <1>l, <3>2, <3>4, StartedApart
      <4> QED
        BY <1>9, <1>11, <3>3, <3>4, <4>1
    <3>5. CASE j = n /\ i = k + 1
      <4>1. RowsDone(j)' = k + 1 /\ i <= k + 1
        BY <1>6, <1>9, <3>5
      <4>2. r = row
        BY <1>4, <1>6, <1>w, <2>1, <3>5
      <4> QED
        BY <1>1, <1>7, <1>11, <1>w, <3>5, <4>1, <4>2
    <3>6. CASE j = n /\ i # k + 1
      <4>1. RowsDone(j)' = k + 1 /\ RowsDone(j) = k
        BY <1>9, <1>k, <3>6
      <4>2. r # row
        BY <1>4, <1>6, <1>w, <2>1, <3>6
      <4>3. i <= k + 1 <=> i <= k
        BY <1>6, <3>6
      <4> QED
        BY <1>11, <3>3, <4>1, <4>2, <4>3
    <3> QED
      BY <3>4, <3>5, <3>6
  <2> QED
    BY <1>1, <1>3, <2>1 DEF WrittenOk
<1>16. OthersKept'
  <2>1. ASSUME NEW r \in Rows, otp'[r] # before[r]
        PROVE  \E j \in 1..n : r \in Copies(WriteAt(j).wRow, Len(WriteAt(j).data))
    <3>1. CASE r = row
      BY <1>4, <1>10, <1>w, <1>l, <3>1
    <3>2. CASE r # row
      BY <1>2, <1>11, <1>n, <2>1, <3>2 DEF OthersKept
    <3> QED
      BY <3>1, <3>2
  <2> QED
    BY <1>1, <1>3, <2>1 DEF OthersKept
<1> QED
  BY <1>12, <1>13, <1>14, <1>15, <1>16 DEF Progress

\* A command that has succeeded has written everything.
DoneInv == result = "ok" /\ Followed => todo = <<>> /\ pending.data = <<>>
OtpInv == ConfinedInv /\ Progress /\ DoneInv /\ RefusedForCause

LEMMA OtpInvInitially == Init => OtpInv
<1> SUFFICES ASSUME Init PROVE OtpInv
  OBVIOUS
<1>1. job = NoJob /\ result = "none"
  BY DEF Init
<1>2. Progress /\ DoneInv /\ RefusedForCause
  BY <1>1 DEF Progress, Followed, DoneInv, RefusedForCause, NoJob
<1> QED
  BY <1>2, ConfinedInitially DEF OtpInv

(* When the device refuses a row it finds there what the command found. *)
LEMMA RefusalCause == ConfinedInv /\ Progress /\ DeviceRefusesRow => RefusedForCause'
<1> SUFFICES ASSUME ConfinedInv, Progress, DeviceRefusesRow, Followed,
                    result' = "unsupported_modification"
             PROVE  RefusedForCause'
  BY DEF DeviceRefusesRow, Going, RefusedForCause, Followed
<1>n. PICK n : n = Started
  OBVIOUS
<1>w. PICK w : w = WriteAt(n)
  OBVIOUS
<1>k. PICK k : k = RowsDone(n)
  OBVIOUS
<1>l. PICK len : len = Len(w.data)
  OBVIOUS
<1>p. PICK left : left = Len(pending.data)
  OBVIOUS
<1>r. PICK row : row = pending.wRow
  OBVIOUS
<1>1. /\ pending.data # <<>> /\ UNCHANGED <<before, job>> /\ row \in Rows \ Locked
      /\ IF pending.bEcc THEN otp[row] # {} ELSE ~(otp[row] \subseteq Head(pending.data))
  BY <1>r DEF DeviceRefusesRow, Going, Row
<1>2. TodoIsRest /\ PendingIsRest /\ WrittenOk
  BY DEF Progress
<1>3. n \in Nat /\ n \in 1..n /\ w.wRow \in Int /\ len \in Nat
  <2>1. n \in Nat /\ n > 0
    BY <1>1, <1>2, <1>n, StartedWrites DEF PendingIsRest
  <2>2. n \in 1..n
    BY <2>1
  <2> QED
    BY <1>2, <2>1, <2>2, <1>n, <1>w, <1>l, StartedWrites
<1>4. left \in Nat /\ left # 0 /\ row \in Int /\ Head(pending.data) = pending.data[1]
  BY <1>1, <1>p, <1>r DEF ConfinedInv, PendingOk, Requests
<1>5. k \in Nat /\ k < len
  <2>1. k = len - left
    BY <1>n, <1>w, <1>k, <1>l, <1>p DEF RowsDone
  <2>2. left <= len
    BY <1>1, <1>2, <1>n, <1>w, <1>l, <1>p DEF PendingIsRest
  <2> QED
    BY <1>3, <1>4, <2>1, <2>2
<1>6. row = w.wRow + k /\ pending.bEcc = w.bEcc /\ Head(pending.data) = w.data[k + 1]
  <2>1. 1 \in 1..left
    BY <1>4
  <2> QED
    BY <1>1, <1>2, <1>4, <2>1, <1>n, <1>w, <1>k, <1>r, <1>p DEF PendingIsRest
<1>7. row = w.wRow + (k + 1) - 1 /\ ~(k + 1 <= k) /\ k + 1 \in 1..len
  BY <1>3, <1>5, <1>6
<1>8. otp[row] = before[row]
  BY <1>1, <1>2, <1>3, <1>5, <1>7, <1>n, <1>w, <1>k, <1>l DEF WrittenOk
<1>9. IF w.bEcc THEN before[row] # {} ELSE ~(before[row] \subseteq w.data[k + 1])
  BY <1>1, <1>6, <1>8
<1>10. CASE job.kind = "json"
  <2>1. /\ w = EntryWrite(job.entries[n], before[job.entries[n].row])
    BY <1>2, <1>3, <1>10, <1>n, <1>w, StartedWrites
  <2>2. job.entries[n] \in ToSet(job.entries)
    <3>1. job.entries \in Seq(Entries) /\ todo \in Seq(Entries)
      BY <1>10 DEF ConfinedInv, TodoOk
    <3>2. Len(todo) \in Nat /\ Len(job.entries) \in Nat /\ DOMAIN job.entries = 1..Len(job.entries)
      BY <3>1
    <3>3. n \in DOMAIN job.entries
      BY <1>3, <1>10, <1>n, <3>2 DEF Started
    <3> QED
      BY <3>3 DEF ToSet
  <2>3. DOMAIN w.data = 1..Len(w.data)
    <3>1. w.data \in Seq(SUBSET Bits)
      BY <1>2, <1>3, <1>n, <1>w, StartedWrites
    <3> QED
      BY <3>1
  <2>4. Conflict(w, before)
    BY <1>1, <1>7, <1>9, <1>l, <2>3 DEF Conflict
  <2>5. \E e \in ToSet(job.entries) : Conflict(EntryWrite(e, before[e.row]), before)
    BY <2>1, <2>2, <2>4
  <2> QED
    BY <1>1, <1>10, <2>5 DEF RefusedForCause
<1>11. CASE job.kind = "set"
  <2>1. job \in Sets /\ Refusal(job, before[job.row]) = "none" /\ n = 1
    BY <1>2, <1>3, <1>11, <1>n DEF TodoIsRest, Started
  <2>2. job.row \in Rows /\ job.row \in Int /\ job.copies \in Int
    BY <2>1, CommandsAssumption DEF Rows
  <2>3. w = SetWrite(job, before[job.row])
    BY <1>11, <1>w, <2>1 DEF WriteAt, Writes
  <2>4. before[job.row] \subseteq NewValue(job, before[job.row])
        /\ (before[job.row] = {} \/ ~SelectEcc(job))
    BY <2>1 DEF Refusal
  <2>5. CopyCount(job) \in Nat \ {0}
    BY <2>2, RedundancyType
  <2>6. w.bEcc = SelectEcc(job) /\ w.wRow = job.row
        /\ w.data = [i \in 1..(IF SelectEcc(job) THEN 1 ELSE CopyCount(job))
                       |-> NewValue(job, before[job.row])]
    BY <2>3 DEF SetWrite, Request
  <2>7. CASE SelectEcc(job)
    <3>1. len = 1
      BY <1>l, <2>6, <2>7
    <3>2. k = 0 /\ row = job.row + k
      BY <1>5, <1>6, <2>6, <3>1
    <3>3. row = job.row
      BY <2>2, <3>2
    <3> QED
      BY <1>9, <2>4, <2>6, <2>7, <3>3
  <2>8. CASE ~SelectEcc(job)
    <3>1. k + 1 \in 1..CopyCount(job)
      <4>1. len = CopyCount(job)
        BY <1>l, <2>5, <2>6, <2>8
      <4> QED
        BY <1>7, <4>1
    <3>2. w.data[k + 1] = NewValue(job, before[job.row])
      BY <2>6, <2>8, <3>1
    <3>3. ~(before[row] \subseteq before[job.row])
      BY <1>9, <2>4, <2>6, <2>8, <3>2
    <3>4. row \in SetRows(job)
      <4>1. job.row <= row /\ row < job.row + CopyCount(job)
        <5>1. row = job.row + k /\ k >= 0 /\ k + 1 <= CopyCount(job)
          BY <1>5, <1>6, <2>6, <3>1
        <5> QED
          BY <1>5, <2>2, <2>5, <5>1
      <4> QED
        BY <1>4, <2>2, <2>5, <4>1, InCopies DEF SetRows
    <3>5. \E r \in SetRows(job) : ~(before[r] \subseteq before[job.row])
      BY <3>3, <3>4
    <3> QED
      BY <1>1, <1>11, <3>5 DEF RefusedForCause
  <2> QED
    BY <2>7, <2>8
<1> QED
  BY <1>10, <1>11 DEF Followed

(* No other step ends in that way. *)
LEMMA OthersCause ==
  ASSUME RefusedForCause, [Next]_vars, ~DeviceRefusesRow
  PROVE  RefusedForCause'
<1>1. CASE UNCHANGED vars
  BY <1>1 DEF vars, RefusedForCause
<1>2. CASE result' # "unsupported_modification"
  BY <1>2 DEF RefusedForCause
<1>3. CASE Next
  <2>1. \A c, old : Refusal(c, old) # "unsupported_modification"
    BY DEF Refusal
  <2>2. result' # "unsupported_modification"
    BY <1>3, <2>1 DEF Next, OtpSet, OtpLoadJson, NextEntry, OtpLoadBinary, OtpWhiteLabel, NextWrite,
         OtpGet, ShowMatch, Finish, DeviceWritesRow, ConnectionFails, Working
  <2> QED
    BY <1>2, <2>2
<1> QED
  BY <1>1, <1>3

(* A command that has ended is not continued, and it ends well only with nothing to do. *)
LEMMA DoneStep == DoneInv /\ [Next]_vars => DoneInv'
<1> SUFFICES ASSUME DoneInv, [Next]_vars, result' = "ok", Followed'
             PROVE  (todo = <<>> /\ pending.data = <<>>)'
  BY DEF DoneInv
<1>1. CASE UNCHANGED vars
  BY <1>1 DEF vars, DoneInv, Followed
<1>2. CASE Finish
  BY <1>2 DEF Finish
<1>3. CASE Next /\ ~Finish
  <2>1. \A c, old : Refusal(c, old) # "ok"
    BY DEF Refusal
  <2>2. ShowMatch
    BY <1>3, <2>1 DEF Next, OtpSet, OtpLoadJson, NextEntry, OtpLoadBinary, OtpWhiteLabel, NextWrite,
         OtpGet, DeviceWritesRow, DeviceRefusesRow, ConnectionFails, Working
  <2>3. job'.kind = "get"
    BY <2>2 DEF ShowMatch
  <2> QED
    BY <2>3 DEF Followed
<1> QED
  BY <1>1, <1>2, <1>3

(* The inductive invariant of the commands that write: what is asked of the device is   *)
(* what is left of the writes that follow from the rows as the command found them, what *)
(* the device has done of these is in the rows, and nothing else has changed.           *)
THEOREM OtpInvariant == Spec => []OtpInv
<1>1. OtpInv /\ [Next]_vars => OtpInv'
  <2> SUFFICES ASSUME OtpInv, [Next]_vars PROVE OtpInv'
    OBVIOUS
  <2>1. ConfinedInv /\ Progress /\ DoneInv /\ RefusedForCause
    BY DEF OtpInv
  <2>2. ConfinedInv'
    BY <2>1, SetConfined, JsonConfined, EntryConfined, BinaryConfined, WhiteLabelConfined,
       WlConfined, GetConfined, OthersConfined, WriteConfined DEF Next
  <2>3. Progress'
    BY <2>1, SetProgress, JsonProgress, OthersBegin, OthersProgress, EntryProgress, WriteProgress
       DEF Next
  <2>4. RefusedForCause'
    BY <2>1, RefusalCause, OthersCause
  <2>5. DoneInv'
    BY <2>1, DoneStep
  <2> QED
    BY <2>2, <2>3, <2>4, <2>5 DEF OtpInv
<1> QED
  BY OtpInvInitially, <1>1, PTL DEF Spec

(* The device refuses a modification only for what a row held before the command: a file *)
(* of which the entries are for different rows never stands in its own way, so a load    *)
(* that was interrupted can be repeated, and a set is only refused for a copy.           *)
THEOREM RefusedTheorem == Spec => []RefusedForCause
<1>1. OtpInv => RefusedForCause
  BY DEF OtpInv
<1> QED
  BY <1>1, OtpInvariant, PTL

-----------------------------------------------------------------------------
(* What a dump shows.  It goes through the entries with a fold, and after k of them *)
(* the rows of these are as their writes leave them and all the others are empty.   *)

Entry(entries, j) == EntryWrite(entries[j], {})
ShownUpTo(rows, entries, k) ==
    /\ rows \in [Rows -> SUBSET Bits]
    /\ \A j \in 1..k : \A i \in 1..Len(Entry(entries, j).data) :
          LET row == Entry(entries, j).wRow + i - 1
          IN  row \in Rows => rows[row] = Row(Entry(entries, j).bEcc, Entry(entries, j).data[i])
    /\ \A r \in Rows :
          (\A j \in 1..k : r \notin Copies(Entry(entries, j).wRow, Len(Entry(entries, j).data)))
            => rows[r] = {}

LEMMA DumpIsFold ==
  ASSUME NEW entries
  PROVE  otp_dump(entries) =
           (CHOOSE iter : iter = [s \in SUBSET (DOMAIN entries) |->
              IF s = {} THEN [r \in Rows |-> {}]
              ELSE Dumped(iter[s \ {Max(s)}], entries[Max(s)])])[DOMAIN entries]
  BY Zenon DEF otp_dump, FoldLeft, MapThenFoldSet

LEMMA EntryTypes ==
  ASSUME NEW e \in Entries
  PROVE  /\ EntryWrite(e, {}) \in Requests /\ EntryWrite(e, {}).wRow \in Int
         /\ EntryWrite(e, {}).wRow = e.row
         /\ Len(EntryWrite(e, {}).data) \in Nat
         /\ \A i \in 1..Len(EntryWrite(e, {}).data) :
               Row(EntryWrite(e, {}).bEcc, EntryWrite(e, {}).data[i]) \in SUBSET Bits
<1>1. EntryWrite(e, {}) \in Requests /\ EntryWrite(e, {}).wRow = e.row
  BY EntryRequest
<1>2. /\ EntryWrite(e, {}).data \in Seq(SUBSET Bits) /\ EntryWrite(e, {}).bEcc \in BOOLEAN
      /\ EntryWrite(e, {}).wRow \in Int
  BY <1>1 DEF Requests
<1>3. \A i \in 1..Len(EntryWrite(e, {}).data) : EntryWrite(e, {}).data[i] \in SUBSET Bits
  BY <1>2, ElementOfSeq
<1> QED
  BY <1>1, <1>2, <1>3, RowType

LEMMA DumpedType ==
  ASSUME NEW rows \in [Rows -> SUBSET Bits], NEW e \in Entries
  PROVE  Dumped(rows, e) \in [Rows -> SUBSET Bits]
<1>w. PICK w : w = EntryWrite(e, {})
  OBVIOUS
<1>1. /\ w.wRow \in Int /\ Len(w.data) \in Nat
      /\ \A i \in 1..Len(w.data) : Row(w.bEcc, w.data[i]) \in SUBSET Bits
  BY <1>w, EntryTypes
<1>2. ASSUME NEW r \in Rows, r \in Copies(w.wRow, Len(w.data))
      PROVE  Row(w.bEcc, w.data[r - w.wRow + 1]) \in SUBSET Bits
  <2>1. r \in Int
    BY DEF Rows
  <2>2. w.wRow <= r /\ r < w.wRow + Len(w.data)
    BY <1>1, <1>2, <2>1, InCopies
  <2>3. r - w.wRow + 1 \in 1..Len(w.data)
    BY <1>1, <2>1, <2>2
  <2> QED
    BY <1>1, <2>3
<1> QED
  BY <1>2, <1>w DEF Dumped, Stored

(* One more entry, for rows that no earlier one is for. *)
LEMMA DumpedShows ==
  ASSUME NEW entries \in Seq(Entries), NEW k \in 0..(Len(entries) - 1),
         \A i, j \in DOMAIN entries : i # j =>
            Copies(Entry(entries, i).wRow, Len(Entry(entries, i).data))
              \intersect Copies(Entry(entries, j).wRow, Len(Entry(entries, j).data)) = {},
         NEW rows, ShownUpTo(rows, entries, k)
  PROVE  ShownUpTo(Dumped(rows, entries[k + 1]), entries, k + 1)
<1>n. PICK new : new = Dumped(rows, entries[k + 1])
  OBVIOUS
<1>w. PICK w : w = Entry(entries, k + 1)
  OBVIOUS
<1>l. PICK len : len = Len(w.data)
  OBVIOUS
<1>1. DOMAIN entries = 1..Len(entries) /\ Len(entries) \in Nat /\ k \in Nat /\ k + 1 \in DOMAIN entries
  OBVIOUS
<1>2. \A j \in 1..(k + 1) : j \in DOMAIN entries /\ entries[j] \in Entries
  <2>1. \A j \in 1..(k + 1) : j \in 1..Len(entries)
    BY <1>1
  <2> QED
    BY <1>1, <2>1, ElementOfSeq
<1>3. \A j \in 1..(k + 1) : Entry(entries, j).wRow \in Int /\ Len(Entry(entries, j).data) \in Nat
  BY <1>2, EntryTypes DEF Entry
<1>4. rows \in [Rows -> SUBSET Bits] /\ new \in [Rows -> SUBSET Bits]
  <2>1. k + 1 \in 1..(k + 1)
    BY <1>1
  <2>2. entries[k + 1] \in Entries
    BY <1>2, <2>1
  <2>3. rows \in [Rows -> SUBSET Bits]
    BY DEF ShownUpTo
  <2> QED
    BY <1>n, <2>2, <2>3, DumpedType
<1>5. k + 1 \in 1..(k + 1) /\ w.wRow \in Int /\ len \in Nat
  <2>1. k + 1 \in 1..(k + 1)
    BY <1>1
  <2> QED
    BY <1>3, <1>w, <1>l, <2>1
<1>6. \A r \in Rows : new[r] = IF r \in Copies(w.wRow, len)
                               THEN Row(w.bEcc, w.data[r - w.wRow + 1]) ELSE rows[r]
  BY <1>n, <1>w, <1>l DEF Dumped, Stored, Entry
<1>7. ASSUME NEW j \in 1..(k + 1), NEW i \in 1..Len(Entry(entries, j).data),
             NEW row \in Rows, row = Entry(entries, j).wRow + i - 1
      PROVE  new[row] = Row(Entry(entries, j).bEcc, Entry(entries, j).data[i])
  <2>1. row \in Copies(Entry(entries, j).wRow, Len(Entry(entries, j).data))
    <3>1. /\ row \in Int /\ Entry(entries, j).wRow <= row
          /\ row < Entry(entries, j).wRow + Len(Entry(entries, j).data)
      BY <1>3, <1>7
    <3> QED
      BY <1>3, <3>1, InCopies
  <2>2. CASE j = k + 1
    <3>1. row - w.wRow + 1 = i
      <4>1. row = w.wRow + i - 1 /\ i \in Int
        BY <1>7, <1>w, <2>2
      <4> QED
        BY <1>5, <4>1
    <3> QED
      BY <1>6, <1>w, <1>l, <2>1, <2>2, <3>1
  <2>3. CASE j # k + 1
    <3>1. row \notin Copies(w.wRow, len)
      BY <1>1, <1>2, <1>w, <1>l, <2>1, <2>3
    <3>2. j \in 1..k
      BY <1>1, <2>3
    <3> QED
      BY <1>6, <1>7, <3>1, <3>2 DEF ShownUpTo
  <2> QED
    BY <2>2, <2>3
<1>8. ASSUME NEW r \in Rows,
             \A j \in 1..(k + 1) : r \notin Copies(Entry(entries, j).wRow, Len(Entry(entries, j).data))
      PROVE  new[r] = {}
  <2>1. r \notin Copies(w.wRow, len)
    BY <1>5, <1>8, <1>w, <1>l
  <2>2. 1..k \subseteq 1..(k + 1)
    BY <1>1
  <2> QED
    BY <1>6, <1>8, <2>1, <2>2 DEF ShownUpTo
<1> QED
  BY <1>4, <1>7, <1>8, <1>n DEF ShownUpTo

LEMMA DumpShows ==
  ASSUME NEW entries \in Seq(Entries),
         \A i, j \in DOMAIN entries : i # j =>
            Copies(Entry(entries, i).wRow, Len(Entry(entries, i).data))
              \intersect Copies(Entry(entries, j).wRow, Len(Entry(entries, j).data)) = {}
  PROVE  ShownUpTo(otp_dump(entries), entries, Len(entries))
<1> DEFINE n == Len(entries)
           V == [Rows -> SUBSET Bits]
           blank == [r \in Rows |-> {}]
           op == [x \in (1..n) \X V |-> Dumped(x[2], entries[x[1]])]
           Folds(it) == it = [S \in SUBSET (1..n) |->
                               IF S = {} THEN blank ELSE Dumped(it[S \ {Max(S)}], entries[Max(S)])]
           iter == CHOOSE it : Folds(it)
           K == {k \in 0..n : ShownUpTo(iter[1..k], entries, k)}
<1>1. n \in Nat /\ DOMAIN entries = 1..n
  OBVIOUS
<1>2. \A k \in 1..n : entries[k] \in Entries
  BY ElementOfSeq
<1>3. otp_dump(entries) = iter[1..n]
  <2>1. otp_dump(entries) =
           (CHOOSE it : it = [s \in SUBSET (DOMAIN entries) |->
              IF s = {} THEN [r \in Rows |-> {}]
              ELSE Dumped(it[s \ {Max(s)}], entries[Max(s)])])[DOMAIN entries]
    BY DumpIsFold
  <2> HIDE DEF n
  <2> QED
    BY <1>1, <2>1, Zenon
<1>4. blank \in V
  OBVIOUS
<1> HIDE DEF n, V, blank
<1>5. \A k \in 1..n : \A v \in V : op[<<k, v>>] = Dumped(v, entries[k]) /\ Dumped(v, entries[k]) \in V
  BY <1>2, DumpedType DEF V
<1> HIDE DEF op
<1>6. \E it : Folds(it)
  <2>1. PICK it \in [SUBSET (1..n) -> V] : IteratesOver(it, n, blank, op)
    <3>1. op \in [(1..n) \X V -> V]
      BY <1>5 DEF op
    <3> QED
      BY <1>1, <1>4, <3>1, FoldExists
  <2>2. ASSUME NEW S \in SUBSET (1..n), S # {}
        PROVE  op[<<Max(S), it[S \ {Max(S)}]>>] = Dumped(it[S \ {Max(S)}], entries[Max(S)])
    <3>1. Max(S) \in 1..n
      <4>1. 1 \in Int /\ n \in Int
        BY <1>1
      <4>2. Max(S) \in S
        BY <2>2, <4>1, Largest
      <4> QED
        BY <4>2
    <3>2. S \ {Max(S)} \in SUBSET (1..n)
      OBVIOUS
    <3>3. it[S \ {Max(S)}] \in V
      BY <2>1, <3>2
    <3> QED
      BY <1>5, <3>1, <3>3
  <2>3. Folds(it)
    BY <2>1, <2>2 DEF IteratesOver
  <2> QED
    BY <2>3
<1>7. \A S \in SUBSET (1..n) :
        iter[S] = IF S = {} THEN blank ELSE Dumped(iter[S \ {Max(S)}], entries[Max(S)])
  <2>1. Folds(iter)
    BY <1>6
  <2> HIDE DEF iter
  <2> QED
    BY <2>1
<1> HIDE DEF iter
<1>8. 0 \in K
  <2>1. 1..0 = {} /\ 1..0 \in SUBSET (1..n)
    OBVIOUS
  <2>2. iter[1..0] = blank
    BY <1>7, <2>1
  <2>3. ShownUpTo(blank, entries, 0)
    BY DEF ShownUpTo, blank
  <2> QED
    BY <1>1, <2>2, <2>3
<1>9. ASSUME NEW k \in 0..(n - 1), k \in K PROVE k + 1 \in K
  <2>1. iter[1..(k + 1)] = Dumped(iter[1..k], entries[k + 1])
    <3>1. /\ 1..(k + 1) \in SUBSET (1..n) /\ 1..(k + 1) # {}
          /\ Max(1..(k + 1)) = k + 1 /\ (1..(k + 1)) \ {k + 1} = 1..k
      BY <1>1, Prefix
    <3> QED
      BY <1>7, <3>1
  <2>2. ShownUpTo(iter[1..k], entries, k)
    BY <1>9
  <2>3. ShownUpTo(Dumped(iter[1..k], entries[k + 1]), entries, k + 1)
    BY <2>2, DumpedShows DEF n
  <2> QED
    BY <1>1, <2>1, <2>3
<1>10. ShownUpTo(iter[1..n], entries, n)
  <2> HIDE DEF K
  <2>1. \A k \in 0..n : k \in K
    BY <1>1, <1>8, <1>9, UpTo
  <2>2. n \in K
    BY <1>1, <2>1
  <2> QED
    BY <2>2 DEF K
<1> QED
  BY <1>3, <1>10 DEF n

LEMMA DumpIsLoad == OtpInv => DumpForetells
<1> SUFFICES ASSUME OtpInv, job.kind = "json", result = "ok", EntriesApart(job.entries),
                    \A r \in Rows : before[r] = {}
             PROVE  otp = otp_dump(job.entries)
  BY DEF DumpForetells
<1>e. PICK entries : entries = job.entries
  OBVIOUS
<1>d. PICK dump : dump = otp_dump(entries)
  OBVIOUS
<1>1. /\ ConfinedInv /\ Followed /\ TodoIsRest /\ StartedOk /\ WrittenOk /\ OthersKept
      /\ todo = <<>> /\ pending.data = <<>>
  BY DEF OtpInv, DoneInv, Followed, Progress
<1>2. entries \in Seq(Entries) /\ DOMAIN entries = 1..Len(entries) /\ Len(entries) \in Nat
  <2>1. entries \in Seq(Entries)
    BY <1>1, <1>e DEF ConfinedInv, TodoOk
  <2> QED
    BY <2>1
<1>3. Started = Len(entries)
  BY <1>1, <1>2, <1>e DEF Started
<1>4. ASSUME NEW j \in DOMAIN entries
      PROVE  /\ WriteAt(j) = Entry(entries, j) /\ Len(Entry(entries, j).data) = wRowCount(entries[j])
             /\ Entry(entries, j).wRow = entries[j].row /\ Entry(entries, j).wRow \in Int
             /\ Len(Entry(entries, j).data) \in Nat /\ RowsDone(j) = Len(Entry(entries, j).data)
  <2>1. j \in 1..Started
    BY <1>2, <1>3
  <2>2. entries[j] \in Entries /\ WriteAt(j) = EntryWrite(entries[j], before[entries[j].row])
    BY <1>1, <1>e, <2>1, StartedWrites
  <2>3. before[entries[j].row] = {}
    BY <2>2 DEF Entries
  <2>4. WriteAt(j) = Entry(entries, j)
    BY <2>2, <2>3 DEF Entry
  <2>5. Len(Entry(entries, j).data) = wRowCount(entries[j])
    BY <1>1, <1>e, <2>1, <2>4 DEF StartedOk
  <2>6. /\ Entry(entries, j).wRow = entries[j].row /\ Entry(entries, j).wRow \in Int
        /\ Len(Entry(entries, j).data) \in Nat
    BY <2>2, EntryTypes DEF Entry
  <2>7. RowsDone(j) = Len(Entry(entries, j).data) - 0
    BY <1>1, <2>4 DEF RowsDone
  <2> QED
    BY <2>4, <2>5, <2>6, <2>7
<1>5. \A i, j \in DOMAIN entries : i # j =>
         Copies(Entry(entries, i).wRow, Len(Entry(entries, i).data))
           \intersect Copies(Entry(entries, j).wRow, Len(Entry(entries, j).data)) = {}
  <2>1. \A j \in DOMAIN entries : Copies(Entry(entries, j).wRow, Len(Entry(entries, j).data))
                                   = Copies(entries[j].row, wRowCount(entries[j]))
    BY <1>4
  <2>2. EntriesApart(entries)
    BY <1>e
  <2> QED
    BY ONLY <2>1, <2>2 DEF EntriesApart
<1>6. ShownUpTo(dump, entries, Len(entries))
  BY <1>2, <1>5, <1>d, DumpShows
<1>7. ASSUME NEW r \in Rows PROVE otp[r] = dump[r]
  <2>1. CASE \E j \in DOMAIN entries : r \in Copies(Entry(entries, j).wRow, Len(Entry(entries, j).data))
    <3>1. PICK j \in DOMAIN entries : r \in Copies(Entry(entries, j).wRow, Len(Entry(entries, j).data))
      BY <2>1
    <3>w. PICK w : w = Entry(entries, j)
      OBVIOUS
    <3>l. PICK len : len = Len(w.data)
      OBVIOUS
    <3>2. r \in Int /\ w.wRow \in Int /\ len \in Nat
      BY <1>4, <3>w, <3>l DEF Rows
    <3>3. w.wRow <= r /\ r < w.wRow + len
      BY <3>1, <3>2, <3>w, <3>l, InCopies
    <3>4. PICK i \in 1..len : r = w.wRow + i - 1
      <4>1. (r - w.wRow) + 1 \in 1..len /\ r = w.wRow + ((r - w.wRow) + 1) - 1
        BY <3>2, <3>3
      <4> QED
        BY <4>1
    <3>5. j \in 1..Started /\ j \in 1..Len(entries)
      BY <1>2, <1>3
    <3>6. WriteAt(j) = w /\ RowsDone(j) = len
      BY <1>4, <3>w, <3>l
    <3>7. i \in 1..Len(WriteAt(j).data) /\ i <= RowsDone(j)
      BY <3>l, <3>2, <3>6
    <3>8. otp[r] = Row(w.bEcc, w.data[i])
      BY <1>1, <3>4, <3>5, <3>6, <3>7 DEF WrittenOk
    <3>9. dump[r] = Row(w.bEcc, w.data[i])
      BY <1>6, <3>4, <3>5, <3>w, <3>l DEF ShownUpTo
    <3> QED
      BY <3>8, <3>9
  <2>2. CASE \A j \in DOMAIN entries : r \notin Copies(Entry(entries, j).wRow, Len(Entry(entries, j).data))
    <3>1. otp[r] = before[r]
      BY <1>1, <1>2, <1>3, <1>4, <2>2 DEF OthersKept
    <3>2. dump[r] = {}
      BY <1>2, <1>6, <2>2 DEF ShownUpTo
    <3> QED
      BY <3>1, <3>2
  <2> QED
    BY <2>1, <2>2
<1>8. otp \in [Rows -> SUBSET Bits] /\ dump \in [Rows -> SUBSET Bits]
  BY <1>1, <1>6 DEF ConfinedInv, RowsTyped, ShownUpTo
<1>9. otp = dump
  BY <1>7, <1>8
<1> QED
  BY <1>9, <1>d, <1>e

(* Loading a JSON file into a blank device leaves what otp dump shows of the file, *)
(* however many entries it has and however many rows these stand for.              *)
THEOREM DumpTheorem == Spec => []DumpForetells
  BY DumpIsLoad, OtpInvariant, PTL

-----------------------------------------------------------------------------
(* What otp get shows of a register that was set *)

\* A set of a field or of the whole row, of a row with error correction within its low
\* half and its one copy, that does not ask for error correction and raw bits at once.
PlainSet(c) ==
    /\ c.mask # {} /\ (c.field \/ c.mask = Bits)
    /\ ~(c.ecc /\ c.raw)
    /\ SelectEcc(c) =>
          /\ CopyCount(c) = 1
          /\ IF c.field THEN c.mask \subseteq 0..15 ELSE BitsOf(c.value) \subseteq 0..15

(* Error correction can be read back, and what is written with it is in order. *)
LEMMA EccReadBack ==
  ASSUME NEW x \in SUBSET (0..15)
  PROVE  /\ otp_calculate_ecc(x) \intersect (0..15) = x
         /\ otp_calculate_ecc(otp_calculate_ecc(x)) = otp_calculate_ecc(x)
<1>1. \A y : Checked(y) \intersect (0..15) = {}
  BY DEF Checked
<1>2. x \intersect (0..15) = x
  BY Zenon
<1>3. otp_calculate_ecc(x) \intersect (0..15) = x
  BY <1>1, <1>2 DEF otp_calculate_ecc
<1> QED
  BY <1>2, <1>3, Zenon DEF otp_calculate_ecc

(* The vote of copies that are the same, and what is shown of these. *)
LEMMA VoteOfSame ==
  ASSUME NEW n \in Nat \ {0}, NEW v \in SUBSET Bits, NEW crit
  PROVE  Vote([i \in 1..n |-> v], crit) = v
<1> DEFINE copies == [i \in 1..n |-> v]
           Sets1(b) == Cardinality({i \in DOMAIN copies : b \in copies[i]})
<1>1. Len(copies) = n
  OBVIOUS
<1>2. ASSUME NEW b \in v PROVE Sets1(b) = n
  <2>1. {i \in DOMAIN copies : b \in copies[i]} = 1..n
    OBVIOUS
  <2>2. Cardinality(1..n) = n
    BY FS_Interval
  <2> QED
    BY <2>1, <2>2
<1>3. ASSUME NEW b \in Bits, b \notin v PROVE Sets1(b) = 0
  <2>1. {i \in DOMAIN copies : b \in copies[i]} = {}
    BY <1>3
  <2> QED
    BY <2>1, FS_EmptySet
<1>4. Vote(copies, crit) = {b \in Bits : Sets1(b) >= n - Sets1(b) \/ (crit /\ Sets1(b) >= 3)}
  BY <1>1 DEF Vote
<1> HIDE DEF copies, Sets1
<1>5. \A b \in Bits : b \in v <=> Sets1(b) >= n - Sets1(b) \/ (crit /\ Sets1(b) >= 3)
  <2>1. ASSUME NEW b \in v PROVE Sets1(b) >= n - Sets1(b)
    BY <1>2
  <2>2. ASSUME NEW b \in Bits, b \notin v
        PROVE  ~(Sets1(b) >= n - Sets1(b)) /\ ~(Sets1(b) >= 3)
    BY <1>3, <2>2
  <2> QED
    BY <2>1, <2>2
<1>6. {b \in Bits : Sets1(b) >= n - Sets1(b) \/ (crit /\ Sets1(b) >= 3)} = v
  BY <1>5
<1> QED
  BY <1>4, <1>6 DEF copies

LEMMA SameIsShown ==
  ASSUME NEW c, NEW v \in SUBSET Bits, CopyCount(c) \in Nat \ {0}, Redundancy(c) \in Int, ~DoEcc(c),
         NEW copies, copies = [i \in 1..CopyCount(c) |-> v]
  PROVE  corrected_val(copies, c) = v /\ ~Warned(copies, c)
<1>1. ~Warned(copies, c)
  BY DEF Warned
<1>2. CASE Redundancy(c) > 0
  BY <1>1, <1>2, VoteOfSame DEF corrected_val
<1>3. CASE ~(Redundancy(c) > 0)
  <2>1. CopyCount(c) = 1
    BY <1>3 DEF CopyCount
  <2>2. Len(copies) = 1 /\ copies[1] = v
    BY <2>1
  <2> QED
    BY <1>1, <1>3, <2>2 DEF corrected_val, RawValue
<1> QED
  BY <1>2, <1>3

(* The value that otp set writes: what is asked for in the bits that are selected, *)
(* and elsewhere what was there.                                                   *)
LEMMA NewValueParts ==
  ASSUME NEW c \in Sets, PlainSet(c), NEW old \in SUBSET Bits, Refusal(c, old) = "none"
  PROVE  /\ NewValue(c, old) \in SUBSET Bits
         /\ NewValue(c, old) \intersect c.mask =
              (ShiftedUp(BitsOf(c.value), low(c.mask)) \intersect Word)
                \union (IF c.ignore_set THEN old \intersect c.mask ELSE {})
         /\ NewValue(c, old) \ c.mask = old \ c.mask
<1> DEFINE asked == ShiftedUp(BitsOf(c.value), low(c.mask)) \intersect Word
<1>1. c.mask \in SUBSET Bits /\ c.field \in BOOLEAN /\ c.ignore_set \in BOOLEAN
  BY CommandsAssumption
<1>2. CASE c.field
  <2>1. asked \subseteq c.mask
    <3>1. BitsOf(c.value) \subseteq WordOf(c.value)
      BY Zenon DEF WordOf
    <3>2. asked \subseteq ShiftedUp(WordOf(c.value), low(c.mask)) \intersect Word
      BY <3>1 DEF ShiftedUp
    <3> QED
      BY <1>2, <3>2 DEF Refusal, Fits
  <2>4. ShiftedUp(BitsOf(c.value), low(c.mask)) \intersect c.mask = asked \intersect c.mask
    BY <1>1 DEF Word, Bits
  <2> HIDE DEF asked
  <2>2. NewValue(c, old) = IF c.ignore_set THEN ((asked \intersect c.mask) \union (old \ c.mask)) \union old
                           ELSE (asked \intersect c.mask) \union (old \ c.mask)
    BY <1>2, <2>4 DEF NewValue
  <2>3. NewValue(c, old) \intersect c.mask = asked \union (IF c.ignore_set THEN old \intersect c.mask ELSE {})
    BY <2>1, <2>2
  <2> QED
    BY <1>1, <2>1, <2>2, <2>3 DEF asked
<1>3. CASE ~c.field
  <2>1. c.mask = Bits
    BY <1>3 DEF PlainSet
  <2>2. low(Bits) = 0
    <3>1. 0 \in Bits /\ \A y \in Bits : 0 <= y
      BY DEF Bits
    <3>2. \A x \in Bits : x <= 0 => x = 0
      BY DEF Bits
    <3> QED
      BY <3>1, <3>2 DEF low, Min
  <2>3. asked = BitsOf(c.value)
    <3>1. \A b \in BitsOf(c.value) : b + 0 = b
      BY BitsOfType DEF Bits
    <3> QED
      BY <2>1, <2>2, <3>1, BitsOfType DEF ShiftedUp, Word, Bits
  <2> HIDE DEF asked
  <2>4. NewValue(c, old) = IF c.ignore_set THEN asked \union old ELSE asked
    BY <1>3, <2>3 DEF NewValue
  <2>5. asked \in SUBSET Bits
    BY <2>3, BitsOfType
  <2> QED
    BY <1>1, <2>1, <2>4, <2>5 DEF asked
<1> QED
  BY <1>1, <1>2, <1>3

LEMMA SetShown == OtpInv /\ PlainSet(job) => SetIsShown
<1> SUFFICES ASSUME OtpInv, PlainSet(job), job.kind = "set", result = "ok"
             PROVE  /\ ~Warned(CopiesOf(otp, job), job)
                    /\ Warned(CopiesOf(before, job), job) \/
                       /\ corrected_val(CopiesOf(otp, job), job) \intersect job.mask =
                            (ShiftedUp(BitsOf(job.value), low(job.mask)) \intersect Word) \union
                            (IF job.ignore_set
                             THEN corrected_val(CopiesOf(before, job), job) \intersect job.mask
                             ELSE {})
                       /\ corrected_val(CopiesOf(otp, job), job) \ job.mask =
                            corrected_val(CopiesOf(before, job), job) \ job.mask
  BY DEF SetIsShown
<1>c. PICK c : c = job
  OBVIOUS
<1>o. PICK old : old = before[c.row]
  OBVIOUS
<1>v. PICK v : v = NewValue(c, old)
  OBVIOUS
<1>n. PICK n : n = CopyCount(c)
  OBVIOUS
<1>1. ConfinedInv /\ Followed /\ TodoIsRest /\ WrittenOk /\ pending.data = <<>>
  BY DEF OtpInv, DoneInv, Followed, Progress
<1>2. c \in Sets /\ c.row \in Rows /\ c.row \in Int /\ c.copies \in Int
  BY <1>1, <1>c, CommandsAssumption DEF TodoIsRest, Rows
<1>3. Refusal(c, old) = "none"
  BY <1>1, <1>c, <1>o DEF TodoIsRest, Refusal
<1>4. old \in SUBSET Bits
  BY <1>1, <1>2, <1>o DEF ConfinedInv, RowsTyped
<1>5. /\ v \in SUBSET Bits /\ v \ c.mask = old \ c.mask
      /\ v \intersect c.mask = (ShiftedUp(BitsOf(c.value), low(c.mask)) \intersect Word)
                                 \union (IF c.ignore_set THEN old \intersect c.mask ELSE {})
  BY <1>2, <1>3, <1>4, <1>c, <1>v, NewValueParts
<1>6. n \in Nat \ {0} /\ Redundancy(c) \in Int
  <2>1. n \in Nat \ {0}
    BY <1>2, <1>n, RedundancyType
  <2>2. RegAt(c.row).redundancy \in Int
    BY RowsAssumption DEF RegAt, NoReg
  <2> QED
    BY <1>2, <2>1, <2>2 DEF Redundancy
<1>7. SelectEcc(c) <=> DoEcc(c)
  BY <1>c DEF PlainSet, SelectEcc, DoEcc
<1>8. ASSUME NEW i \in 1..(IF SelectEcc(c) THEN 1 ELSE n)
      PROVE  c.row + i - 1 \in Rows /\ otp[c.row + i - 1] = Row(SelectEcc(c), v)
  <2>w. PICK w : w = SetWrite(c, old)
    OBVIOUS
  <2>1. Started = 1
    BY <1>3, <1>c, <1>o DEF Started
  <2>2. WriteAt(1) = w
    BY <1>c, <1>o, <2>w DEF WriteAt, Writes
  <2>3. /\ w.wRow = c.row /\ w.bEcc = SelectEcc(c)
        /\ w.data = [k \in 1..(IF SelectEcc(c) THEN 1 ELSE n) |-> v]
    BY <1>n, <1>v, <2>w DEF SetWrite, Request
  <2>4. Len(w.data) = (IF SelectEcc(c) THEN 1 ELSE n) /\ w.data[i] = v
    BY <1>6, <2>3
  <2>5. RowsDone(1) = (IF SelectEcc(c) THEN 1 ELSE n)
    <3>1. RowsDone(1) = Len(w.data) - 0
      BY <1>1, <2>1, <2>2 DEF RowsDone
    <3> QED
      BY <1>6, <2>4, <3>1
  <2>6. 1 \in 1..Started /\ i \in 1..Len(WriteAt(1).data) /\ i <= RowsDone(1)
    BY <1>6, <2>1, <2>2, <2>4, <2>5
  <2> QED
    BY <1>1, <2>2, <2>3, <2>4, <2>6 DEF WrittenOk
<1>9. CASE DoEcc(c)
  <2>1. n = 1 /\ old = {}
    BY <1>3, <1>7, <1>9, <1>c, <1>n DEF PlainSet, Refusal
  <2>2. v \in SUBSET (0..15)
    <3>1. CASE c.field
      BY <1>5, <1>7, <1>9, <1>c, <2>1, <3>1 DEF PlainSet
    <3>2. CASE ~c.field
      BY <1>7, <1>9, <1>c, <1>v, <2>1, <3>2 DEF PlainSet, NewValue
    <3> QED
      BY <3>1, <3>2
  <2>3. otp[c.row] = otp_calculate_ecc(v)
    <3>1. 1 \in 1..(IF SelectEcc(c) THEN 1 ELSE n) /\ c.row + 1 - 1 = c.row
      BY <1>2, <2>1
    <3> QED
      BY <1>7, <1>8, <1>9, <3>1 DEF Row
  <2>4. \A rows : /\ Len(CopiesOf(rows, c)) = 1 /\ CopiesOf(rows, c)[1] = rows[c.row]
    BY <1>2, <1>n, <2>1 DEF CopiesOf, CopiesFrom
  <2>5. corrected_val(CopiesOf(otp, c), c) = v /\ ~Warned(CopiesOf(otp, c), c)
    <3>1. RawValue(CopiesOf(otp, c)) = otp_calculate_ecc(v)
      BY <2>3, <2>4 DEF RawValue
    <3> QED
      BY <1>9, <2>2, <3>1, EccReadBack DEF corrected_val, Warned
  <2>6. corrected_val(CopiesOf(before, c), c) = {}
    <3>1. RawValue(CopiesOf(before, c)) = {}
      BY <1>o, <2>1, <2>4 DEF RawValue
    <3> QED
      BY <1>9, <3>1 DEF corrected_val
  <2> QED
    BY <1>5, <1>c, <2>1, <2>5, <2>6
<1>10. CASE ~DoEcc(c)
  <2>1. CopiesOf(otp, c) = [i \in 1..n |-> v]
    BY <1>7, <1>8, <1>10, <1>n DEF CopiesOf, CopiesFrom, Row
  <2>2. corrected_val(CopiesOf(otp, c), c) = v /\ ~Warned(CopiesOf(otp, c), c)
    BY <1>5, <1>6, <1>10, <1>n, <2>1, SameIsShown
  <2>3. ASSUME ~Warned(CopiesOf(before, c), c)
        PROVE  corrected_val(CopiesOf(before, c), c) = old
    <3>1. DOMAIN CopiesOf(before, c) = 1..n /\ CopiesOf(before, c)[1] = old
      BY <1>2, <1>6, <1>n, <1>o DEF CopiesOf, CopiesFrom
    <3>2. \A i \in 1..n : CopiesOf(before, c)[i] = old
      BY <1>6, <1>10, <2>3, <3>1, 1 \in 1..n DEF Warned
    <3>3. CopiesOf(before, c) = [i \in 1..n |-> old]
      BY <1>n, <3>2 DEF CopiesOf, CopiesFrom
    <3> QED
      BY <1>4, <1>6, <1>10, <1>n, <3>3, SameIsShown
  <2> QED
    BY <1>5, <1>c, <2>2, <2>3
<1> QED
  BY <1>9, <1>10

(* After otp set, otp get shows the value that was asked for in the bits that were      *)
(* selected, as far as a word of 32 bits holds it, without a warning, and what it       *)
(* showed in the other bits before.  PlainSet leaves out the selections of bits that    *)
(* are not a named field, for which it is not so (the run otp_bits), and values that a  *)
(* row with error correction cannot hold.                                               *)
THEOREM SetShownTheorem == Spec => [](PlainSet(job) => SetIsShown)
<1>1. OtpInv => (PlainSet(job) => SetIsShown)
  BY SetShown
<1> QED
  BY <1>1, OtpInvariant, PTL

-----------------------------------------------------------------------------
(* What otp get shows *)

\* The registers and fields asked for are in the order of their rows, as the keys of a
\* map, each row once; all copies are in one page, there is one of a row with error
\* correction and of a special page, and no field is a whole row that has more.
PlainGet(c) ==
    \A i \in DOMAIN c.matches :
        LET m == c.matches[i]
            sel == [row |-> m.row, raw |-> c.raw, ecc |-> c.ecc, copies |-> c.copies]
        IN  /\ \A j \in DOMAIN c.matches : i < j => m.row < c.matches[j].row
            /\ (m.row % OTP_PAGE_ROWS) + CopyCount(sel) <= OTP_PAGE_ROWS
            /\ Special(PageOf(m.row)) \/ DoEcc(sel) => CopyCount(sel) = 1
            /\ Bits \in FieldsOf(m.row) => CopyCount(sel) = 1

Matches == [row : Rows, mask : SUBSET Bits]
MatchesDone == Len(job.matches) - Len(todo)
\* The buffer is the page it was filled from until a row of a special page is put in it.
BufferOk ==
    /\ last_page \in Int /\ DOMAIN raw_buffer = 0..(OTP_PAGE_ROWS - 1)
    /\ last_page >= 0 =>
          /\ ~Special(last_page)
          /\ (\A i \in 1..MatchesDone : ~Special(PageOf(job.matches[i].row))) =>
                \A i \in 0..(OTP_PAGE_ROWS - 1) : raw_buffer[i] = otp[(last_page * OTP_PAGE_ROWS) + i]
ShownOk(s) ==
    /\ s.value = VotedValue(s.row, Selected(s)) \intersect s.mask
    /\ (s.mask = Bits /\ ~s.warned /\ ~DoEcc(Selected(s))) =>
            \A r \in Copies(s.row, Redundancy(Selected(s))) : otp[r] = otp[s.row]
ShownSoFar ==
    \A s \in shown : (\E i \in 1..MatchesDone : s.row = job.matches[i].row) /\ ShownOk(s)
GetInv ==
    /\ job.kind # "get" => shown = {}
    /\ job.kind = "get" =>
          /\ job \in Gets /\ pending.data = <<>>
          /\ todo \in Seq(Matches) /\ Len(todo) <= Len(job.matches)
          /\ \A i \in 1..Len(todo) : todo[i] = job.matches[MatchesDone + i]
          /\ BufferOk
          /\ PlainGet(job) => ShownSoFar

\* The vote that VotedValue takes of the rows themselves.
Having(row, n, rows, b) == {r \in Copies(row, n) : b \in rows[r]}
RowsVote(row, n, rows, crit) ==
    {b \in Bits : \/ 2 * Cardinality(Having(row, n, rows, b)) >= n
                  \/ crit /\ Cardinality(Having(row, n, rows, b)) >= 3}

(* The vote of copies is the vote of the rows they are of. *)
LEMMA VoteOfRows ==
  ASSUME NEW row \in Int, NEW n \in Nat \ {0}, NEW rows, NEW crit,
         NEW copies, copies = [i \in 1..n |-> rows[row + i - 1]]
  PROVE  Vote(copies, crit) = RowsVote(row, n, rows, crit)
<1> DEFINE At1(b) == {i \in DOMAIN copies : b \in copies[i]}
           Have(b) == Having(row, n, rows, b)
<1>1. Len(copies) = n /\ DOMAIN copies = 1..n
  OBVIOUS
<1>2. ASSUME NEW b \in Bits
      PROVE  Cardinality(At1(b)) = Cardinality(Have(b)) /\ Cardinality(Have(b)) \in Nat
  <2> DEFINE f == [i \in At1(b) |-> row + i - 1]
  <2>1. At1(b) \subseteq 1..n /\ IsFiniteSet(1..n)
    BY <1>1, FS_Interval
  <2>2. IsFiniteSet(At1(b))
    BY <2>1, FS_Subset
  <2>3. \A i \in At1(b) : f[i] \in Have(b)
    BY <1>1 DEF Copies, Having
  <2>4. \A i, j \in At1(b) : f[i] = f[j] => i = j
    BY <2>1
  <2>5. ASSUME NEW r \in Have(b) PROVE \E i \in At1(b) : f[i] = r
    <3>1. r \in Int /\ row <= r /\ r <= row + n - 1 /\ b \in rows[r]
      BY DEF Copies, Having
    <3>i. PICK i : i = r - row + 1
      OBVIOUS
    <3>2. i \in 1..n /\ row + i - 1 = r
      BY <3>1, <3>i
    <3>3. i \in At1(b)
      BY <1>1, <3>1, <3>2
    <3> QED
      BY <3>2, <3>3
  <2>6. ExistsBijection(At1(b), Have(b))
    <3>1. f \in [At1(b) -> Have(b)]
      BY <2>3
    <3> HIDE DEF f, At1, Have
    <3>2. f \in Injection(At1(b), Have(b))
      BY <2>4, <3>1, Fun_IsInj
    <3>3. f \in Surjection(At1(b), Have(b))
      BY <2>5, <3>1, Fun_IsSurj
    <3> QED
      BY <3>2, <3>3, Zenon DEF ExistsBijection, Bijection
  <2>7. Cardinality(At1(b)) = Cardinality(Have(b)) /\ IsFiniteSet(Have(b))
    BY <2>2, <2>6, FS_Bijection
  <2> QED
    BY <2>7, FS_CardinalityType
<1>3. Vote(copies, crit) =
        {b \in Bits : \/ Cardinality(At1(b)) >= n - Cardinality(At1(b))
                      \/ crit /\ Cardinality(At1(b)) >= 3}
  BY <1>1 DEF Vote
<1>4. \A b \in Bits : Cardinality(At1(b)) >= n - Cardinality(At1(b)) <=> 2 * Cardinality(Have(b)) >= n
  <2>1. \A x, y, z \in Nat : x = y => (x >= z - x <=> 2 * y >= z)
    OBVIOUS
  <2> HIDE DEF At1, Have
  <2> QED
    BY ONLY <1>2, <2>1, n \in Nat \ {0}
<1> HIDE DEF At1, Have
<1>5. {b \in Bits : \/ Cardinality(At1(b)) >= n - Cardinality(At1(b))
                    \/ crit /\ Cardinality(At1(b)) >= 3}
        = {b \in Bits : 2 * Cardinality(Have(b)) >= n \/ (crit /\ Cardinality(Have(b)) >= 3)}
  BY <1>2, <1>4, Zenon
<1> QED
  BY <1>3, <1>5 DEF Have, RowsVote

(* A row of which otp get has the copies is shown as it is in the device. *)
LEMMA CopiesShown ==
  ASSUME NEW c, c.row \in Int, CopyCount(c) \in Nat \ {0}, Redundancy(c) \in Int,
         DoEcc(c) => CopyCount(c) = 1, otp[c.row] \in SUBSET Bits
  PROVE  /\ corrected_val(CopiesOf(otp, c), c) = VotedValue(c.row, c)
         /\ VotedValue(c.row, c) \in SUBSET Bits
         /\ ~Warned(CopiesOf(otp, c), c) /\ ~DoEcc(c) =>
               \A r \in Copies(c.row, Redundancy(c)) : otp[r] = otp[c.row]
<1>n. PICK n \in Nat \ {0} : n = CopyCount(c)
  OBVIOUS
<1>r. PICK rows : rows = otp
  OBVIOUS
<1>c. PICK copies : copies = CopiesOf(otp, c)
  OBVIOUS
<1>t. /\ copies = [i \in 1..n |-> rows[c.row + i - 1]] /\ rows[c.row] \in SUBSET Bits
      /\ DoEcc(c) => n = 1
  BY <1>n, <1>r, <1>c DEF CopiesOf, CopiesFrom
<1>1. DOMAIN copies = 1..n /\ copies[1] = rows[c.row] /\ Len(copies) = n
  BY <1>t
<1>2. ASSUME n = 1 PROVE RawValue(copies) = rows[c.row]
  BY <1>1, <1>2 DEF RawValue
<1>3. corrected_val(copies, c) = VotedValue(c.row, c)
  <2>1. CASE DoEcc(c)
    BY <1>2, <1>r, <1>t, <2>1 DEF corrected_val, VotedValue
  <2>2. CASE ~DoEcc(c) /\ Redundancy(c) > 0
    <3>1. VotedValue(c.row, c) = RowsVote(c.row, n, rows, RegAt(c.row).crit)
      <4>1. VotedValue(c.row, c) = RowsVote(c.row, CopyCount(c), otp, RegAt(c.row).crit)
        BY <2>2 DEF VotedValue, RowsVote, Having
      <4> QED
        BY <1>n, <1>r, <4>1
    <3>2. corrected_val(copies, c) = Vote(copies, RegAt(c.row).crit)
      BY <2>2 DEF corrected_val
    <3>3. \A crit : Vote(copies, crit) = RowsVote(c.row, n, rows, crit)
      <4>1. PICK row : row = c.row
        OBVIOUS
      <4>2. row \in Int /\ n \in Nat \ {0} /\ copies = [i \in 1..n |-> rows[row + i - 1]]
        BY <1>t, <4>1
      <4>3. \A crit : Vote(copies, crit) = RowsVote(row, n, rows, crit)
        BY ONLY <4>2, VoteOfRows, Zenon
      <4> QED
        BY ONLY <4>1, <4>3
    <3> QED
      BY <3>1, <3>2, <3>3
  <2>3. CASE ~DoEcc(c) /\ ~(Redundancy(c) > 0)
    <3>1. n = 1
      BY <1>n, <2>3 DEF CopyCount
    <3>2. corrected_val(copies, c) = rows[c.row]
      BY <1>2, <2>3, <3>1 DEF corrected_val
    <3>3. ASSUME NEW b \in Bits
          PROVE  b \in rows[c.row] <=>
                   \/ 2 * Cardinality(Having(c.row, n, rows, b)) >= n
                   \/ RegAt(c.row).crit /\ Cardinality(Having(c.row, n, rows, b)) >= 3
      <4>1. Copies(c.row, n) = {c.row}
        BY <3>1 DEF Copies
      <4>2. CASE b \in rows[c.row]
        <5>1. Having(c.row, n, rows, b) = {c.row}
          BY <4>1, <4>2 DEF Having
        <5>2. Cardinality(Having(c.row, n, rows, b)) = 1
          BY <5>1, FS_Singleton
        <5> QED
          BY <3>1, <4>2, <5>2
      <4>3. CASE b \notin rows[c.row]
        <5>1. Having(c.row, n, rows, b) = {}
          BY <4>1, <4>3 DEF Having
        <5>2. Cardinality(Having(c.row, n, rows, b)) = 0
          BY <5>1, FS_EmptySet
        <5> QED
          BY <3>1, <4>3, <5>2
      <4> QED
        BY <4>2, <4>3
    <3>4. VotedValue(c.row, c) = RowsVote(c.row, n, rows, RegAt(c.row).crit)
      <4>1. VotedValue(c.row, c) = RowsVote(c.row, CopyCount(c), otp, RegAt(c.row).crit)
        BY <2>3 DEF VotedValue, RowsVote, Having
      <4> QED
        BY <1>n, <1>r, <4>1
    <3>5. VotedValue(c.row, c) = {b \in Bits : b \in rows[c.row]}
      BY <3>3, <3>4, Zenon DEF RowsVote
    <3> QED
      BY <1>t, <3>2, <3>5
  <2> QED
    BY <2>1, <2>2, <2>3
<1>4. VotedValue(c.row, c) \in SUBSET Bits
  <2>1. CASE DoEcc(c)
    BY <1>r, <1>t, <2>1 DEF VotedValue
  <2>2. CASE ~DoEcc(c)
    BY <2>2, Zenon DEF VotedValue
  <2> QED
    BY <2>1, <2>2
<1>5. ASSUME ~Warned(copies, c), ~DoEcc(c), NEW r \in Copies(c.row, Redundancy(c))
      PROVE  rows[r] = rows[c.row]
  <2>1. r \in Int /\ c.row <= r /\ r <= c.row + Redundancy(c) - 1
    BY <1>5 DEF Copies
  <2>2. n = Redundancy(c)
    BY <1>n, <2>1 DEF CopyCount
  <2>3. r - c.row + 1 \in 1..n /\ 1 \in 1..n /\ c.row + (r - c.row + 1) - 1 = r
    BY <2>1, <2>2
  <2>4. copies[r - c.row + 1] = rows[r]
    BY <1>t, <2>3
  <2>5. \A i, j \in DOMAIN copies : copies[i] = copies[j]
    BY <1>5 DEF Warned
  <2> QED
    BY <1>1, <2>3, <2>4, <2>5
<1> QED
  BY <1>3, <1>4, <1>5, <1>c, <1>r

(* What is in the buffer at a row is what the device holds there. *)
LEMMA PageParts ==
  ASSUME NEW row \in Rows
  PROVE  /\ row \in Nat /\ PageOf(row) \in Nat /\ row % OTP_PAGE_ROWS \in 0..(OTP_PAGE_ROWS - 1)
         /\ row = (PageOf(row) * OTP_PAGE_ROWS) + (row % OTP_PAGE_ROWS)
<1>1. row \in Nat /\ OTP_PAGE_ROWS \in Nat \ {0}
  BY PagesAssumption DEF Rows
<1>2. \A x \in Nat, y \in Nat \ {0} :
        x \div y \in Nat /\ x % y \in 0..(y - 1) /\ x = ((x \div y) * y) + (x % y)
  OBVIOUS
<1> QED
  BY <1>1, <1>2 DEF PageOf

LEMMA PageOrder ==
  ASSUME NEW row \in Rows, NEW r \in Rows, r < row, ~Special(PageOf(row))
  PROVE  ~Special(PageOf(r))
<1>1. PageOf(r) \in Nat /\ PageOf(row) \in Nat /\ r \in Nat /\ row \in Nat
  BY PageParts
<1>2. OTP_PAGE_ROWS \in Nat \ {0} /\ OTP_PAGE_COUNT \in Int /\ OTP_SPECIAL_PAGES \in Int
  BY PagesAssumption
<1>3. \A x, y \in Nat, z \in Nat \ {0} : x < y => x \div z <= y \div z
  OBVIOUS
<1>4. PageOf(r) <= PageOf(row)
  BY <1>1, <1>2, <1>3 DEF PageOf
<1> QED
  BY <1>1, <1>2, <1>4 DEF Special

LEMMA SelectedTypes ==
  ASSUME job \in Gets, NEW m, m.row \in Rows
  PROVE  /\ Selected(m).row = m.row /\ m.row \in Int
         /\ CopyCount(Selected(m)) \in Nat \ {0} /\ Redundancy(Selected(m)) \in Int
<1>1. Selected(m).row = m.row /\ Selected(m).copies = job.copies
  BY DEF Selected
<1>2. m.row \in Int /\ job.copies \in Int
  BY CommandsAssumption, PageParts
<1>3. RegAt(m.row).redundancy \in Int
  BY RowsAssumption DEF RegAt, NoReg
<1>4. Redundancy(Selected(m)) \in Int
  BY <1>1, <1>2, <1>3 DEF Redundancy
<1>5. CopyCount(Selected(m)) \in Nat \ {0}
  BY <1>4 DEF CopyCount
<1> QED
  BY <1>1, <1>2, <1>4, <1>5

(* A match is shown with the rows of the device, and leaves the buffer in order. *)
LEMMA ShowShown == ConfinedInv /\ GetInv /\ ShowMatch => GetInv'
<1> SUFFICES ASSUME ConfinedInv, GetInv, ShowMatch PROVE GetInv'
  OBVIOUS
<1>1. /\ job.kind = "get" /\ job' = job /\ pending' = pending /\ otp' = otp
      /\ todo # <<>> /\ todo' = Tail(todo)
  BY DEF ShowMatch
<1>2. /\ job \in Gets /\ pending.data = <<>>
      /\ todo \in Seq(Matches) /\ Len(todo) <= Len(job.matches)
      /\ \A i \in 1..Len(todo) : todo[i] = job.matches[MatchesDone + i]
      /\ BufferOk /\ (PlainGet(job) => ShownSoFar)
  BY <1>1 DEF GetInv
<1>m. PICK m : m = Head(todo)
  OBVIOUS
<1>k. PICK k : k = MatchesDone + 1
  OBVIOUS
<1>M. PICK M : M = job.matches
  OBVIOUS
<1>b. PICK buffer : buffer = raw_buffer_for(m.row)
  OBVIOUS
<1>r. PICK rows : rows = otp
  OBVIOUS
<1>3. M \in Seq(Matches) /\ Len(M) \in Nat /\ Len(todo) \in Nat \ {0} /\ Len(todo) <= Len(M)
      /\ DOMAIN M = 1..Len(M)
  <2>1. M \in Seq(Matches)
    BY <1>2, <1>M, CommandsAssumption DEF Matches
  <2> QED
    BY <1>1, <1>2, <1>M, <2>1
<1>4. k \in 1..Len(M) /\ m = M[k] /\ m.row \in Rows /\ k = Len(M) - Len(todo) + 1
  <2>1. k = Len(M) - Len(todo) + 1 /\ k \in 1..Len(M)
    BY <1>3, <1>k, <1>M DEF MatchesDone
  <2>2. m = todo[1] /\ 1 \in 1..Len(todo)
    BY <1>2, <1>3, <1>m
  <2>3. m = M[k]
    BY <1>2, <1>k, <1>M, <2>2
  <2>4. M[k] \in Matches
    BY <1>3, <2>1
  <2> QED
    BY <2>1, <2>3, <2>4 DEF Matches
<1>5. /\ MatchesDone' = k /\ todo' \in Seq(Matches) /\ Len(todo') <= Len(M)
      /\ \A i \in 1..Len(todo') : todo'[i] = M[k + i]
  <2>1. /\ todo' \in Seq(Matches) /\ Len(todo') = Len(todo) - 1
        /\ \A i \in 1..Len(todo') : todo'[i] = todo[i + 1]
    BY <1>1, <1>2
  <2>2. MatchesDone' = k
    BY <1>1, <1>3, <1>4, <1>M, <2>1 DEF MatchesDone
  <2>3. ASSUME NEW i \in 1..Len(todo') PROVE todo'[i] = M[k + i]
    <3>1. i + 1 \in 1..Len(todo)
      BY <1>3, <2>1
    <3>2. MatchesDone = k - 1
      BY <1>3, <1>4, <1>M DEF MatchesDone
    <3>3. MatchesDone + (i + 1) = k + i
      BY <1>4, <3>2
    <3> QED
      BY <1>2, <1>M, <2>1, <3>1, <3>3
  <2> QED
    BY <1>3, <2>1, <2>2, <2>3
<1>6. /\ raw_buffer' = buffer
      /\ last_page' = IF Special(PageOf(m.row)) THEN last_page ELSE PageOf(m.row)
  BY <1>b, <1>m DEF ShowMatch
<1>p. PICK at, page : at = m.row % OTP_PAGE_ROWS /\ page = PageOf(m.row)
  OBVIOUS
<1>7. /\ page \in Nat /\ m.row \in Nat /\ at \in 0..(OTP_PAGE_ROWS - 1) /\ OTP_PAGE_ROWS \in Nat \ {0}
      /\ m.row = (page * OTP_PAGE_ROWS) + at
  BY <1>4, <1>p, PageParts, PagesAssumption
<1>8. /\ page = last_page => buffer = raw_buffer
      /\ page # last_page /\ Special(page) => buffer = [raw_buffer EXCEPT ![at] = otp[m.row]]
      /\ page # last_page /\ ~Special(page) =>
            buffer = [i \in DOMAIN raw_buffer |-> otp[(page * OTP_PAGE_ROWS) + i]]
  BY <1>b, <1>p DEF raw_buffer_for
<1>9. /\ last_page \in Int /\ DOMAIN raw_buffer = 0..(OTP_PAGE_ROWS - 1)
      /\ last_page >= 0 =>
           /\ ~Special(last_page)
           /\ (\A i \in 1..k - 1 : ~Special(PageOf(M[i].row))) =>
                 \A i \in 0..(OTP_PAGE_ROWS - 1) : raw_buffer[i] = otp[(last_page * OTP_PAGE_ROWS) + i]
  <2>1. k - 1 = MatchesDone
    BY <1>3, <1>4, <1>k, <1>M DEF MatchesDone
  <2> QED
    BY <1>2, <1>M, <2>1 DEF BufferOk
<1>10. BufferOk'
  <2>1. SUFFICES
          /\ last_page' \in Int /\ DOMAIN buffer = 0..(OTP_PAGE_ROWS - 1)
          /\ last_page' >= 0 =>
               /\ ~Special(last_page')
               /\ (\A i \in 1..k : ~Special(PageOf(M[i].row))) =>
                     \A i \in 0..(OTP_PAGE_ROWS - 1) : buffer[i] = otp[(last_page' * OTP_PAGE_ROWS) + i]
    BY <1>1, <1>5, <1>6, <1>M DEF BufferOk, Special, PageOf
  <2>2. k \in 1..k /\ \A i \in 1..k - 1 : i \in 1..k
    BY <1>3, <1>4
  <2>3. CASE page = last_page
    BY <1>4, <1>6, <1>7, <1>8, <1>9, <1>p, <2>2, <2>3
  <2>4. CASE page # last_page /\ Special(page)
    BY <1>4, <1>6, <1>7, <1>8, <1>9, <1>p, <2>2, <2>4
  <2>5. CASE page # last_page /\ ~Special(page)
    <3>1. last_page' = page
      BY <1>6, <1>p, <2>5
    <3>2. buffer = [i \in 0..(OTP_PAGE_ROWS - 1) |-> otp[(page * OTP_PAGE_ROWS) + i]]
      BY <1>8, <1>9, <2>5
    <3>3. \A i \in 0..(OTP_PAGE_ROWS - 1) : buffer[i] = otp[(page * OTP_PAGE_ROWS) + i]
      BY <3>2
    <3> QED
      BY <1>7, <2>5, <3>1, <3>2, <3>3
  <2> QED
    BY <2>3, <2>4, <2>5
<1>11. ASSUME PlainGet(job) PROVE ShownSoFar'
  <2>s. PICK sel : sel = Selected(m)
    OBVIOUS
  <2>n. PICK n : n = CopyCount(sel)
    OBVIOUS
  <2>c. PICK copies : copies = CopiesFrom(buffer, at, sel)
    OBVIOUS
  <2>1. /\ sel.row = m.row /\ m.row \in Int /\ n \in Nat \ {0} /\ Redundancy(sel) \in Int
    BY <1>2, <1>4, <2>n, <2>s, SelectedTypes
  <2>2. \A i \in 1..k - 1 : M[i].row < m.row
    <3>1. ASSUME NEW i \in 1..k - 1 PROVE M[i].row < m.row
      <4>1. i \in DOMAIN job.matches /\ k \in DOMAIN job.matches /\ i < k
        BY <1>3, <1>4, <1>M
      <4> QED
        BY <1>4, <1>11, <1>M, <4>1 DEF PlainGet
    <3> QED
      BY <3>1
  <2>3. /\ at + n <= OTP_PAGE_ROWS /\ (Special(page) \/ DoEcc(sel) => n = 1)
        /\ Bits \in FieldsOf(m.row) => n = 1
    <3>1. k \in DOMAIN job.matches
      BY <1>3, <1>4, <1>M
    <3>2. sel = [row |-> m.row, raw |-> job.raw, ecc |-> job.ecc, copies |-> job.copies]
      BY <2>s DEF Selected
    <3> QED
      BY <1>4, <1>11, <1>M, <1>p, <2>n, <3>1, <3>2 DEF PlainGet
  <2>4. ASSUME NEW i \in 1..n PROVE buffer[at + i - 1] = rows[m.row + i - 1]
    <3>1. at + i - 1 \in 0..(OTP_PAGE_ROWS - 1)
      BY <1>7, <2>1, <2>3
    <3>2. (page * OTP_PAGE_ROWS) + (at + i - 1) = m.row + i - 1
      <4>1. page * OTP_PAGE_ROWS \in Int
        BY <1>7
      <4> QED
        BY <1>7, <4>1
    <3>3. CASE Special(page)
      <4>1. page # last_page
        BY <1>7, <1>9, <3>3
      <4>2. i = 1 /\ at + i - 1 = at /\ m.row + i - 1 = m.row
        BY <1>7, <2>1, <2>3, <3>3
      <4> QED
        BY <1>7, <1>8, <1>9, <1>r, <3>3, <4>1, <4>2
    <3>4. CASE ~Special(page) /\ page # last_page
      BY <1>8, <1>9, <1>r, <3>1, <3>2, <3>4
    <3>5. CASE ~Special(page) /\ page = last_page
      <4>1. ASSUME NEW j \in 1..k - 1 PROVE ~Special(PageOf(M[j].row))
        <5>1. M[j].row \in Rows
          <6>1. j \in 1..Len(M)
            BY <1>3, <1>4
          <6>2. M[j] \in Matches
            BY <1>3, <6>1
          <6> QED
            BY <6>2 DEF Matches
        <5> QED
          BY <1>4, <1>p, <2>2, <3>5, <5>1, PageOrder
      <4>2. raw_buffer[at + i - 1] = otp[(page * OTP_PAGE_ROWS) + (at + i - 1)]
        BY <1>7, <1>9, <3>1, <3>5, <4>1
      <4> QED
        BY <1>8, <1>r, <3>2, <3>5, <4>2
    <3> QED
      BY <3>3, <3>4, <3>5
  <2>5. copies = CopiesOf(otp, sel)
    BY <1>r, <2>1, <2>4, <2>c, <2>n DEF CopiesFrom, CopiesOf
  <2>6. otp[sel.row] \in SUBSET Bits
    BY <1>4, <2>1 DEF ConfinedInv, RowsTyped
  <2>7. /\ corrected_val(copies, sel) = VotedValue(m.row, sel)
        /\ VotedValue(m.row, sel) \in SUBSET Bits
        /\ ~Warned(copies, sel) /\ ~DoEcc(sel) =>
              \A r \in Copies(m.row, Redundancy(sel)) : otp[r] = otp[m.row]
    <3>1. sel.row \in Int /\ CopyCount(sel) \in Nat \ {0} /\ (DoEcc(sel) => CopyCount(sel) = 1)
      BY <2>1, <2>3, <2>n
    <3> QED
      BY <2>1, <2>5, <2>6, <3>1, CopiesShown
  <2>8. \A s \in shown : s.row # m.row
    <3>1. ASSUME NEW s \in shown PROVE s.row # m.row
      <4>1. PICK i \in 1..MatchesDone : s.row = M[i].row
        BY <1>2, <1>11, <1>M DEF ShownSoFar
      <4>2. i \in 1..k - 1 /\ MatchesDone = k - 1
        BY <1>3, <1>4, <1>M DEF MatchesDone
      <4>3. M[i] \in Matches
        BY <1>3, <1>4, <4>2
      <4> QED
        BY <1>7, <2>2, <4>1, <4>2, <4>3, PageParts DEF Matches
    <3> QED
      BY <3>1
  <2>h. PICK heading : heading = [row |-> m.row, mask |-> Bits, value |-> corrected_val(copies, sel),
                                  warned |-> Warned(copies, sel)]
    OBVIOUS
  <2>f. PICK parts :
          parts = {[row |-> m.row, mask |-> f, value |-> corrected_val(copies, sel) \intersect f,
                    warned |-> FALSE] : f \in {g \in FieldsOf(m.row) : g \intersect m.mask # {}}}
    OBVIOUS
  <2>9. shown' = (shown \union {heading}) \union parts
    BY <1>b, <1>m, <1>p, <2>8, <2>c, <2>f, <2>h, <2>s DEF ShowMatch
  <2>10. ASSUME NEW s \in shown'
         PROVE  (s.row = m.row \/ \E i \in 1..k - 1 : s.row = M[i].row) /\ ShownOk(s)
    <3>1. CASE s \in shown
      <4>1. MatchesDone = k - 1
        BY <1>3, <1>4, <1>M DEF MatchesDone
      <4> QED
        BY <1>2, <1>11, <1>M, <3>1, <4>1 DEF ShownSoFar
    <3>2. CASE s = heading
      <4>1. s.row = m.row /\ s.mask = Bits /\ s.value = VotedValue(m.row, sel) /\ s.warned = Warned(copies, sel)
        BY <2>7, <2>h, <3>2
      <4>2. Selected(s) = sel
        BY <2>s, <4>1 DEF Selected
      <4>3. s.value = VotedValue(s.row, Selected(s)) \intersect s.mask
        BY <2>7, <4>1, <4>2
      <4>4. ASSUME ~s.warned, ~DoEcc(Selected(s))
            PROVE  \A r \in Copies(s.row, Redundancy(Selected(s))) : otp[r] = otp[s.row]
        BY <1>r, <2>7, <4>1, <4>2, <4>4
      <4> QED
        BY <4>1, <4>3, <4>4 DEF ShownOk
    <3>3. CASE s \in parts
      <4>1. PICK f \in FieldsOf(m.row) :
              s = [row |-> m.row, mask |-> f, value |-> corrected_val(copies, sel) \intersect f,
                   warned |-> FALSE]
        BY <2>f, <3>3
      <4>2. Selected(s) = sel /\ s.row = m.row /\ s.mask = f
        BY <2>s, <4>1 DEF Selected
      <4>3. s.value = VotedValue(s.row, Selected(s)) \intersect s.mask
        BY <2>7, <4>1, <4>2
      <4>4. ASSUME f = Bits, NEW r \in Copies(m.row, Redundancy(sel)) PROVE r = m.row
        <5>1. n = 1
          BY <2>3, <4>4
        <5>2. Redundancy(sel) <= 1
          BY <2>1, <2>n, <5>1 DEF CopyCount
        <5> QED
          BY <2>1, <4>4, <5>2 DEF Copies
      <4> QED
        BY <4>2, <4>3, <4>4 DEF ShownOk
    <3> QED
      BY <2>9, <2>10, <3>1, <3>2, <3>3
  <2>11. ASSUME NEW s \in shown' PROVE ShownOk(s)'
    <3>1. (ShownOk(s))' <=> ShownOk(s)
      BY <1>1 DEF ShownOk, VotedValue, Selected
    <3> QED
      BY <2>10, <3>1
  <2>12. ASSUME NEW s \in shown' PROVE \E i \in 1..k : s.row = M[i].row
    <3>1. k \in 1..k /\ \A i \in 1..k - 1 : i \in 1..k
      BY <1>3, <1>4
    <3> QED
      BY <1>4, <2>10, <3>1
  <2> QED
    BY <1>1, <1>5, <1>M, <2>11, <2>12 DEF ShownSoFar
<1> QED
  BY <1>1, <1>2, <1>5, <1>10, <1>11, <1>M DEF GetInv

(* otp get begins with nothing shown and nothing pending. *)
LEMMA GetBegins == GetInv /\ OtpGet => GetInv'
<1> SUFFICES ASSUME OtpGet PROVE GetInv'
  OBVIOUS
<1>g. PICK g \in Gets : Begin(g) /\ todo' = g.matches
  BY DEF OtpGet
<1>1. /\ g.kind = "get" /\ g.matches \in Seq(Matches)
  BY CommandsAssumption DEF Matches
<1>2. job' = g /\ shown' = {} /\ last_page' = -1
      /\ raw_buffer' = [i \in 0..(OTP_PAGE_ROWS - 1) |-> BitsOf(11184810)]
  BY <1>g DEF Begin
<1>3. pending'.data = <<>>
  BY DEF OtpGet, NoRequest, Request
<1>4. MatchesDone' = 0 /\ Len(g.matches) \in Nat
  BY <1>1, <1>2, <1>g DEF MatchesDone
<1>5. \A i \in 1..Len(g.matches) : g.matches[i] = g.matches[0 + i]
  BY <1>4
<1>6. BufferOk'
  BY <1>2 DEF BufferOk
<1>7. ShownSoFar'
  BY <1>2 DEF ShownSoFar
<1> QED
  BY <1>1, <1>2, <1>3, <1>4, <1>5, <1>6, <1>7, <1>g DEF GetInv

LEMMA OthersGet ==
  ASSUME GetInv, [Next]_vars, ~OtpGet, ~ShowMatch
  PROVE  GetInv'
<1>1. CASE \E c : Begin(c) /\ c.kind # "get"
  BY <1>1 DEF Begin, GetInv
<1>2. CASE UNCHANGED <<otp, job, todo, raw_buffer, last_page, shown>> /\ pending'.data = pending.data
  <2>1. (BufferOk' <=> BufferOk) /\ (ShownSoFar' <=> ShownSoFar) /\ MatchesDone' = MatchesDone
    BY <1>2 DEF BufferOk, ShownSoFar, ShownOk, MatchesDone, VotedValue, Selected, Special, PageOf
  <2> QED
    BY <1>2, <2>1 DEF GetInv
<1>3. CASE job.kind # "get" /\ job' = job /\ shown' = shown
  BY <1>3 DEF GetInv
<1>4. CASE OtpSet \/ OtpLoadJson \/ OtpLoadBinary \/ OtpWhiteLabel
  <2>1. \E c : Begin(c) /\ c.kind # "get"
    BY <1>4, CommandsAssumption DEF OtpSet, OtpLoadJson, OtpLoadBinary, OtpWhiteLabel
  <2> QED
    BY <1>1, <2>1
<1>5. CASE NextEntry \/ NextWrite \/ Finish
  BY <1>3, <1>5 DEF NextEntry, NextWrite, Finish, Going
<1>6. CASE DeviceWritesRow
  <2>1. job.kind # "get"
    BY <1>6 DEF DeviceWritesRow, GetInv
  <2> QED
    BY <1>3, <1>6, <2>1 DEF DeviceWritesRow, Going
<1>7. CASE DeviceRefusesRow \/ ConnectionFails \/ UNCHANGED vars
  BY <1>2, <1>7 DEF DeviceRefusesRow, ConnectionFails, Going, vars
<1> QED
  BY <1>4, <1>5, <1>6, <1>7 DEF Next

(* otp get shows every row and every field as it is in the device: the voted value of  *)
(* its copies, whichever pages were read before, and without a warning only if they    *)
(* are equal; for every command that PlainGet describes.  Left out are two fields      *)
(* selected of one row, the second of which is shown as 0, as corrected_val is set at  *)
(* the first match of a row only, and -c beyond the rows that were read.               *)
THEOREM ShownTheorem == Spec => [](PlainGet(job) => ShownIsVoted)
<1>1. Init => GetInv
  BY DEF Init, NoJob, GetInv
<1>2. OtpInv /\ GetInv /\ [Next]_vars => GetInv'
  BY ShowShown, GetBegins, OthersGet DEF OtpInv
<1>3. GetInv => (PlainGet(job) => ShownIsVoted)
  BY DEF GetInv, ShownSoFar, ShownOk, ShownIsVoted
<1> QED
  BY <1>1, <1>2, <1>3, OtpInvariant, PTL DEF Spec

-----------------------------------------------------------------------------
(***************************************************************************)
(* Error correction.  The code of what differs is what differs in the       *)
(* codes, so the distance is the least number of bits of a code.  Two of    *)
(* the masks hold each bit, some mask tells any two apart, and the last     *)
(* bit makes the number even.                                               *)
(***************************************************************************)

LEMMA SmallSets ==
  ASSUME NEW A \in SUBSET (0..23)
  PROVE  IsFiniteSet(A) /\ Cardinality(A) \in Nat
<1>1. IsFiniteSet(0..23)
  <2>1. 0 \in Int /\ 23 \in Int
    OBVIOUS
  <2> QED
    BY <2>1, FS_Interval, Zenon
<1> QED
  BY <1>1, FS_Subset, FS_CardinalityType

(* The parity of what differs is the difference of the parities. *)
LEMMA ParityOfDiffering ==
  ASSUME NEW A \in SUBSET (0..23), NEW B \in SUBSET (0..23)
  PROVE  even_parity(Differing(A, B)) = 1 <=> ~(even_parity(A) = 1 <=> even_parity(B) = 1)
<1> DEFINE both == A \intersect B
           a == A \ B
           b == B \ A
<1>1. /\ IsFiniteSet(A) /\ IsFiniteSet(B) /\ IsFiniteSet(a) /\ IsFiniteSet(b)
      /\ Cardinality(A) \in Nat /\ Cardinality(B) \in Nat /\ Cardinality(both) \in Nat
  BY SmallSets
<1>2. Cardinality(a) = Cardinality(A) - Cardinality(both)
  BY <1>1, FS_Difference
<1>3. B \intersect A = both
  OBVIOUS
<1>4. Cardinality(b) = Cardinality(B) - Cardinality(both)
  BY <1>1, <1>3, FS_Difference
<1>5. a \intersect b = {} /\ Cardinality({}) = 0
  BY FS_EmptySet
<1>6. Cardinality(a \union b) = Cardinality(a) + Cardinality(b) - Cardinality(a \intersect b)
  BY <1>1, FS_Union
<1>7. Cardinality(Differing(A, B)) = Cardinality(A) + Cardinality(B) - 2 * Cardinality(both)
  BY <1>1, <1>2, <1>4, <1>5, <1>6 DEF Differing
<1> HIDE DEF both
<1> QED
  BY <1>1, <1>7 DEF even_parity

LEMMA LowIsWithin == \A s \in SUBSET (0..15) : \A m : s \intersect m \in SUBSET (0..23)
<1>1. \A b \in 0..15 : b \in 0..23
  OBVIOUS
<1> QED
  BY <1>1

LEMMA MasksType == \A j \in 1..5 : ParityMasks[j] \in SUBSET (0..15)
  BY DEF ParityMasks

LEMMA CheckedIsLinear ==
  ASSUME NEW x \in SUBSET (0..15), NEW D \in SUBSET (0..15)
  PROVE  Checked(Differing(x, D)) = Differing(Checked(x), Checked(D))
<1> DEFINE On(j, bits) == Parity(ParityMasks[j], bits) = 1
<1>1. ASSUME NEW j \in 1..5
      PROVE  On(j, Differing(x, D)) <=> ~(On(j, x) <=> On(j, D))
  <2> DEFINE m == ParityMasks[j]
  <2>1. m \in SUBSET (0..15)
    BY MasksType
  <2> HIDE DEF m
  <2>2. Differing(x, D) \intersect m = Differing(x \intersect m, D \intersect m)
    BY DEF Differing
  <2>3. x \intersect m \in SUBSET (0..23) /\ D \intersect m \in SUBSET (0..23)
    BY LowIsWithin
  <2>4. even_parity(Differing(x \intersect m, D \intersect m)) = 1 <=>
          ~(even_parity(x \intersect m) = 1 <=> even_parity(D \intersect m) = 1)
    BY <2>3, ParityOfDiffering, Zenon
  <2>5. \A bits : On(j, bits) <=> even_parity(bits \intersect m) = 1
    BY DEF Parity, m
  <2>6. On(j, Differing(x, D)) <=> even_parity(Differing(x \intersect m, D \intersect m)) = 1
    BY <2>2, <2>5
  <2>7. (On(j, x) <=> even_parity(x \intersect m) = 1) /\ (On(j, D) <=> even_parity(D \intersect m) = 1)
    BY <2>5
  <2> HIDE DEF On
  <2> QED
    BY ONLY <2>4, <2>6, <2>7
<1>2. \A bits : Checked(bits) = {15 + i : i \in {j \in 1..5 : On(j, bits)}}
  BY DEF Checked
<1> HIDE DEF On
<1>3. \A bits, b : b \in Checked(bits) <=> \E j \in 1..5 : b = 15 + j /\ On(j, bits)
  BY <1>2
<1>4. ASSUME NEW b
      PROVE  b \in Checked(Differing(x, D)) <=> b \in Differing(Checked(x), Checked(D))
  <2>1. \A j, k \in 1..5 : 15 + j = 15 + k => j = k
    OBVIOUS
  <2>2. CASE \E j \in 1..5 : b = 15 + j
    <3>1. PICK j \in 1..5 : b = 15 + j
      BY <2>2
    <3>2. \A bits : b \in Checked(bits) <=> On(j, bits)
      BY <1>3, <2>1, <3>1
    <3>3. b \in Checked(Differing(x, D)) <=> ~(b \in Checked(x) <=> b \in Checked(D))
      BY ONLY <1>1, <3>2
    <3> QED
      BY ONLY <3>3 DEF Differing
  <2>3. CASE ~\E j \in 1..5 : b = 15 + j
    <3>1. \A bits : b \notin Checked(bits)
      BY <1>3, <2>3
    <3> QED
      BY <3>1 DEF Differing
  <2> QED
    BY <2>2, <2>3
<1> QED
  BY <1>4

(* The bits of a row with error correction that differ are the code of those of the *)
(* value that differ. *)
LEMMA EccIsLinear ==
  ASSUME NEW x, NEW D \in SUBSET (0..15)
  PROVE  Differing(otp_calculate_ecc(x), otp_calculate_ecc(Differing(x, D))) = otp_calculate_ecc(D)
<1> DEFINE y == x \intersect (0..15)
           Code(bits) == bits \union Checked(bits)
           Full(bits) == Code(bits) \union {b \in {21} : even_parity(Code(bits)) = 1}
<1>1. y \in SUBSET (0..15) /\ Differing(x, D) \intersect (0..15) = Differing(y, D)
      /\ D \intersect (0..15) = D /\ Differing(y, D) \in SUBSET (0..15)
  BY DEF Differing
<1>2. /\ otp_calculate_ecc(x) = Full(y) /\ otp_calculate_ecc(D) = Full(D)
      /\ otp_calculate_ecc(Differing(x, D)) = Full(Differing(y, D))
  BY <1>1 DEF otp_calculate_ecc
<1>3. \A bits : Checked(bits) \subseteq 16..20
  BY DEF Checked
<1>4. Checked(Differing(y, D)) = Differing(Checked(y), Checked(D))
  BY <1>1, CheckedIsLinear
<1>5. Code(Differing(y, D)) = Differing(Code(y), Code(D))
  <2>1. \A bits, b : b \in Code(bits) <=> (b \in bits \/ b \in Checked(bits))
    OBVIOUS
  <2>2. \A b : b \in y \/ b \in D => b \notin 16..20
    BY <1>1
  <2> HIDE DEF Code, y
  <2>3. ASSUME NEW b
        PROVE  b \in Code(Differing(y, D)) <=> b \in Differing(Code(y), Code(D))
    <3>1. CASE b \in 16..20
      <4>1. b \notin y /\ b \notin D /\ b \notin Differing(y, D)
        BY <2>2, <3>1 DEF Differing
      <4> QED
        BY ONLY <1>4, <2>1, <4>1 DEF Differing
    <3>2. CASE b \notin 16..20
      <4>1. \A bits : b \notin Checked(bits)
        BY <1>3, <3>2
      <4> QED
        BY ONLY <2>1, <4>1 DEF Differing
    <3> QED
      BY <3>1, <3>2
  <2> QED
    BY <2>3
<1>6. \A bits \in SUBSET (0..15) : Code(bits) \in SUBSET (0..20)
  <2>1. \A b \in (0..15) \union (16..20) : b \in 0..20
    OBVIOUS
  <2> QED
    BY <1>3, <2>1
<1>7. Code(y) \in SUBSET (0..23) /\ Code(D) \in SUBSET (0..23)
      /\ 21 \notin Code(y) /\ 21 \notin Code(D)
  BY <1>1, <1>6
<1> HIDE DEF Code, y
<1>8. even_parity(Code(Differing(y, D))) = 1 <=>
        ~(even_parity(Code(y)) = 1 <=> even_parity(Code(D)) = 1)
  BY <1>5, <1>7, ParityOfDiffering
<1>9. Differing(Full(y), Full(D)) = Full(Differing(y, D))
  <2>1. \A bits, b : b \in Full(bits) <=> (b \in Code(bits) \/ (b = 21 /\ even_parity(Code(bits)) = 1))
    OBVIOUS
  <2> HIDE DEF Full
  <2>2. 21 \notin Code(Differing(y, D))
    BY <1>5, <1>7 DEF Differing
  <2>3. ASSUME NEW b
        PROVE  b \in Differing(Full(y), Full(D)) <=> b \in Full(Differing(y, D))
    <3>1. CASE b = 21
      BY <1>7, <1>8, <2>1, <2>2, <3>1 DEF Differing
    <3>2. CASE b # 21
      BY <1>5, <2>1, <3>2 DEF Differing
    <3> QED
      BY <3>1, <3>2
  <2> QED
    BY <2>3
<1> HIDE DEF Full
<1>10. Differing(Full(y), Full(Differing(y, D))) = Full(D)
  BY <1>9 DEF Differing
<1> QED
  BY <1>2, <1>10

(* The masks tell every two bits of the value apart, and two of them hold each. *)
LEMMA MasksTell ==
  /\ \A d \in 0..15 : \E i, j \in 1..5 : i # j /\ d \in ParityMasks[i] /\ d \in ParityMasks[j]
  /\ \A d, e \in 0..15 : d # e => \E i \in 1..5 : (d \in ParityMasks[i]) # (e \in ParityMasks[i])
<1> DEFINE M == ParityMasks
<1>1. \A d \in 0..15 :
        /\ (d \in M[1] <=> d \in {0, 1, 3, 4, 6, 8, 10, 11, 13, 15})
        /\ (d \in M[2] <=> d \in {0, 2, 3, 5, 6, 9, 10, 12, 13})
        /\ (d \in M[3] <=> d \in {1, 2, 3, 7, 8, 9, 10, 14, 15})
        /\ (d \in M[4] <=> d \in {4, 5, 6, 7, 8, 9, 10})
        /\ (d \in M[5] <=> d \in {11, 12, 13, 14, 15})
  BY DEF ParityMasks
<1> HIDE DEF M
<1>2. ASSUME NEW d \in 0..15
      PROVE  \E i, j \in 1..5 : i # j /\ d \in M[i] /\ d \in M[j]
  <2>1. CASE d \in {0, 3, 6, 10, 13}
    BY <1>1, <2>1, 1 \in 1..5, 2 \in 1..5
  <2>2. CASE d \in {1, 8, 15}
    BY <1>1, <2>2, 1 \in 1..5, 3 \in 1..5
  <2>3. CASE d \in {2, 9}
    BY <1>1, <2>3, 2 \in 1..5, 3 \in 1..5
  <2>4. CASE d = 4
    BY <1>1, <2>4, 1 \in 1..5, 4 \in 1..5
  <2>5. CASE d = 5
    BY <1>1, <2>5, 2 \in 1..5, 4 \in 1..5
  <2>6. CASE d = 7
    BY <1>1, <2>6, 3 \in 1..5, 4 \in 1..5
  <2>7. CASE d = 11
    BY <1>1, <2>7, 1 \in 1..5, 5 \in 1..5
  <2>8. CASE d = 12
    BY <1>1, <2>8, 2 \in 1..5, 5 \in 1..5
  <2>9. CASE d = 14
    BY <1>1, <2>9, 3 \in 1..5, 5 \in 1..5
  <2> QED
    BY <2>1, <2>2, <2>3, <2>4, <2>5, <2>6, <2>7, <2>8, <2>9
<1>3. ASSUME NEW d \in 0..15, NEW e \in 0..15, \A i \in 1..5 : d \in M[i] <=> e \in M[i]
      PROVE  d = e
  <2>1. /\ (d \in M[1] <=> e \in M[1]) /\ (d \in M[2] <=> e \in M[2]) /\ (d \in M[3] <=> e \in M[3])
        /\ (d \in M[4] <=> e \in M[4]) /\ (d \in M[5] <=> e \in M[5])
    BY <1>3
  <2> QED
    BY <1>1, <2>1
<1> QED
  BY <1>2, <1>3 DEF M

(* A set with three different elements, and an even number of them, has four. *)
LEMMA FourOf ==
  ASSUME NEW C \in SUBSET (0..23), NEW a \in C, NEW b \in C, NEW c \in C,
         a # b, a # c, b # c, even_parity(C) = 0
  PROVE  Cardinality(C) >= 4
<1>1. IsFiniteSet(C) /\ Cardinality(C) \in Nat
  BY SmallSets
<1>2. {a, b, c} \in SUBSET C
  OBVIOUS
<1>3. Cardinality({a, b, c}) = 3
  <2>1. IsFiniteSet({a}) /\ Cardinality({a}) = 1
    BY FS_Singleton
  <2>2. IsFiniteSet({a} \union {b}) /\ Cardinality({a} \union {b}) = 2
    BY <2>1, FS_AddElement
  <2>3. c \notin {a} \union {b}
    OBVIOUS
  <2>4. Cardinality(({a} \union {b}) \union {c}) = 3
    BY <2>2, <2>3, FS_AddElement
  <2>5. ({a} \union {b}) \union {c} = {a, b, c}
    OBVIOUS
  <2> QED
    BY <2>4, <2>5
<1>4. 3 <= Cardinality(C)
  BY <1>1, <1>2, <1>3, FS_Subset
<1> QED
  BY <1>1, <1>4 DEF even_parity

LEMMA EccIsEven ==
  ASSUME NEW D \in SUBSET (0..15)
  PROVE  otp_calculate_ecc(D) \in SUBSET (0..23) /\ even_parity(otp_calculate_ecc(D)) = 0
<1> DEFINE code == D \union Checked(D)
<1>1. Checked(D) \subseteq 16..20
  BY DEF Checked
<1>2. code \in SUBSET (0..20) /\ code \in SUBSET (0..23) /\ 21 \notin code
  <2>1. \A b \in (0..15) \union (16..20) : b \in 0..20 /\ b \in 0..23 /\ b # 21
    OBVIOUS
  <2> QED
    BY <1>1, <2>1
<1>3. IsFiniteSet(code) /\ Cardinality(code) \in Nat
  BY <1>2, SmallSets
<1>4. otp_calculate_ecc(D) = code \union {b \in {21} : even_parity(code) = 1}
  <2>1. D \intersect (0..15) = D
    OBVIOUS
  <2> QED
    BY <2>1 DEF otp_calculate_ecc
<1> HIDE DEF code
<1>5. CASE even_parity(code) = 1
  <2>1. otp_calculate_ecc(D) = code \union {21}
    BY <1>4, <1>5
  <2>2. Cardinality(code \union {21}) = Cardinality(code) + 1
    BY <1>2, <1>3, FS_AddElement
  <2> QED
    BY <1>2, <1>3, <1>5, <2>1, <2>2 DEF even_parity
<1>6. CASE even_parity(code) # 1
  <2>1. otp_calculate_ecc(D) = code
    BY <1>4, <1>6
  <2> QED
    BY <1>2, <1>3, <1>6, <2>1 DEF even_parity
<1> QED
  BY <1>5, <1>6

(* The code of a value that is not 0 has four bits or more. *)
LEMMA EccWeight ==
  ASSUME NEW D \in SUBSET (0..15), D # {}
  PROVE  Cardinality(otp_calculate_ecc(D)) >= 4
<1> DEFINE C == otp_calculate_ecc(D)
<1>1. C \in SUBSET (0..23) /\ even_parity(C) = 0
  BY EccIsEven
<1>2. D \subseteq C /\ \A j \in 1..5 : even_parity(D \intersect ParityMasks[j]) = 1 => 15 + j \in C
  <2>1. D \intersect (0..15) = D
    OBVIOUS
  <2> QED
    BY <2>1 DEF otp_calculate_ecc, Checked, Parity
<1> HIDE DEF C
<1>3. PICK d \in D : TRUE
  OBVIOUS
<1>4. \A s : even_parity({s}) = 1
  <2>1. \A s : Cardinality({s}) = 1
    BY FS_Singleton, Zenon
  <2> QED
    BY <2>1 DEF even_parity
<1>5. CASE D = {d}
  <2>1. PICK i \in 1..5, j \in 1..5 : i # j /\ d \in ParityMasks[i] /\ d \in ParityMasks[j]
    BY MasksTell
  <2>2. D \intersect ParityMasks[i] = {d} /\ D \intersect ParityMasks[j] = {d}
    BY <1>5, <2>1
  <2>3. 15 + i \in C /\ 15 + j \in C
    BY <1>2, <1>4, <2>2
  <2>4. d \in C /\ d # 15 + i /\ d # 15 + j /\ 15 + i # 15 + j
    BY <1>2, <2>1
  <2> QED
    BY <1>1, <2>3, <2>4, FourOf DEF C
<1>6. \A e \in D : (e # d /\ D = {d, e}) => Cardinality(C) >= 4
  <2> SUFFICES ASSUME NEW e \in D, e # d, D = {d, e}
               PROVE  Cardinality(C) >= 4
    OBVIOUS
  <2>1. PICK i \in 1..5 : (d \in ParityMasks[i]) # (e \in ParityMasks[i])
    BY MasksTell
  <2>2. D \intersect ParityMasks[i] = {d} \/ D \intersect ParityMasks[i] = {e}
    BY <2>1
  <2>3. 15 + i \in C
    BY <1>2, <1>4, <2>2
  <2>4. d \in C /\ e \in C /\ d # 15 + i /\ e # 15 + i
    BY <1>2
  <2> QED
    BY <1>1, <2>3, <2>4, FourOf
<1>7. \A e, f \in D : (e # d /\ f # d /\ f # e) => Cardinality(C) >= 4
  <2> SUFFICES ASSUME NEW e \in D, e # d, NEW f \in D, f # d, f # e
               PROVE  Cardinality(C) >= 4
    OBVIOUS
  <2>1. d \in C /\ e \in C /\ f \in C
    BY <1>2
  <2> QED
    BY <1>1, <2>1, FourOf
<1>8. CASE \E e \in D : e # d
  <2>1. PICK e \in D : e # d
    BY <1>8
  <2>2. CASE D = {d, e}
    BY <1>6, <2>1, <2>2 DEF C
  <2>3. CASE \E f \in D : f # d /\ f # e
    BY <1>7, <2>1, <2>3 DEF C
  <2> QED
    BY <2>1, <2>2, <2>3
<1> QED
  BY <1>5, <1>8

(* Two values that are not the same, whichever they are, differ in four or more bits *)
(* of their rows: a value and another one, which differs from it in the bits of D.   *)
LEMMA EccApart ==
  \A x : \A D \in (SUBSET (0..15)) \ {{}} :
    Cardinality(Differing(otp_calculate_ecc(x), otp_calculate_ecc(Differing(x, D)))) >= 4
<1> SUFFICES ASSUME NEW x, NEW D \in (SUBSET (0..15)) \ {{}}
             PROVE  Cardinality(Differing(otp_calculate_ecc(x), otp_calculate_ecc(Differing(x, D)))) >= 4
  OBVIOUS
<1>1. D \in SUBSET (0..15) /\ D # {}
  OBVIOUS
<1> QED
  BY <1>1, EccIsLinear, EccWeight

(* No row with up to three wrong bits is taken for one that is in order: the rows of *)
(* two values are four bits or more apart (otp_calculate_ecc).                       *)
THEOREM EccTheorem == Spec => []EccDistance
<1>1. Errors \subseteq (SUBSET (0..15)) \ {{}}
  <2>1. Cardinality({}) = 0
    BY FS_EmptySet
  <2> QED
    BY <2>1 DEF Errors
<1>2. EccDistance
  BY <1>1, EccApart, Zenon DEF EccDistance
<1> QED
  BY <1>2, PTL

-----------------------------------------------------------------------------
(*************************************************************************)
(* The bits of a number: those of a sum a * 2^k + b, with b < 2^k, are   *)
(* those of b and those of a moved up.                                   *)
(*************************************************************************)

(* Each power of two is twice the one before. *)
LEMMA TwiceTwo == \A b \in 0..22 : 2^(b + 1) = 2 * 2^b
<1> SUFFICES ASSUME NEW b \in 0..22 PROVE 2^(b + 1) = 2 * 2^b
  OBVIOUS
<1>1. CASE b \in 0..5
  <2>1. b = 0 \/ b = 1 \/ b = 2 \/ b = 3 \/ b = 4 \/ b = 5
    BY <1>1
  <2>2. /\ 2^(0 + 1) = 2 * 2^0 /\ 2^(1 + 1) = 2 * 2^1 /\ 2^(2 + 1) = 2 * 2^2
        /\ 2^(3 + 1) = 2 * 2^3 /\ 2^(4 + 1) = 2 * 2^4 /\ 2^(5 + 1) = 2 * 2^5
    OBVIOUS
  <2> QED
    BY ONLY <2>1, <2>2, b \in 0..22
<1>2. CASE b \in 6..11
  <2>1. b = 6 \/ b = 7 \/ b = 8 \/ b = 9 \/ b = 10 \/ b = 11
    BY <1>2
  <2>2. /\ 2^(6 + 1) = 2 * 2^6 /\ 2^(7 + 1) = 2 * 2^7 /\ 2^(8 + 1) = 2 * 2^8
        /\ 2^(9 + 1) = 2 * 2^9 /\ 2^(10 + 1) = 2 * 2^10 /\ 2^(11 + 1) = 2 * 2^11
    OBVIOUS
  <2> QED
    BY ONLY <2>1, <2>2, b \in 0..22
<1>3. CASE b \in 12..17
  <2>1. b = 12 \/ b = 13 \/ b = 14 \/ b = 15 \/ b = 16 \/ b = 17
    BY <1>3
  <2>2. /\ 2^(12 + 1) = 2 * 2^12 /\ 2^(13 + 1) = 2 * 2^13 /\ 2^(14 + 1) = 2 * 2^14
        /\ 2^(15 + 1) = 2 * 2^15 /\ 2^(16 + 1) = 2 * 2^16 /\ 2^(17 + 1) = 2 * 2^17
    OBVIOUS
  <2> QED
    BY ONLY <2>1, <2>2, b \in 0..22
<1>4. CASE b \in 18..22
  <2>1. b = 18 \/ b = 19 \/ b = 20 \/ b = 21 \/ b = 22
    BY <1>4
  <2>2. /\ 2^(18 + 1) = 2 * 2^18 /\ 2^(19 + 1) = 2 * 2^19 /\ 2^(20 + 1) = 2 * 2^20
        /\ 2^(21 + 1) = 2 * 2^21 /\ 2^(22 + 1) = 2 * 2^22
    OBVIOUS
  <2> QED
    BY ONLY <2>1, <2>2, b \in 0..22
<1> QED
  BY <1>1, <1>2, <1>3, <1>4

LEMMA PowersOfTwo ==
  /\ \A b \in 0..23 : 2^b \in Nat \ {0}
  /\ \A a \in 0..23 : \A b \in 0..23 : \A c \in 0..23 : c = b + a => 2^c = 2^b * 2^a
<1> DEFINE K == {b \in 0..23 : 2^b \in Nat \ {0}}
           Sums(a) == \A b \in 0..23 : \A c \in 0..23 : c = b + a => 2^c = 2^b * 2^a
           L == {a \in 0..23 : Sums(a)}
<1>1. 0 \in K
  OBVIOUS
<1>2. ASSUME NEW b \in 0..(23 - 1), b \in K PROVE b + 1 \in K
  <2>1. 2^(b + 1) = 2 * 2^b
    <3>1. b \in 0..22
      OBVIOUS
    <3> QED
      BY ONLY <3>1, TwiceTwo, Zenon
  <2> QED
    BY <1>2, <2>1
<1>3. \A b \in 0..23 : b \in K
  <2> HIDE DEF K
  <2> QED
    BY <1>1, <1>2, UpTo
<1>4. \A b \in 0..23 : 2^b \in Nat \ {0}
  BY <1>3
<1>5. 0 \in L
  <2>1. ASSUME NEW b \in 0..23, NEW c \in 0..23, c = b + 0 PROVE 2^c = 2^b * 2^0
    <3>1. c = b
      BY <2>1
    <3>2. 2^c = 2^b
      BY ONLY <3>1, Zenon
    <3>3. 2^0 = 1
      OBVIOUS
    <3>5. 2^b \in Nat
      BY <1>4, Zenon
    <3> DEFINE x == 2^b
    <3>4. x * 1 = x
      <4> HIDE DEF x
      <4>1. x \in Nat
        BY <3>5 DEF x
      <4> QED
        BY ONLY <4>1
    <3> QED
      BY ONLY <3>2, <3>3, <3>4, Zenon
  <2>2. 0 \in 0..23 /\ Sums(0)
    BY <2>1
  <2> QED
    BY ONLY <2>2 DEF L
<1>6. ASSUME NEW a \in 0..(23 - 1), a \in L PROVE a + 1 \in L
  <2>1. ASSUME NEW b \in 0..23, NEW c \in 0..23, c = b + (a + 1) PROVE 2^c = 2^b * 2^(a + 1)
    <3> DEFINE d == c - 1
    <3>1. d \in 0..22 /\ d \in 0..23 /\ d + 1 = c /\ a \in 0..22 /\ a \in 0..23 /\ d = b + a
      BY <2>1
    <3>2. Sums(a)
      BY ONLY <1>6 DEF L
    <3> HIDE DEF d
    <3>3. 2^(d + 1) = 2 * 2^d
      BY ONLY <3>1, TwiceTwo, Zenon
    <3>4. 2^(a + 1) = 2 * 2^a
      BY ONLY <3>1, TwiceTwo, Zenon
    <3>5. 2^d = 2^b * 2^a
      BY <3>1, <3>2, Zenon
    <3>6. 2^c = 2 * 2^d
      BY ONLY <3>1, <3>3, Zenon
    <3> DEFINE x == 2^b
               y == 2^a
    <3>7. x \in Nat /\ y \in Nat
      <4>1. 2^b \in Nat /\ 2^a \in Nat
        BY <1>4, <3>1
      <4> QED
        BY ONLY <4>1
    <3> HIDE DEF x, y
    <3>8. 2 * (x * y) = x * (2 * y)
      BY ONLY <3>7
    <3> QED
      BY ONLY <3>4, <3>5, <3>6, <3>8, Zenon DEF x, y
  <2>2. a + 1 \in 0..23
    OBVIOUS
  <2>3. Sums(a + 1)
    BY ONLY <2>1, Zenon
  <2> QED
    BY ONLY <2>2, <2>3, Zenon DEF L
<1>7. \A a \in 0..23 : a \in L
  <2> HIDE DEF L
  <2> QED
    BY <1>5, <1>6, UpTo
<1> QED
  BY ONLY <1>4, <1>7, Zenon DEF L

(* What a division gives. *)
LEMMA QuotientOf ==
  ASSUME NEW d \in Nat \ {0}, NEW q \in Nat, NEW r \in 0..(d - 1)
  PROVE  ((d * q) + r) \div d = q
<1> DEFINE a == (d * q) + r
           u == a \div d
           v == a % d
<1>1. d * q \in Nat /\ a \in Nat
  OBVIOUS
<1>2. u \in Nat /\ v \in 0..(d - 1) /\ a = (d * u) + v
  BY <1>1
<1>3. v = r
  BY RemainderOf
<1>4. d * u \in Nat
  BY <1>2
<1> HIDE DEF u, v
<1>5. d * u = d * q
  BY <1>1, <1>2, <1>3, <1>4
<1>6. \A x, y \in Nat : d * x = d * y => x = y
  <2> SUFFICES ASSUME NEW x \in Nat, NEW y \in Nat, d * x = d * y, x < y PROVE FALSE
    OBVIOUS
  <2>1. d * (x + 1) <= d * y /\ d * (x + 1) = (d * x) + d
    OBVIOUS
  <2> QED
    BY <2>1
<1>7. u = q
  BY <1>2, <1>5, <1>6
<1> QED
  BY <1>7 DEF u

(* The bits above those of B, and those of B, of a number put together. *)
LEMMA HighQuotient ==
  ASSUME NEW M \in Nat \ {0}, NEW P \in Nat \ {0}, NEW A \in Nat, NEW B \in 0..(M - 1)
  PROVE  ((M * A) + B) \div (P * M) = A \div P
<1> DEFINE q == A \div P
           r == A % P
<1>1. q \in Nat /\ r \in 0..(P - 1) /\ A = (P * q) + r
  OBVIOUS
<1> HIDE DEF q, r
<1> DEFINE D == P * M
           s == (M * r) + B
<1>2. D \in Nat \ {0}
  OBVIOUS
<1>3. M * r \in Nat /\ M * r <= M * (P - 1) /\ M * (P - 1) = D - M
  BY <1>1
<1>4. s \in 0..(D - 1)
  BY <1>2, <1>3
<1>5. (M * A) + B = (D * q) + s
  <2>1. M * A = (M * (P * q)) + (M * r)
    BY <1>1
  <2>2. M * (P * q) = D * q
    BY <1>1
  <2>3. M * (P * q) \in Nat
    BY <1>1
  <2> QED
    BY <1>3, <2>1, <2>2, <2>3
<1> HIDE DEF D, s
<1>6. ((D * q) + s) \div D = q
  BY <1>1, <1>2, <1>4, QuotientOf
<1> QED
  BY <1>5, <1>6 DEF D, q

(* An even multiple of Q does not disturb the lowest bit of B's quotient. *)
SameLowBit(Q, R, A, B) == (((Q * (2 * R)) * A + B) \div Q) % 2 = (B \div Q) % 2

(* That is so of all of them. *)
LEMMA LowQuotient ==
  ASSUME NEW Q \in Nat \ {0}, NEW R \in Nat, NEW A \in Nat, NEW B \in Nat
  PROVE  SameLowBit(Q, R, A, B)
<1> DEFINE u == B \div Q
           v == B % Q
           t == 2 * (R * A)
<1>1. u \in Nat /\ v \in 0..(Q - 1) /\ B = (Q * u) + v
  OBVIOUS
<1> HIDE DEF u, v
<1>2. t \in Nat /\ t % 2 = 0
  OBVIOUS
<1>3. ((Q * (2 * R)) * A) + B = (Q * (t + u)) + v
  <2>1. (Q * (2 * R)) * A = Q * t
    OBVIOUS
  <2>2. Q * (t + u) = (Q * t) + (Q * u)
    BY <1>1, <1>2
  <2>3. Q * t \in Nat /\ Q * u \in Nat
    BY <1>1, <1>2
  <2> HIDE DEF t
  <2> QED
    BY <1>1, <2>1, <2>2, <2>3
<1> HIDE DEF t
<1>4. ((Q * (t + u)) + v) \div Q = t + u
  BY <1>1, <1>2, QuotientOf
<1>5. (t + u) % 2 = u % 2
  BY <1>1, <1>2
<1> QED
  BY <1>3, <1>4, <1>5 DEF u, SameLowBit

(* The bits of a number put together from A and, below it, k bits of B. *)
LEMMA BitsOfSum ==
  ASSUME NEW k \in 0..23, NEW A \in Nat, NEW B \in 0..(2^k - 1), NEW n, n = (2^k * A) + B
  PROVE  /\ BitsOf(B) \subseteq 0..(k - 1)
         /\ BitsOf(n) = BitsOf(B) \union (ShiftedUp(BitsOf(A), k) \intersect Bits)
<1> DEFINE M == 2^k
<1>1. M \in Nat \ {0} /\ n = (M * A) + B /\ B \in 0..(M - 1)
  <2>1. 2^k \in Nat \ {0}
    BY PowersOfTwo, Zenon
  <2> QED
    BY <2>1
<1>2. ASSUME NEW b \in 0..23, NEW a \in Nat, b = a + k
      PROVE  /\ (n \div 2^b) % 2 = (A \div 2^a) % 2
             /\ (B \div 2^b) % 2 = 0
  <2> DEFINE P == 2^a
  <2>1. a \in 0..23
    BY <1>2
  <2>2. P \in Nat \ {0}
    BY <2>1, PowersOfTwo, Zenon
  <2>3. 2^b = P * M
    BY <2>1, <1>2, PowersOfTwo, Zenon
  <2> HIDE DEF P, M
  <2>4. ((M * A) + B) \div (P * M) = A \div P
    BY <1>1, <2>2, HighQuotient
  <2>5. ((M * 0) + B) \div (P * M) = 0 \div P
    BY <1>1, <2>2, HighQuotient
  <2>6. (M * 0) + B = B /\ 0 \div P = 0
    BY <1>1, <2>2
  <2>7. n \div 2^b = A \div P /\ B \div 2^b = 0
    BY ONLY <1>1, <2>3, <2>4, <2>5, <2>6
  <2>8. 0 % 2 = 0
    OBVIOUS
  <2> QED
    BY ONLY <2>7, <2>8, Zenon DEF P
<1>3. ASSUME NEW b \in 0..23, b < k
      PROVE  (n \div 2^b) % 2 = (B \div 2^b) % 2
  <2> DEFINE Q == 2^b
             c == (k - b) - 1
             R == 2^c
  <2>1. c \in 0..22 /\ c + 1 \in 0..23 /\ k = b + (c + 1) /\ c \in 0..23
    BY <1>3
  <2>2. Q \in Nat \ {0} /\ R \in Nat
    <3>1. 2^b \in Nat \ {0}
      BY PowersOfTwo, Zenon
    <3> HIDE DEF c
    <3>2. 2^c \in Nat \ {0}
      BY <2>1, PowersOfTwo, Zenon
    <3> QED
      BY ONLY <3>1, <3>2
  <2> HIDE DEF c
  <2>3. 2^(c + 1) = 2 * R
    BY <2>1, TwiceTwo, Zenon
  <2>4. M = Q * (2 * R)
    <3>1. 2^k = 2^b * 2^(c + 1)
      BY <2>1, PowersOfTwo, Zenon
    <3> QED
      BY ONLY <2>3, <3>1, Zenon
  <2> HIDE DEF Q, R, M
  <2>5. B \in Nat
    BY <1>1
  <2>6. (((Q * (2 * R)) * A + B) \div Q) % 2 = (B \div Q) % 2
    <3>1. A \in Nat
      OBVIOUS
    <3>2. SameLowBit(Q, R, A, B)
      BY ONLY <2>2, <2>5, <3>1, LowQuotient, Zenon
    <3> QED
      BY ONLY <3>2, Zenon DEF SameLowBit
  <2> QED
    <3>1. n = ((Q * (2 * R)) * A) + B
      BY ONLY <1>1, <2>4, Zenon
    <3>2. (n \div Q) % 2 = (B \div Q) % 2
      BY ONLY <2>6, <3>1, Zenon
    <3> QED
      BY ONLY <3>2, Zenon DEF Q
<1> HIDE DEF M
<1>4. ASSUME NEW b \in Bits, b >= k PROVE b \notin BitsOf(B)
  <2>1. b \in 0..23 /\ b - k \in Nat /\ b = (b - k) + k
    BY <1>4 DEF Bits
  <2>2. (B \div 2^b) % 2 = 0
    BY ONLY <1>2, <2>1
  <2> QED
    BY <2>2 DEF BitsOf
<1>5. ASSUME NEW b \in Bits, b < k PROVE b \in BitsOf(n) <=> b \in BitsOf(B)
  <2>1. (n \div 2^b) % 2 = (B \div 2^b) % 2
    BY <1>3, <1>5 DEF Bits
  <2> QED
    BY <2>1, Zenon DEF BitsOf
<1>6. ASSUME NEW b \in Bits, b >= k
      PROVE  b \in BitsOf(n) <=> b \in ShiftedUp(BitsOf(A), k)
  <2> DEFINE a == b - k
  <2>1. b \in 0..23 /\ a \in Nat /\ b = a + k /\ a \in Bits
    BY <1>6 DEF Bits
  <2> HIDE DEF a
  <2>2. (n \div 2^b) % 2 = (A \div 2^a) % 2
    BY ONLY <1>2, <2>1
  <2>3. b \in BitsOf(n) <=> a \in BitsOf(A)
    BY <2>1, <2>2, Zenon DEF BitsOf
  <2>4. \A x \in BitsOf(A) : b = x + k <=> x = a
    BY <2>1 DEF BitsOf, Bits
  <2>5. b \in ShiftedUp(BitsOf(A), k) <=> a \in BitsOf(A)
    BY ONLY <2>1, <2>4 DEF ShiftedUp
  <2> QED
    BY ONLY <2>3, <2>5
<1>7. ASSUME NEW b \in ShiftedUp(BitsOf(A), k) PROVE b \in Int /\ b >= k
  BY DEF ShiftedUp, BitsOf, Bits
<1>8. \A m : BitsOf(m) \subseteq Bits
  BY DEF BitsOf
<1>9. BitsOf(B) \subseteq 0..(k - 1)
  BY <1>4, <1>8 DEF Bits
<1>10. \A b \in Bits : b \in Int /\ (b >= k \/ b < k) /\ ~(b >= k /\ b < k)
  BY DEF Bits
<1>11. ASSUME NEW b \in Bits
       PROVE  b \in BitsOf(n) <=> b \in BitsOf(B) \/ b \in ShiftedUp(BitsOf(A), k)
  BY <1>4, <1>5, <1>6, <1>7, <1>10
<1> QED
  BY ONLY <1>8, <1>9, <1>11, Zenon

-----------------------------------------------------------------------------
(*************************************************************************)
(* Binary coded decimals.  rev and out are what their recursions say, of *)
(* every number; a revision of three or four digits has one digit in     *)
(* each half byte.                                                       *)
(*************************************************************************)

(* The functions of the first k numbers that turn digits round and put them out. *)
Turns(f, k) ==
    f = [tmp \in 0..k |-> [rest \in Nat |->
           IF tmp = 0 THEN rest ELSE f[tmp \div 10][(rest * 10) + (tmp % 10)]]]
PutsOut(f, k) ==
    f = [digits \in 0..k |-> [shift \in Int |->
           IF digits = 0 THEN 0
           ELSE ((digits % 10) * 2^shift) + f[digits \div 10][shift - 4]]]

LEMMA Quotients ==
  ASSUME NEW n \in Nat
  PROVE  /\ n \div 10 \in Nat /\ n % 10 \in 0..9
         /\ n # 0 => n \div 10 < n /\ n \div 10 \in 0..(n - 1)
  OBVIOUS

LEMMA TurnsAt ==
  ASSUME NEW f, NEW k \in Nat, Turns(f, k), NEW t \in 0..k, NEW r \in Nat
  PROVE  f[t][r] = IF t = 0 THEN r ELSE f[t \div 10][(r * 10) + (t % 10)]
<1>1. f[t] = [rest \in Nat |-> IF t = 0 THEN rest ELSE f[t \div 10][(rest * 10) + (t % 10)]]
  BY DEF Turns
<1> QED
  BY <1>1

LEMMA TurnsAgree ==
  ASSUME NEW k \in Nat, NEW m \in Nat, NEW f, NEW g, Turns(f, k), Turns(g, m)
  PROVE  \A t \in 0..k : t \in 0..m => \A r \in Nat : f[t][r] = g[t][r]
<1> DEFINE Bad == {t \in 0..k : t \in 0..m /\ \E r \in Nat : f[t][r] # g[t][r]}
<1> SUFFICES Bad = {}
  OBVIOUS
<1> SUFFICES ASSUME Bad # {} PROVE FALSE
  OBVIOUS
<1>1. PICK t \in Bad : \A s \in Bad : t <= s
  <2>1. Bad \in SUBSET Nat
    OBVIOUS
  <2> QED
    BY <2>1, Least
<1>2. t \in 0..k /\ t \in 0..m /\ t \in Nat
  OBVIOUS
<1>3. PICK r \in Nat : f[t][r] # g[t][r]
  OBVIOUS
<1>4. /\ f[t][r] = IF t = 0 THEN r ELSE f[t \div 10][(r * 10) + (t % 10)]
      /\ g[t][r] = IF t = 0 THEN r ELSE g[t \div 10][(r * 10) + (t % 10)]
  BY <1>2, TurnsAt
<1>5. t # 0
  BY <1>3, <1>4
<1>6. t \div 10 \in 0..k /\ t \div 10 \in 0..m /\ t \div 10 < t /\ (r * 10) + (t % 10) \in Nat
  BY <1>2, <1>5, Quotients
<1>7. t \div 10 \notin Bad
  BY <1>1, <1>2, <1>6
<1>8. f[t \div 10][(r * 10) + (t % 10)] = g[t \div 10][(r * 10) + (t % 10)]
  BY <1>6, <1>7
<1> QED
  BY <1>3, <1>4, <1>5, <1>8

LEMMA TurnsExists == \A k \in Nat : \E f : Turns(f, k)
<1> SUFFICES ASSUME NEW n \in Nat PROVE \E f : Turns(f, n)
  OBVIOUS
<1> DEFINE K == {k \in 0..n : \E f : Turns(f, k)}
<1>1. 0 \in K
  <2> DEFINE f == [tmp \in 0..0 |-> [rest \in Nat |-> rest]]
  <2>1. f = [tmp \in 0..0 |-> [rest \in Nat |->
               IF tmp = 0 THEN rest ELSE f[tmp \div 10][(rest * 10) + (tmp % 10)]]]
    OBVIOUS
  <2> HIDE DEF f
  <2>2. Turns(f, 0)
    BY <2>1 DEF Turns
  <2> QED
    BY <2>2
<1>2. ASSUME NEW k \in 0..(n - 1), k \in K PROVE k + 1 \in K
  <2>1. PICK old : Turns(old, k)
    BY <1>2
  <2>2. k \in Nat /\ k + 1 \in 0..n
    OBVIOUS
  <2> DEFINE f == [tmp \in 0..(k + 1) |-> [rest \in Nat |->
                     IF tmp = k + 1 THEN old[tmp \div 10][(rest * 10) + (tmp % 10)] ELSE old[tmp][rest]]]
  <2>3. ASSUME NEW t \in 0..(k + 1), NEW r \in Nat
        PROVE  f[t][r] = IF t = 0 THEN r ELSE f[t \div 10][(r * 10) + (t % 10)]
    <3>1. \A s \in 0..k, x \in Nat : f[s][x] = old[s][x]
      BY <2>2
    <3>2. t \in Nat /\ (t # 0 => t \div 10 \in 0..k /\ (r * 10) + (t % 10) \in Nat)
      BY <2>2, Quotients
    <3>3. CASE t = k + 1
      <4>1. f[t][r] = old[t \div 10][(r * 10) + (t % 10)] /\ t # 0
        BY <2>2, <3>3
      <4> HIDE DEF f
      <4> QED
        BY <3>1, <3>2, <4>1
    <3>4. CASE t # k + 1
      <4>1. t \in 0..k
        BY <2>2, <3>4
      <4>2. old[t][r] = IF t = 0 THEN r ELSE old[t \div 10][(r * 10) + (t % 10)]
        BY <2>1, <2>2, <4>1, TurnsAt
      <4> HIDE DEF f
      <4> QED
        BY <3>1, <3>2, <4>1, <4>2
    <3> QED
      BY <3>3, <3>4
  <2>4. f = [tmp \in 0..(k + 1) |-> [rest \in Nat |-> f[tmp][rest]]]
    OBVIOUS
  <2> HIDE DEF f
  <2>5. Turns(f, k + 1)
    BY <2>3, <2>4 DEF Turns
  <2> QED
    BY <2>2, <2>5
<1>3. n \in K
  <2> HIDE DEF K
  <2>1. \A k \in 0..n : k \in K
    BY <1>1, <1>2, UpTo
  <2> QED
    BY <2>1
<1> QED
  BY <1>3

LEMMA RevIs ==
  ASSUME NEW t \in Nat, NEW r \in Nat
  PROVE  rev[t][r] = IF t = 0 THEN r ELSE rev[t \div 10][(r * 10) + (t % 10)]
<1> DEFINE Part(k) == CHOOSE f : Turns(f, k)
           F == [tmp \in Nat |-> [rest \in Nat |-> Part(tmp)[tmp][rest]]]
<1>1. \A k \in Nat : Turns(Part(k), k)
  BY TurnsExists
<1> HIDE DEF Part
<1>2. ASSUME NEW a \in Nat, NEW b \in Nat
      PROVE  F[a][b] = IF a = 0 THEN b ELSE F[a \div 10][(b * 10) + (a % 10)]
  <2>1. F[a][b] = Part(a)[a][b]
    OBVIOUS
  <2>2. Part(a)[a][b] = IF a = 0 THEN b ELSE Part(a)[a \div 10][(b * 10) + (a % 10)]
    BY <1>1, TurnsAt
  <2>3. CASE a # 0
    <3> DEFINE c == a \div 10
               d == (b * 10) + (a % 10)
    <3>1. c \in Nat /\ d \in Nat /\ c \in 0..a /\ c \in 0..c
      BY <2>3, Quotients
    <3> HIDE DEF c, d
    <3>2. Part(a)[c][d] = Part(c)[c][d]
      BY <1>1, <3>1, TurnsAgree
    <3>3. F[c][d] = Part(c)[c][d]
      BY <3>1
    <3> QED
      BY <2>1, <2>2, <2>3, <3>2, <3>3 DEF c, d
  <2> QED
    BY <2>1, <2>2, <2>3
<1>3. F = [tmp \in Nat |-> [rest \in Nat |->
             IF tmp = 0 THEN rest ELSE F[tmp \div 10][(rest * 10) + (tmp % 10)]]]
  <2>1. F = [tmp \in Nat |-> [rest \in Nat |-> F[tmp][rest]]]
    OBVIOUS
  <2> HIDE DEF F
  <2> QED
    BY <1>2, <2>1
<1> HIDE DEF F
<1>4. rev = [tmp \in Nat |-> [rest \in Nat |->
             IF tmp = 0 THEN rest ELSE rev[tmp \div 10][(rest * 10) + (tmp % 10)]]]
  BY <1>3, Zenon DEF rev
<1> QED
  BY <1>4

LEMMA PutsOutAt ==
  ASSUME NEW f, NEW k \in Nat, PutsOut(f, k), NEW t \in 0..k, NEW r \in Int
  PROVE  f[t][r] = IF t = 0 THEN 0 ELSE ((t % 10) * 2^r) + f[t \div 10][r - 4]
<1>1. f[t] = [shift \in Int |-> IF t = 0 THEN 0 ELSE ((t % 10) * 2^shift) + f[t \div 10][shift - 4]]
  BY DEF PutsOut
<1> QED
  BY <1>1

LEMMA PutsOutAgree ==
  ASSUME NEW k \in Nat, NEW m \in Nat, NEW f, NEW g, PutsOut(f, k), PutsOut(g, m)
  PROVE  \A t \in 0..k : t \in 0..m => \A r \in Int : f[t][r] = g[t][r]
<1> DEFINE Bad == {t \in 0..k : t \in 0..m /\ \E r \in Int : f[t][r] # g[t][r]}
<1> SUFFICES Bad = {}
  OBVIOUS
<1> SUFFICES ASSUME Bad # {} PROVE FALSE
  OBVIOUS
<1>1. PICK t \in Bad : \A s \in Bad : t <= s
  <2>1. Bad \in SUBSET Nat
    OBVIOUS
  <2> QED
    BY <2>1, Least
<1>2. t \in 0..k /\ t \in 0..m /\ t \in Nat
  OBVIOUS
<1>3. PICK r \in Int : f[t][r] # g[t][r]
  OBVIOUS
<1>4. /\ f[t][r] = IF t = 0 THEN 0 ELSE ((t % 10) * 2^r) + f[t \div 10][r - 4]
      /\ g[t][r] = IF t = 0 THEN 0 ELSE ((t % 10) * 2^r) + g[t \div 10][r - 4]
  BY <1>2, PutsOutAt
<1>5. t # 0
  BY <1>3, <1>4
<1>6. t \div 10 \in 0..k /\ t \div 10 \in 0..m /\ t \div 10 < t /\ r - 4 \in Int
  BY <1>2, <1>5, Quotients
<1>7. t \div 10 \notin Bad
  BY <1>1, <1>2, <1>6
<1>8. f[t \div 10][r - 4] = g[t \div 10][r - 4]
  BY <1>6, <1>7
<1> QED
  BY <1>3, <1>4, <1>5, <1>8

LEMMA PutsOutExists == \A k \in Nat : \E f : PutsOut(f, k)
<1> SUFFICES ASSUME NEW n \in Nat PROVE \E f : PutsOut(f, n)
  OBVIOUS
<1> DEFINE K == {k \in 0..n : \E f : PutsOut(f, k)}
<1>1. 0 \in K
  <2> DEFINE f == [digits \in 0..0 |-> [shift \in Int |-> 0]]
  <2>1. f = [digits \in 0..0 |-> [shift \in Int |->
               IF digits = 0 THEN 0 ELSE ((digits % 10) * 2^shift) + f[digits \div 10][shift - 4]]]
    OBVIOUS
  <2> HIDE DEF f
  <2>2. PutsOut(f, 0)
    BY <2>1 DEF PutsOut
  <2> QED
    BY <2>2
<1>2. ASSUME NEW k \in 0..(n - 1), k \in K PROVE k + 1 \in K
  <2>1. PICK old : PutsOut(old, k)
    BY <1>2
  <2>2. k \in Nat /\ k + 1 \in 0..n
    OBVIOUS
  <2> DEFINE f == [digits \in 0..(k + 1) |-> [shift \in Int |->
                     IF digits = k + 1 THEN ((digits % 10) * 2^shift) + old[digits \div 10][shift - 4]
                     ELSE old[digits][shift]]]
  <2>3. ASSUME NEW t \in 0..(k + 1), NEW r \in Int
        PROVE  f[t][r] = IF t = 0 THEN 0 ELSE ((t % 10) * 2^r) + f[t \div 10][r - 4]
    <3>1. \A s \in 0..k, x \in Int : f[s][x] = old[s][x]
      BY <2>2
    <3>2. t \in Nat /\ (t # 0 => t \div 10 \in 0..k /\ r - 4 \in Int)
      BY <2>2, Quotients
    <3>3. CASE t = k + 1
      <4>1. f[t][r] = ((t % 10) * 2^r) + old[t \div 10][r - 4] /\ t # 0
        BY <2>2, <3>3
      <4> HIDE DEF f
      <4> QED
        BY <3>1, <3>2, <4>1
    <3>4. CASE t # k + 1
      <4>1. t \in 0..k
        BY <2>2, <3>4
      <4>2. old[t][r] = IF t = 0 THEN 0 ELSE ((t % 10) * 2^r) + old[t \div 10][r - 4]
        BY <2>1, <2>2, <4>1, PutsOutAt
      <4> HIDE DEF f
      <4> QED
        BY <3>1, <3>2, <4>1, <4>2
    <3> QED
      BY <3>3, <3>4
  <2>4. f = [digits \in 0..(k + 1) |-> [shift \in Int |-> f[digits][shift]]]
    OBVIOUS
  <2> HIDE DEF f
  <2>5. PutsOut(f, k + 1)
    BY <2>3, <2>4 DEF PutsOut
  <2> QED
    BY <2>2, <2>5
<1>3. n \in K
  <2> HIDE DEF K
  <2>1. \A k \in 0..n : k \in K
    BY <1>1, <1>2, UpTo
  <2> QED
    BY <2>1
<1> QED
  BY <1>3

LEMMA OutIs ==
  ASSUME NEW t \in Nat, NEW r \in Int
  PROVE  out[t][r] = IF t = 0 THEN 0 ELSE ((t % 10) * 2^r) + out[t \div 10][r - 4]
<1> DEFINE Part(k) == CHOOSE f : PutsOut(f, k)
           F == [digits \in Nat |-> [shift \in Int |-> Part(digits)[digits][shift]]]
<1>1. \A k \in Nat : PutsOut(Part(k), k)
  BY PutsOutExists
<1> HIDE DEF Part
<1>2. ASSUME NEW a \in Nat, NEW b \in Int
      PROVE  F[a][b] = IF a = 0 THEN 0 ELSE ((a % 10) * 2^b) + F[a \div 10][b - 4]
  <2>1. F[a][b] = Part(a)[a][b]
    OBVIOUS
  <2>2. Part(a)[a][b] = IF a = 0 THEN 0 ELSE ((a % 10) * 2^b) + Part(a)[a \div 10][b - 4]
    BY <1>1, PutsOutAt
  <2>3. CASE a # 0
    <3> DEFINE c == a \div 10
               d == b - 4
    <3>1. c \in Nat /\ d \in Int /\ c \in 0..a /\ c \in 0..c
      BY <2>3, Quotients
    <3> HIDE DEF c, d
    <3>2. Part(a)[c][d] = Part(c)[c][d]
      BY <1>1, <3>1, PutsOutAgree
    <3>3. F[c][d] = Part(c)[c][d]
      BY <3>1
    <3> QED
      BY <2>1, <2>2, <2>3, <3>2, <3>3 DEF c, d
  <2> QED
    BY <2>1, <2>2, <2>3
<1>3. F = [digits \in Nat |-> [shift \in Int |->
             IF digits = 0 THEN 0 ELSE ((digits % 10) * 2^shift) + F[digits \div 10][shift - 4]]]
  <2>1. F = [digits \in Nat |-> [shift \in Int |-> F[digits][shift]]]
    OBVIOUS
  <2> HIDE DEF F
  <2> QED
    BY <1>2, <2>1
<1> HIDE DEF F
<1>4. out = [digits \in Nat |-> [shift \in Int |->
             IF digits = 0 THEN 0 ELSE ((digits % 10) * 2^shift) + out[digits \div 10][shift - 4]]]
  BY <1>3, Zenon DEF out
<1>5. out[t] = [shift \in Int |-> IF t = 0 THEN 0 ELSE ((t % 10) * 2^shift) + out[t \div 10][shift - 4]]
  BY <1>4, Zenon
<1> QED
  BY <1>5, Zenon

LEMMA ByTen == \A n \in Nat : n = (10 * (n \div 10)) + (n % 10) /\ n % 10 \in 0..9 /\ n \div 10 \in Nat
  OBVIOUS

LEMMA RevStep ==
  ASSUME NEW n \in Nat, n # 0, NEW r \in Nat, NEW q, NEW s, n \div 10 = q, (r * 10) + (n % 10) = s
  PROVE  rev[n][r] = rev[q][s]
  BY RevIs

LEMMA OutStep ==
  ASSUME NEW n \in Nat, NEW r \in Int
  PROVE  out[n][r] = IF n = 0 THEN 0 ELSE ((n % 10) * 2^r) + out[n \div 10][r - 4]
  BY OutIs

LEMMA Powers ==
  /\ 2^0 = 1 /\ 2^4 = 16 /\ 2^7 = 128 /\ 2^8 = 256 /\ 2^12 = 4096
  /\ 10^0 = 1 /\ 10^1 = 10 /\ 10^2 = 100 /\ 10^3 = 1000
  OBVIOUS

TwoMore(x, y, a, b, c) == y = (10 * c) + b /\ x = (10 * y) + a
IsPutOut(x, a, b, c) == out[x][8] = (256 * a) + (16 * b) + c

LEMMA OutDigits ==
  ASSUME NEW a \in 0..9, NEW b \in 0..9, NEW c \in 0..9,
         NEW x, NEW y, TwoMore(x, y, a, b, c)
  PROVE  IsPutOut(x, a, b, c)
<1> USE DEF TwoMore
<1>1. x \in Nat /\ y \in Nat /\ c \in Nat /\ 0 \in Nat /\ 0 \in Int /\ 4 \in Int /\ 8 \in Int
  OBVIOUS
<1>2. x \div 10 = y /\ x % 10 = a
  OBVIOUS
<1>3. y \div 10 = c /\ y % 10 = b
  OBVIOUS
<1>4. c \div 10 = 0 /\ c % 10 = c
  OBVIOUS
<1>5. 8 - 4 = 4 /\ 4 - 4 = 0
  OBVIOUS
<1>6. out[c][0] = c
  <2>1. out[c][0] = IF c = 0 THEN 0 ELSE (c * 1) + out[0][0 - 4]
    <3>1. out[c][0] = IF c = 0 THEN 0 ELSE ((c % 10) * 2^0) + out[c \div 10][0 - 4]
      BY ONLY <1>1, OutStep, Zenon
    <3> QED
      BY ONLY <1>4, <3>1, Powers
  <2>2. 0 - 4 \in Int
    OBVIOUS
  <2>3. out[0][0 - 4] = 0
    BY <1>1, <2>2, OutIs
  <2> QED
    BY <2>1, <2>3
<1>7. out[y][4] = (16 * b) + c
  <2>1. out[y][4] = IF y = 0 THEN 0 ELSE (b * 16) + out[c][0]
    <3>1. out[y][4] = IF y = 0 THEN 0 ELSE ((y % 10) * 2^4) + out[y \div 10][4 - 4]
      BY ONLY <1>1, OutStep, Zenon
    <3> QED
      BY ONLY <1>3, <1>5, <3>1, Powers
  <2> QED
    BY <1>6, <2>1
<1>8. out[x][8] = IF x = 0 THEN 0 ELSE (a * 256) + out[y][4]
  <2>1. out[x][8] = IF x = 0 THEN 0 ELSE ((x % 10) * 2^8) + out[x \div 10][8 - 4]
    BY ONLY <1>1, OutStep, Zenon
  <2> QED
    BY ONLY <1>2, <1>5, <2>1, Powers
<1> QED
  BY <1>7, <1>8 DEF IsPutOut

Digit(n, k) == (n \div 10^k) % 10

HasDigits(n, a, b, c, d) ==
    /\ a \in 0..9 /\ b \in 0..9 /\ c \in 0..9 /\ d \in 0..9
    /\ n = (10 * ((10 * ((10 * d) + c)) + b)) + a
Revision(n) == n \in Nat /\ 100 <= n /\ n <= 9999

LEMMA DigitsOf ==
  ASSUME NEW n, Revision(n)
  PROVE  HasDigits(n, Digit(n, 0), Digit(n, 1), Digit(n, 2), Digit(n, 3))
<1> USE DEF Revision
<1>1. n \in Nat /\ (n \div 10) \div 10 = n \div 100 /\ (n \div 100) \div 10 = n \div 1000
  OBVIOUS
<1> DEFINE p == n \div 10
           q == n \div 100
           r == n \div 1000
<1>2. r \in 0..9 /\ r % 10 = r
  <2>1. n \div 1000 \in 0..9
    OBVIOUS
  <2>2. \A x \in 0..9 : x % 10 = x
    OBVIOUS
  <2> QED
    BY ONLY <2>1, <2>2
<1>3. \A x \in Nat : x = (10 * (x \div 10)) + (x % 10) /\ x % 10 \in 0..9 /\ x \div 10 \in Nat
  OBVIOUS
<1>4. p \in Nat /\ q \in Nat /\ r \in Nat
  <2>1. n \div 10 \in Nat /\ n \div 100 \in Nat /\ n \div 1000 \in Nat
    BY ONLY <1>1
  <2> QED
    BY <2>1
<1>5. n \div 1 = n
  OBVIOUS
<1>6. Digit(n, 0) = n % 10 /\ Digit(n, 1) = p % 10 /\ Digit(n, 2) = q % 10 /\ Digit(n, 3) = r
  BY <1>2, <1>5, Powers DEF Digit
<1>7. p \div 10 = q /\ q \div 10 = r /\ n \div 10 = p
  BY <1>1
<1> HIDE DEF p, q, r
<1>8. n % 10 \in 0..9 /\ p % 10 \in 0..9 /\ q % 10 \in 0..9
  BY <1>1, <1>3, <1>4
<1>9. n = (10 * p) + (n % 10) /\ p = (10 * q) + (p % 10) /\ q = (10 * r) + (q % 10)
  BY ONLY <1>1, <1>3, <1>4, <1>7
<1>10. n = (10 * ((10 * ((10 * r) + (q % 10))) + (p % 10))) + (n % 10)
  BY ONLY <1>9
<1> QED
  BY ONLY <1>2, <1>6, <1>8, <1>10 DEF HasDigits

Turning(n, a, b, c, d, x, y, t, u, v) ==
    /\ n = (10 * x) + a /\ x = (10 * y) + b /\ y = (10 * d) + c /\ y # 0
    /\ t = (10 * a) + b /\ u = (10 * t) + c /\ v = (10 * u) + d

LEMMA TurnedRound ==
  ASSUME NEW a \in 0..9, NEW b \in 0..9, NEW c \in 0..9, NEW d \in 0..9,
         NEW n \in Nat, NEW x \in Nat, NEW y \in Nat, NEW t \in Nat, NEW u \in Nat, NEW v \in Nat,
         Turning(n, a, b, c, d, x, y, t, u, v)
  PROVE  rev[n][0] = IF d = 0 THEN u ELSE v
<1> USE DEF Turning
<1>1. n # 0 /\ x # 0 /\ a \in Nat /\ d \in Nat /\ 0 \in Nat
  OBVIOUS
<1>2. n \div 10 = x /\ (0 * 10) + (n % 10) = a
  OBVIOUS
<1>3. x \div 10 = y /\ (a * 10) + (x % 10) = t
  OBVIOUS
<1>4. y \div 10 = d /\ (t * 10) + (y % 10) = u
  OBVIOUS
<1>5. d \div 10 = 0 /\ (u * 10) + (d % 10) = v
  OBVIOUS
<1>6. rev[n][0] = rev[x][a]
  <2>1. rev[n][0] = rev[n \div 10][(0 * 10) + (n % 10)]
    BY ONLY <1>1, RevIs
  <2> QED
    BY ONLY <1>2, <2>1
<1>7. rev[x][a] = rev[y][t]
  <2>1. rev[x][a] = rev[x \div 10][(a * 10) + (x % 10)]
    BY ONLY <1>1, RevIs
  <2> QED
    BY ONLY <1>3, <2>1
<1>8. y # 0 /\ y \in Nat /\ t \in Nat
  OBVIOUS
<1>9. rev[y][t] = rev[d][u]
  <2>1. rev[y][t] = rev[y \div 10][(t * 10) + (y % 10)]
    BY ONLY <1>8, RevIs
  <2> QED
    BY ONLY <1>4, <2>1
<1>10. rev[0][u] = u /\ rev[0][v] = v
  BY ONLY <1>1, RevIs
<1>11. ASSUME d # 0 PROVE rev[d][u] = rev[0][v]
  <2>1. d # 0 /\ d \in Nat /\ u \in Nat
    BY <1>11
  <2> QED
    <3>1. rev[d][u] = rev[d \div 10][(u * 10) + (d % 10)]
      BY ONLY <2>1, RevIs
    <3> QED
      BY ONLY <1>5, <3>1
<1> QED
  BY ONLY <1>6, <1>7, <1>9, <1>10, <1>11

Fourth(d, u, v) == v = (10 * u) + d /\ v # 0

LEMMA OutFourth ==
  ASSUME NEW d \in 0..9, NEW u \in Nat, NEW v \in Nat, Fourth(d, u, v)
  PROVE  out[v][12] = (4096 * d) + out[u][8]
<1> USE DEF Fourth
<1>1. v \div 10 = u /\ v % 10 = d /\ 12 \in Int /\ 12 - 4 = 8 /\ v # 0
  OBVIOUS
<1>2. out[v][12] = IF v = 0 THEN 0 ELSE ((v % 10) * 2^12) + out[v \div 10][12 - 4]
  BY ONLY <1>1, OutStep, Zenon
<1>3. out[v][12] = (d * 4096) + out[u][8]
  BY ONLY <1>1, <1>2, Powers
<1>4. d * 4096 = 4096 * d
  OBVIOUS
<1> QED
  BY ONLY <1>3, <1>4

LEMMA BcdOfDigits ==
  ASSUME NEW a, NEW b, NEW c, NEW d, NEW n, Revision(n), HasDigits(n, a, b, c, d)
  PROVE  get_json_bcd(n) = a + (16 * b) + (256 * c) + (4096 * d)
<1> USE DEF Revision, HasDigits
<1> DEFINE y == (10 * d) + c
           x == (10 * y) + b
           t == (10 * a) + b
           u == (10 * t) + c
           v == (10 * u) + d
<1>1. /\ n = (10 * x) + a /\ x = (10 * y) + b /\ y = (10 * d) + c
      /\ t = (10 * a) + b /\ u = (10 * t) + c /\ v = (10 * u) + d
  OBVIOUS
<1>2. /\ a \in 0..9 /\ b \in 0..9 /\ c \in 0..9 /\ d \in 0..9 /\ n \in Nat
      /\ x \in Nat /\ y \in Nat /\ t \in Nat /\ u \in Nat /\ v \in Nat /\ y # 0
  OBVIOUS
<1>3. (n >= 1000 <=> d # 0) /\ (d # 0 => v # 0)
  OBVIOUS
<1> HIDE DEF x, y, t, u, v
<1>4. rev[n][0] = IF d = 0 THEN u ELSE v
  <2>1. Turning(n, a, b, c, d, x, y, t, u, v)
    BY <1>1, <1>2 DEF Turning
  <2> QED
    BY ONLY <1>2, <2>1, TurnedRound
<1>5. out[u][8] = (256 * c) + (16 * b) + a
  <2>1. TwoMore(u, t, c, b, a)
    BY <1>1 DEF TwoMore
  <2>2. IsPutOut(u, c, b, a)
    BY ONLY <1>2, <2>1, OutDigits, Zenon
  <2> QED
    BY ONLY <2>2 DEF IsPutOut
<1>6. d # 0 => out[v][12] = (4096 * d) + out[u][8]
  <2> SUFFICES ASSUME d # 0 PROVE out[v][12] = (4096 * d) + out[u][8]
    OBVIOUS
  <2>1. Fourth(d, u, v)
    BY <1>1, <1>3 DEF Fourth
  <2> QED
    BY ONLY <1>2, <2>1, OutFourth
<1>7. get_json_bcd(n) = IF d = 0 THEN out[u][8] ELSE out[v][12]
  BY <1>3, <1>4 DEF get_json_bcd
<1> QED
  BY <1>5, <1>6, <1>7

(* A revision of 1.00 and more is put out digit by digit. *)
LEMMA BcdOf ==
  ASSUME NEW n, Revision(n)
  PROVE  get_json_bcd(n) =
           Digit(n, 0) + (16 * Digit(n, 1)) + (256 * Digit(n, 2)) + (4096 * Digit(n, 3))
<1>1. HasDigits(n, Digit(n, 0), Digit(n, 1), Digit(n, 2), Digit(n, 3))
  BY DigitsOf, Zenon
<1> QED
  BY <1>1, BcdOfDigits

-----------------------------------------------------------------------------
(*************************************************************************)
(* The fields of a white label: what can be read of one value, and where *)
(* wl_do_fields has put the values and the words of the strings after    *)
(* each of the fields.                                                   *)
(*************************************************************************)

(* What can be read of a value that says where a string is and how long. *)
StringValue(n, at, chars, u) ==
    /\ at \in Nat /\ at < 256 /\ chars \in Nat /\ chars < 128 /\ u \in {0, 128}
    /\ n = (at * 256) + (chars % 128) + u
LEMMA StringBits ==
  ASSUME NEW n, NEW at, NEW chars, NEW u, StringValue(n, at, chars, u),
         NEW entry, entry = BitsOf(Low(n)) \intersect (0..15)
  PROVE  /\ {b - 8 : b \in entry \intersect (8..15)} = BitsOf(at)
         /\ entry \intersect (0..6) = BitsOf(chars)
<1> DEFINE c == chars + u
<1>1. /\ at \in Nat /\ at < 256 /\ chars \in Nat /\ chars < 128 /\ u \in {0, 128}
      /\ n = (256 * at) + c /\ c \in Nat /\ c < 256 /\ n \in Nat /\ n < 65536
  BY DEF StringValue
<1>2. Low(n) = n
  <2>1. n % 65536 = n
    BY ONLY <1>1
  <2> QED
    BY ONLY <2>1 DEF Low
<1>3. 2^8 = 256 /\ 2^7 = 128
  BY ONLY Powers
<1>4. BitsOf(c) \subseteq 0..7 /\ BitsOf(n) = BitsOf(c) \union (ShiftedUp(BitsOf(at), 8) \intersect Bits)
  <2> HIDE DEF c
  <2>1. 8 \in 0..23 /\ at \in Nat /\ c \in 0..(2^8 - 1) /\ n = (2^8 * at) + c /\ 8 - 1 = 7
    BY <1>1, <1>3
  <2>2. /\ BitsOf(c) \subseteq 0..(8 - 1)
        /\ BitsOf(n) = BitsOf(c) \union (ShiftedUp(BitsOf(at), 8) \intersect Bits)
    BY <2>1, BitsOfSum, Zenon
  <2> QED
    BY ONLY <2>1, <2>2
<1>5. BitsOf(at) \subseteq 0..7
  <2>1. 8 \in 0..23 /\ 0 \in Nat /\ at \in 0..(2^8 - 1) /\ at = (2^8 * 0) + at /\ 8 - 1 = 7
    BY <1>1, <1>3
  <2>2. BitsOf(at) \subseteq 0..(8 - 1)
    BY <2>1, BitsOfSum, Zenon
  <2> QED
    BY ONLY <2>1, <2>2
<1>6. BitsOf(chars) \subseteq 0..6 /\ BitsOf(c) \intersect (0..6) = BitsOf(chars)
  <2>1. 7 \in 0..23 /\ chars \in 0..(2^7 - 1) /\ chars = (2^7 * 0) + chars /\ 7 - 1 = 6
    BY <1>1, <1>3
  <2>2. BitsOf(chars) \subseteq 0..6
    <3>1. BitsOf(chars) \subseteq 0..(7 - 1)
      BY <2>1, BitsOfSum, 0 \in Nat, Zenon
    <3> QED
      BY ONLY <2>1, <3>1
  <2>3. CASE u = 0
    <3>1. c = chars
      BY <1>1, <2>3
    <3> HIDE DEF c
    <3> QED
      BY ONLY <2>2, <3>1
  <2>4. CASE u = 128
    <3>1. c = (2^7 * 1) + chars /\ 1 \in Nat
      BY <1>1, <1>3, <2>4
    <3> HIDE DEF c
    <3>2. BitsOf(c) = BitsOf(chars) \union (ShiftedUp(BitsOf(1), 7) \intersect Bits)
      BY <2>1, <3>1, BitsOfSum, Zenon
    <3>3. \A b \in ShiftedUp(BitsOf(1), 7) : b \notin 0..6
      BY DEF ShiftedUp, BitsOf, Bits
    <3> QED
      BY ONLY <2>2, <3>2, <3>3
  <2> QED
    BY <2>3, <2>4 DEF StringValue
<1> HIDE DEF c
<1>7. entry = BitsOf(c) \union ShiftedUp(BitsOf(at), 8)
  <2>1. ShiftedUp(BitsOf(at), 8) \subseteq 8..15
    BY ONLY <1>5 DEF ShiftedUp
  <2> QED
    BY ONLY <1>2, <1>4, <2>1, entry = BitsOf(Low(n)) \intersect (0..15) DEF Bits
<1>8. \A b \in BitsOf(at) : b \in 0..7 /\ (b + 8) - 8 = b /\ b + 8 \in 8..15
  BY <1>5
<1>9. entry \intersect (8..15) = ShiftedUp(BitsOf(at), 8)
  <2>1. ShiftedUp(BitsOf(at), 8) \subseteq 8..15
    BY ONLY <1>5 DEF ShiftedUp
  <2> QED
    BY ONLY <1>4, <1>7, <2>1
<1>10. {b - 8 : b \in ShiftedUp(BitsOf(at), 8)} = BitsOf(at)
  BY ONLY <1>8 DEF ShiftedUp
<1>11. entry \intersect (0..6) = BitsOf(chars)
  <2>1. ShiftedUp(BitsOf(at), 8) \subseteq 8..15
    BY ONLY <1>5 DEF ShiftedUp
  <2> QED
    BY ONLY <1>6, <1>7, <2>1
<1> QED
  BY ONLY <1>9, <1>10, <1>11

(* What can be read of a revision. *)
LEMMA DigitBits ==
  ASSUME NEW n, Revision(n)
  PROVE  BitsOf(Low(get_json_bcd(n))) \intersect (0..15) =
           UNION {ShiftedUp(BitsOf((n \div 10^k) % 10), 4 * k) : k \in 0..3}
<1> DEFINE a == Digit(n, 0)
           b == Digit(n, 1)
           c == Digit(n, 2)
           d == Digit(n, 3)
           p == (16 * d) + c
           q == (16 * p) + b
           m == (16 * q) + a
<1>1. a \in 0..9 /\ b \in 0..9 /\ c \in 0..9 /\ d \in 0..9
  <2>1. HasDigits(n, Digit(n, 0), Digit(n, 1), Digit(n, 2), Digit(n, 3))
    BY DigitsOf, Zenon
  <2> QED
    BY <2>1 DEF HasDigits
<1>2. get_json_bcd(n) = a + (16 * b) + (256 * c) + (4096 * d)
  BY BcdOf
<1>3. UNION {ShiftedUp(BitsOf((n \div 10^k) % 10), 4 * k) : k \in 0..3} =
        UNION {ShiftedUp(BitsOf(Digit(n, k)), 4 * k) : k \in 0..3}
  BY Zenon DEF Digit
<1> HIDE DEF a, b, c, d
<1>4. m = a + (16 * b) + (256 * c) + (4096 * d) /\ m \in Nat /\ m < 65536 /\ q \in Nat /\ p \in Nat
  BY <1>1
<1>n. q \in Nat /\ p \in Nat
  BY <1>4
<1>5. p = (16 * d) + c /\ q = (16 * p) + b /\ m = (16 * q) + a
  OBVIOUS
<1> HIDE DEF p, q, m
<1>6. Low(m) = m /\ get_json_bcd(n) = m
  BY <1>2, <1>4 DEF Low
<1>7. ASSUME NEW x \in Nat, NEW y \in 0..9
      PROVE  /\ BitsOf(y) \subseteq 0..3
             /\ BitsOf((16 * x) + y) = BitsOf(y) \union (ShiftedUp(BitsOf(x), 4) \intersect Bits)
  <2>1. 4 \in 0..23 /\ 2^4 = 16 /\ 4 - 1 = 3
    BY ONLY Powers
  <2>2. y \in 0..(2^4 - 1) /\ (16 * x) + y = (2^4 * x) + y
    BY <2>1
  <2>3. /\ BitsOf(y) \subseteq 0..(4 - 1)
        /\ BitsOf((16 * x) + y) = BitsOf(y) \union (ShiftedUp(BitsOf(x), 4) \intersect Bits)
    BY <2>1, <2>2, BitsOfSum, Zenon
  <2> QED
    BY ONLY <2>1, <2>3
<1>8. /\ BitsOf(a) \subseteq 0..3 /\ BitsOf(b) \subseteq 0..3
      /\ BitsOf(c) \subseteq 0..3 /\ BitsOf(d) \subseteq 0..3
  BY <1>1, <1>7, 0 \in Nat
<1>9. BitsOf(p) = BitsOf(c) \union ShiftedUp(BitsOf(d), 4) /\ BitsOf(p) \subseteq 0..7
  <2>1. BitsOf(p) = BitsOf(c) \union (ShiftedUp(BitsOf(d), 4) \intersect Bits)
    BY <1>1, <1>5, <1>7, d \in Nat
  <2>2. ShiftedUp(BitsOf(d), 4) \subseteq 4..7
    BY ONLY <1>8 DEF ShiftedUp
  <2> QED
    BY ONLY <1>8, <2>1, <2>2 DEF Bits
<1>10. BitsOf(q) = BitsOf(b) \union ShiftedUp(BitsOf(p), 4) /\ BitsOf(q) \subseteq 0..11
  <2>1. BitsOf(q) = BitsOf(b) \union (ShiftedUp(BitsOf(p), 4) \intersect Bits)
    <3>1. BitsOf((16 * p) + b) = BitsOf(b) \union (ShiftedUp(BitsOf(p), 4) \intersect Bits)
      BY ONLY <1>1, <1>7, <1>n, Zenon
    <3> QED
      BY ONLY <1>5, <3>1, Zenon
  <2>2. ShiftedUp(BitsOf(p), 4) \subseteq 4..11
    BY ONLY <1>9 DEF ShiftedUp
  <2> QED
    BY ONLY <1>8, <2>1, <2>2 DEF Bits
<1>11. BitsOf(m) = BitsOf(a) \union ShiftedUp(BitsOf(q), 4) /\ BitsOf(m) \subseteq 0..15
  <2>1. BitsOf(m) = BitsOf(a) \union (ShiftedUp(BitsOf(q), 4) \intersect Bits)
    <3>1. BitsOf((16 * q) + a) = BitsOf(a) \union (ShiftedUp(BitsOf(q), 4) \intersect Bits)
      BY ONLY <1>1, <1>7, <1>n, Zenon
    <3> QED
      BY ONLY <1>5, <3>1, Zenon
  <2>2. ShiftedUp(BitsOf(q), 4) \subseteq 4..15
    BY ONLY <1>10 DEF ShiftedUp
  <2> QED
    BY ONLY <1>8, <2>1, <2>2 DEF Bits
<1>12. \A x, y, k : ShiftedUp(x \union y, k) = ShiftedUp(x, k) \union ShiftedUp(y, k)
  BY DEF ShiftedUp
<1>13. ASSUME NEW x \in SUBSET Int, NEW j \in Int, NEW k \in Int
       PROVE  ShiftedUp(ShiftedUp(x, j), k) = ShiftedUp(x, j + k)
  <2>1. \A y \in x : (y + j) + k = y + (j + k)
    BY <1>13
  <2>2. ShiftedUp(ShiftedUp(x, j), k) = {(y + j) + k : y \in x}
    BY ONLY Zenon DEF ShiftedUp
  <2> QED
    BY ONLY <2>1, <2>2, Zenon DEF ShiftedUp
<1>14. /\ BitsOf(d) \in SUBSET Int /\ BitsOf(c) \in SUBSET Int
  BY <1>8
<1>15. ShiftedUp(BitsOf(p), 4) = ShiftedUp(BitsOf(c), 4) \union ShiftedUp(BitsOf(d), 8)
  <2>1. ShiftedUp(ShiftedUp(BitsOf(d), 4), 4) = ShiftedUp(BitsOf(d), 8)
    BY <1>13, <1>14, 4 + 4 = 8
  <2> QED
    BY ONLY <1>9, <1>12, <2>1
<1>16. ShiftedUp(BitsOf(q), 4) =
         ShiftedUp(BitsOf(b), 4) \union (ShiftedUp(BitsOf(c), 8) \union ShiftedUp(BitsOf(d), 12))
  <2>1. ShiftedUp(ShiftedUp(BitsOf(d), 8), 4) = ShiftedUp(BitsOf(d), 12)
    BY <1>13, <1>14, 8 + 4 = 12
  <2>2. ShiftedUp(ShiftedUp(BitsOf(c), 4), 4) = ShiftedUp(BitsOf(c), 8)
    BY <1>13, <1>14, 4 + 4 = 8
  <2> QED
    BY ONLY <1>10, <1>12, <1>15, <2>1, <2>2
<1>17. UNION {ShiftedUp(BitsOf(Digit(n, k)), 4 * k) : k \in 0..3} =
         ShiftedUp(BitsOf(a), 0) \union ShiftedUp(BitsOf(b), 4)
           \union (ShiftedUp(BitsOf(c), 8) \union ShiftedUp(BitsOf(d), 12))
  <2> DEFINE F(k) == ShiftedUp(BitsOf(Digit(n, k)), 4 * k)
  <2>1. \A k \in 0..3 : k = 0 \/ k = 1 \/ k = 2 \/ k = 3
    OBVIOUS
  <2>2. 0 \in 0..3 /\ 1 \in 0..3 /\ 2 \in 0..3 /\ 3 \in 0..3
    OBVIOUS
  <2>3. F(0) = ShiftedUp(BitsOf(a), 0) /\ F(1) = ShiftedUp(BitsOf(b), 4)
        /\ F(2) = ShiftedUp(BitsOf(c), 8) /\ F(3) = ShiftedUp(BitsOf(d), 12)
    BY 4 * 0 = 0, 4 * 1 = 4, 4 * 2 = 8, 4 * 3 = 12 DEF a, b, c, d
  <2> HIDE DEF F
  <2>4. UNION {F(k) : k \in 0..3} = F(0) \union F(1) \union (F(2) \union F(3))
    BY ONLY <2>1, <2>2, Zenon
  <2>5. UNION {F(k) : k \in 0..3} = UNION {ShiftedUp(BitsOf(Digit(n, k)), 4 * k) : k \in 0..3}
    BY DEF F
  <2> QED
    BY ONLY <2>3, <2>4, <2>5
<1>18. ShiftedUp(BitsOf(a), 0) = BitsOf(a)
  <2>1. \A x \in BitsOf(a) : x + 0 = x
    BY <1>8
  <2> QED
    BY <2>1 DEF ShiftedUp
<1>19. BitsOf(m) \intersect (0..15) = BitsOf(m)
  BY ONLY <1>11
<1> QED
  BY ONLY <1>3, <1>6, <1>11, <1>16, <1>17, <1>18, <1>19, Zenon

(* The fields of a white label, and the values that they are given. *)
LabelFields ==
    [kind : {"absent"}] \union [kind : {"value"}, value : Nat]
      \union [kind : {"bcd"}, hundredths : {n \in Nat : Revision(n)}]
      \union [kind : {"strdef"}, chars : {n \in Nat : n < 128}, unicode : BOOLEAN, words : Seq(Nat)]
LabelStates == [next : Nat, data : Seq(Nat), flags : SUBSET Int]
Strdef(at, f) == (at * 256) + (f.chars % 128) + (IF f.unicode THEN 128 ELSE 0)
FieldAt(data, f, i) ==
    /\ f.kind = "bcd" => data[i] = Low(get_json_bcd(f.hundredths))
    /\ f.kind = "strdef" =>
          \E at \in Nat :
              /\ WlFields <= at /\ at + Len(f.words) <= Len(data) /\ data[i] = Low(Strdef(at, f))
              /\ \A j \in 1..Len(f.words) : data[at + j] = f.words[j]
FilledUpTo(st, fields, k) ==
    /\ st \in LabelStates /\ st.next = k + 1 /\ WlFields <= Len(st.data)
    /\ \A i \in 1..k : FieldAt(st.data, fields[i], i)

LEMMA LabelIsFold ==
  ASSUME NEW w
  PROVE  wl_do_fields(w) =
           (CHOOSE iter : iter = [s \in SUBSET (DOMAIN w.fields) |->
              IF s = {} THEN WlStart
              ELSE WlField(iter[s \ {Max(s)}], w.fields[Max(s)])])[DOMAIN w.fields]
  BY Zenon DEF wl_do_fields, FoldLeft, MapThenFoldSet

LEMMA FieldKinds ==
  ASSUME NEW f \in LabelFields
  PROVE  \/ f.kind = "absent"
         \/ f.kind = "value" /\ f.value \in Nat
         \/ f.kind = "bcd" /\ Revision(f.hundredths)
         \/ /\ f.kind = "strdef" /\ f.chars \in Nat /\ f.chars < 128
            /\ f.unicode \in BOOLEAN /\ f.words \in Seq(Nat)
  BY DEF LabelFields

(* The value that a field is given. *)
FieldValue(st, f) ==
    CASE f.kind = "value" -> Low(f.value)
      [] f.kind = "bcd" -> Low(get_json_bcd(f.hundredths))
      [] f.kind = "strdef" -> Low(Strdef(Len(st.data), f))
FieldWords(f) == IF f.kind = "strdef" THEN f.words ELSE <<>>

LEMMA FieldValueType ==
  ASSUME NEW st \in LabelStates, NEW f \in LabelFields, f.kind # "absent"
  PROVE  FieldValue(st, f) \in Nat /\ FieldWords(f) \in Seq(Nat)
<1>1. st.data \in Seq(Nat) /\ Len(st.data) \in Nat
  BY DEF LabelStates
<1>2. \A x \in Nat : Low(x) \in Nat
  BY DEF Low
<1>3. CASE f.kind = "value"
  BY <1>2, <1>3, FieldKinds DEF FieldValue, FieldWords
<1>4. CASE f.kind = "bcd"
  <2>1. Revision(f.hundredths)
    BY <1>4, FieldKinds
  <2>2. get_json_bcd(f.hundredths) \in Nat
    <3>n. PICK n : n = f.hundredths
      OBVIOUS
    <3>1. HasDigits(n, Digit(n, 0), Digit(n, 1), Digit(n, 2), Digit(n, 3))
      BY <2>1, <3>n, DigitsOf, Zenon
    <3>2. get_json_bcd(n) = Digit(n, 0) + (16 * Digit(n, 1)) + (256 * Digit(n, 2)) + (4096 * Digit(n, 3))
      BY <2>1, <3>n, BcdOf
    <3>3. /\ Digit(n, 0) \in Nat /\ Digit(n, 1) \in Nat
          /\ Digit(n, 2) \in Nat /\ Digit(n, 3) \in Nat
      BY ONLY <3>1 DEF HasDigits
    <3>4. \A a, b, c, d \in Nat : a + (16 * b) + (256 * c) + (4096 * d) \in Nat
      OBVIOUS
    <3>5. get_json_bcd(n) \in Nat
      BY ONLY <3>2, <3>3, <3>4
    <3> QED
      BY ONLY <3>n, <3>5, Zenon
  <2> QED
    BY <1>2, <1>4, <2>2 DEF FieldValue, FieldWords
<1>5. CASE f.kind = "strdef"
  <2>1. f.chars \in Nat /\ f.unicode \in BOOLEAN /\ f.words \in Seq(Nat)
    BY <1>5, FieldKinds
  <2>2. Strdef(Len(st.data), f) \in Nat
    BY <1>1, <2>1 DEF Strdef
  <2>3. FieldValue(st, f) = Low(Strdef(Len(st.data), f))
    BY <1>5 DEF FieldValue
  <2> QED
    BY <1>2, <1>5, <2>1, <2>2, <2>3 DEF FieldWords
<1> QED
  BY <1>3, <1>4, <1>5, FieldKinds

LEMMA WlFieldIs ==
  ASSUME NEW st \in LabelStates, NEW f \in LabelFields
  PROVE  /\ f.kind = "absent" => WlField(st, f) = [st EXCEPT !.next = st.next + 1]
         /\ f.kind # "absent" =>
              WlField(st, f) =
                [next |-> st.next + 1,
                 data |-> [st.data EXCEPT ![st.next] = FieldValue(st, f)] \o FieldWords(f),
                 flags |-> st.flags \union {st.next - 1}]
<1>1. st.data \in Seq(Nat) /\ st.next \in Nat
  BY DEF LabelStates
<1>2. CASE f.kind = "absent"
  BY <1>2 DEF WlField
<1>3. ASSUME f.kind # "absent"
      PROVE  [st.data EXCEPT ![st.next] = FieldValue(st, f)] \in Seq(Nat)
  <2>1. FieldValue(st, f) \in Nat
    BY <1>3, FieldValueType
  <2>2. CASE st.next \in 1..Len(st.data)
    BY <1>1, <2>1, <2>2, ExceptSeq
  <2>3. CASE st.next \notin 1..Len(st.data)
    <3>1. [st.data EXCEPT ![st.next] = FieldValue(st, f)] = st.data
      BY <1>1, <2>3
    <3> QED
      BY <1>1, <3>1
  <2> QED
    BY <2>2, <2>3
<1>4. \A s \in Seq(Nat) : s \o <<>> = s
  OBVIOUS
<1>5. CASE f.kind = "value"
  <2>1. FieldValue(st, f) = Low(f.value) /\ FieldWords(f) = <<>>
    BY <1>5 DEF FieldValue, FieldWords
  <2>2. WlField(st, f) = [next |-> st.next + 1, data |-> [st.data EXCEPT ![st.next] = Low(f.value)],
                          flags |-> st.flags \union {st.next - 1}]
    BY <1>5 DEF WlField
  <2> QED
    BY <1>3, <1>4, <1>5, <2>1, <2>2
<1>6. CASE f.kind = "bcd"
  <2>1. FieldValue(st, f) = Low(get_json_bcd(f.hundredths)) /\ FieldWords(f) = <<>>
    BY <1>6 DEF FieldValue, FieldWords
  <2>2. WlField(st, f) = [next |-> st.next + 1,
                          data |-> [st.data EXCEPT ![st.next] = Low(get_json_bcd(f.hundredths))],
                          flags |-> st.flags \union {st.next - 1}]
    BY <1>6 DEF WlField
  <2> QED
    BY <1>3, <1>4, <1>6, <2>1, <2>2
<1>7. CASE f.kind = "strdef"
  <2>1. FieldValue(st, f) = Low(Strdef(Len(st.data), f)) /\ FieldWords(f) = f.words
    BY <1>7 DEF FieldValue, FieldWords
  <2>2. WlField(st, f) = [next |-> st.next + 1,
                          data |-> [st.data EXCEPT ![st.next] = Low(Strdef(Len(st.data), f))] \o f.words,
                          flags |-> st.flags \union {st.next - 1}]
    BY <1>7 DEF WlField, Strdef
  <2> QED
    BY <1>7, <2>1, <2>2
<1> QED
  BY <1>2, <1>5, <1>6, <1>7, FieldKinds

(* The data after a field, and where its words are. *)
Extended(data, st, f) ==
    /\ data \in Seq(Nat) /\ Len(data) = Len(st.data) + Len(FieldWords(f))
    /\ \A j \in 1..Len(st.data) :
          data[j] = IF j = st.next THEN FieldValue(st, f) ELSE st.data[j]
    /\ \A j \in 1..Len(FieldWords(f)) : data[Len(st.data) + j] = FieldWords(f)[j]

LEMMA FieldData ==
  ASSUME NEW st \in LabelStates, NEW f \in LabelFields, f.kind # "absent",
         NEW data, data = WlField(st, f).data
  PROVE  Extended(data, st, f)
<1> DEFINE old == [st.data EXCEPT ![st.next] = FieldValue(st, f)]
<1>1. st.data \in Seq(Nat) /\ st.next \in Nat
  BY DEF LabelStates
<1>2. FieldValue(st, f) \in Nat /\ FieldWords(f) \in Seq(Nat)
  BY FieldValueType
<1>3. /\ old \in Seq(Nat) /\ Len(old) = Len(st.data)
      /\ \A j \in 1..Len(st.data) : old[j] = IF j = st.next THEN FieldValue(st, f) ELSE st.data[j]
  <2>1. CASE st.next \in 1..Len(st.data)
    BY <1>1, <1>2, <2>1, ExceptSeq
  <2>2. CASE st.next \notin 1..Len(st.data)
    <3>1. old = st.data
      BY <1>1, <2>2
    <3> QED
      BY <1>1, <2>2, <3>1
  <2> QED
    BY <2>1, <2>2
<1>4. data = old \o FieldWords(f)
  BY WlFieldIs
<1> HIDE DEF old
<1>5. /\ data \in Seq(Nat) /\ Len(data) = Len(old) + Len(FieldWords(f))
      /\ \A j \in 1..(Len(old) + Len(FieldWords(f))) :
            data[j] = IF j <= Len(old) THEN old[j] ELSE FieldWords(f)[j - Len(old)]
  <2>w. PICK words \in Seq(Nat) : words = FieldWords(f)
    BY <1>2
  <2>o. PICK first \in Seq(Nat) : first = old
    BY <1>3
  <2>1. /\ first \o words \in Seq(Nat) /\ Len(first \o words) = Len(first) + Len(words)
        /\ \A j \in 1..(Len(first) + Len(words)) :
              (first \o words)[j] = IF j <= Len(first) THEN first[j] ELSE words[j - Len(first)]
    BY ConcatProperties, Zenon
  <2>2. data = first \o words
    BY ONLY <1>4, <2>w, <2>o, Zenon
  <2> QED
    BY ONLY <2>w, <2>o, <2>1, <2>2, Zenon
<1>6. ASSUME NEW j \in 1..Len(st.data)
      PROVE  data[j] = IF j = st.next THEN FieldValue(st, f) ELSE st.data[j]
  <2>1. j \in 1..(Len(old) + Len(FieldWords(f))) /\ j <= Len(old)
    BY <1>1, <1>2, <1>3
  <2> QED
    BY ONLY <1>3, <1>5, <2>1, j \in 1..Len(st.data)
<1>7. ASSUME NEW j \in 1..Len(FieldWords(f))
      PROVE  data[Len(st.data) + j] = FieldWords(f)[j]
  <2>n. PICK n : n = Len(st.data)
    OBVIOUS
  <2>1. n + j \in 1..(n + Len(FieldWords(f))) /\ ~(n + j <= n) /\ (n + j) - n = j
    BY <1>1, <1>2, <2>n
  <2>2. Len(old) = n
    BY ONLY <1>3, <2>n
  <2>3. data[n + j] = IF n + j <= n THEN old[n + j] ELSE FieldWords(f)[(n + j) - n]
    BY ONLY <1>5, <2>1, <2>2
  <2>4. data[n + j] = FieldWords(f)[j]
    BY ONLY <2>1, <2>3
  <2> QED
    BY ONLY <2>4, <2>n, Zenon
<1> QED
  BY ONLY <1>3, <1>5, <1>6, <1>7 DEF Extended

LEMMA WlFieldType ==
  ASSUME NEW st \in LabelStates, NEW f \in LabelFields
  PROVE  WlField(st, f) \in LabelStates /\ WlField(st, f).next = st.next + 1
<1>1. st.next \in Nat /\ st.data \in Seq(Nat) /\ st.flags \in SUBSET Int
  BY DEF LabelStates
<1>2. CASE f.kind = "absent"
  <2>1. WlField(st, f) = [st EXCEPT !.next = st.next + 1]
    BY <1>2, WlFieldIs
  <2>2. st.next + 1 \in Nat
    BY ONLY <1>1
  <2>3. \A e \in Nat : [st EXCEPT !.next = e] \in LabelStates /\ [st EXCEPT !.next = e].next = e
    BY ONLY st \in LabelStates DEF LabelStates
  <2> QED
    BY ONLY <2>1, <2>2, <2>3
<1>3. CASE f.kind # "absent"
  <2>1. WlField(st, f) =
          [next |-> st.next + 1,
           data |-> [st.data EXCEPT ![st.next] = FieldValue(st, f)] \o FieldWords(f),
           flags |-> st.flags \union {st.next - 1}]
    BY <1>3, WlFieldIs
  <2>2. WlField(st, f).data \in Seq(Nat)
    BY <1>3, FieldData DEF Extended
  <2>3. st.flags \union {st.next - 1} \in SUBSET Int /\ st.next + 1 \in Nat
    BY <1>1
  <2> QED
    BY <2>1, <2>2, <2>3 DEF LabelStates
<1> QED
  BY <1>2, <1>3

(* One more field: those before it keep their values, and these lie before all strings. *)
LEMMA FieldFilled ==
  ASSUME NEW fields \in Seq(LabelFields), NEW k \in 0..(Len(fields) - 1), Len(fields) <= WlFields,
         NEW st, FilledUpTo(st, fields, k)
  PROVE  FilledUpTo(WlField(st, fields[k + 1]), fields, k + 1)
<1>f. PICK f : f = fields[k + 1]
  OBVIOUS
<1>n. PICK new : new = WlField(st, f)
  OBVIOUS
<1>1. /\ k \in Nat /\ k + 1 \in 1..Len(fields) /\ WlFields \in Nat /\ k + 1 <= WlFields
      /\ Len(fields) \in Nat
  BY RowsAssumption
<1>2. /\ st \in LabelStates /\ st.next = k + 1 /\ WlFields <= Len(st.data)
      /\ \A i \in 1..k : FieldAt(st.data, fields[i], i)
  BY DEF FilledUpTo
<1>3. st.data \in Seq(Nat) /\ Len(st.data) \in Nat /\ k + 1 \in 1..Len(st.data)
  BY <1>1, <1>2 DEF LabelStates
<1>4. f \in LabelFields /\ \A i \in 1..k : fields[i] \in LabelFields
  <2>1. \A i \in 1..Len(fields) : fields[i] \in LabelFields
    BY ElementOfSeq
  <2> QED
    BY <1>1, <1>f, <2>1
<1>5. new \in LabelStates /\ new.next = (k + 1) + 1
  BY <1>2, <1>4, <1>n, WlFieldType
<1>6. CASE f.kind = "absent"
  <2>1. new.data = st.data
    BY <1>2, <1>4, <1>6, <1>n, WlFieldIs DEF LabelStates
  <2>2. FieldAt(new.data, f, k + 1)
    BY <1>6 DEF FieldAt
  <2>3. \A i \in 1..(k + 1) : i \in 1..k \/ i = k + 1
    BY <1>1
  <2>4. \A i \in 1..(k + 1) : FieldAt(new.data, fields[i], i)
    BY <1>2, <1>f, <2>1, <2>2, <2>3
  <2> QED
    BY <1>2, <1>5, <1>f, <1>n, <2>1, <2>4 DEF FilledUpTo
<1>7. CASE f.kind # "absent"
  <2>1. /\ new.data \in Seq(Nat) /\ Len(new.data) = Len(st.data) + Len(FieldWords(f))
        /\ \A j \in 1..Len(st.data) :
              new.data[j] = IF j = k + 1 THEN FieldValue(st, f) ELSE st.data[j]
        /\ \A j \in 1..Len(FieldWords(f)) : new.data[Len(st.data) + j] = FieldWords(f)[j]
    <3>1. f \in LabelFields /\ st \in LabelStates /\ st.next = k + 1 /\ new.data = WlField(st, f).data
      BY <1>2, <1>4, <1>n
    <3>2. Extended(new.data, st, f)
      BY ONLY <1>7, <3>1, FieldData, Zenon
    <3> QED
      BY ONLY <3>1, <3>2 DEF Extended
  <2>2. Len(FieldWords(f)) \in Nat
    BY <1>2, <1>4, <1>7, FieldValueType
  <2>3. FieldAt(new.data, f, k + 1)
    <3>1. new.data[k + 1] = FieldValue(st, f)
      BY <1>3, <2>1
    <3>2. ASSUME f.kind = "bcd" PROVE new.data[k + 1] = Low(get_json_bcd(f.hundredths))
      BY <3>1, <3>2 DEF FieldValue
    <3>3. ASSUME f.kind = "strdef"
          PROVE  \E at \in Nat :
                   /\ WlFields <= at /\ at + Len(f.words) <= Len(new.data)
                   /\ new.data[k + 1] = Low(Strdef(at, f))
                   /\ \A j \in 1..Len(f.words) : new.data[at + j] = f.words[j]
      <4>1. FieldWords(f) = f.words /\ FieldValue(st, f) = Low(Strdef(Len(st.data), f))
        BY <3>3 DEF FieldWords, FieldValue
      <4>2. Len(st.data) + Len(f.words) <= Len(new.data)
        BY <1>3, <2>1, <2>2, <4>1
      <4> WITNESS Len(st.data) \in Nat
      <4> QED
        BY <1>2, <2>1, <3>1, <4>1, <4>2
    <3> QED
      BY <3>2, <3>3 DEF FieldAt
  <2>4. ASSUME NEW i \in 1..k PROVE FieldAt(new.data, fields[i], i)
    <3>1. FieldAt(st.data, fields[i], i)
      BY <1>2
    <3>2. i \in 1..Len(st.data) /\ i # k + 1
      BY <1>1, <1>2, <1>3
    <3>3. new.data[i] = st.data[i]
      BY <2>1, <3>2
    <3>4. ASSUME fields[i].kind = "strdef"
          PROVE  \E at \in Nat :
                   /\ WlFields <= at /\ at + Len(fields[i].words) <= Len(new.data)
                   /\ new.data[i] = Low(Strdef(at, fields[i]))
                   /\ \A j \in 1..Len(fields[i].words) : new.data[at + j] = fields[i].words[j]
      <4>1. PICK at \in Nat :
              /\ WlFields <= at /\ at + Len(fields[i].words) <= Len(st.data)
              /\ st.data[i] = Low(Strdef(at, fields[i]))
              /\ \A j \in 1..Len(fields[i].words) : st.data[at + j] = fields[i].words[j]
        BY <3>1, <3>4 DEF FieldAt
      <4>2. Len(fields[i].words) \in Nat
        <5>1. fields[i].words \in Seq(Nat)
          BY <1>4, <3>4, FieldKinds
        <5> QED
          BY <5>1
      <4>3. ASSUME NEW j \in 1..Len(fields[i].words)
            PROVE  new.data[at + j] = fields[i].words[j]
        <5>1. at + j \in 1..Len(st.data) /\ at + j # k + 1
          <6>1. j \in Nat /\ 1 <= j /\ j <= Len(fields[i].words)
            BY <4>2
          <6>2. WlFields <= at /\ at + Len(fields[i].words) <= Len(st.data)
            BY <4>1, Zenon
          <6>3. k \in Nat /\ WlFields \in Nat /\ k + 1 <= WlFields /\ Len(st.data) \in Nat
            BY <1>1, <1>3, Zenon
          <6> QED
            BY ONLY <4>2, <6>1, <6>2, <6>3, at \in Nat
        <5>2. new.data[at + j] = st.data[at + j]
          BY <2>1, <5>1
        <5> QED
          BY <4>1, <5>2
      <4>4. at + Len(fields[i].words) <= Len(new.data)
        BY <1>3, <2>1, <2>2, <4>1, <4>2
      <4> QED
        BY <3>3, <4>1, <4>3, <4>4
    <3> QED
      BY <3>1, <3>3, <3>4 DEF FieldAt
  <2>5. \A i \in 1..(k + 1) : i \in 1..k \/ i = k + 1
    BY <1>1
  <2>6. \A i \in 1..(k + 1) : FieldAt(new.data, fields[i], i)
    BY <1>f, <2>3, <2>4, <2>5
  <2>7. WlFields <= Len(new.data)
    BY <1>1, <1>2, <1>3, <2>1, <2>2
  <2> QED
    BY <1>5, <1>f, <1>n, <2>6, <2>7 DEF FilledUpTo
<1> QED
  BY <1>6, <1>7

LEMMA LabelFilled ==
  ASSUME NEW w, w.fields \in Seq(LabelFields), Len(w.fields) <= WlFields
  PROVE  FilledUpTo(wl_do_fields(w), w.fields, Len(w.fields))
<1>f. PICK fields \in Seq(LabelFields) : fields = w.fields
  OBVIOUS
<1> DEFINE n == Len(fields)
           V == LabelStates
           op == [x \in (1..n) \X V |-> WlField(x[2], fields[x[1]])]
           Folds(it) == it = [S \in SUBSET (1..n) |->
                               IF S = {} THEN WlStart ELSE WlField(it[S \ {Max(S)}], fields[Max(S)])]
           iter == CHOOSE it : Folds(it)
           K == {k \in 0..n : FilledUpTo(iter[1..k], fields, k)}
<1>1. n \in Nat /\ DOMAIN fields = 1..n /\ n <= WlFields
  BY <1>f
<1>2. \A k \in 1..n : fields[k] \in LabelFields
  BY ElementOfSeq
<1>3. wl_do_fields(w) = iter[1..n]
  <2>1. wl_do_fields(w) =
           (CHOOSE it : it = [s \in SUBSET (DOMAIN fields) |->
              IF s = {} THEN WlStart
              ELSE WlField(it[s \ {Max(s)}], fields[Max(s)])])[DOMAIN fields]
    BY <1>f, LabelIsFold
  <2> HIDE DEF n
  <2> QED
    BY <1>1, <2>1, Zenon
<1>4. WlStart \in V /\ FilledUpTo(WlStart, fields, 0)
  <2>1. WlFields \in Nat /\ WhiteLabelValid \in Int
    BY RowsAssumption DEF Bits
  <2>2. [i \in 1..WlFields |-> 0] \in Seq(Nat) /\ Len([i \in 1..WlFields |-> 0]) = WlFields
    BY <2>1
  <2>3. WlStart \in LabelStates
    BY <2>1, <2>2 DEF WlStart, LabelStates
  <2> QED
    BY <2>1, <2>2, <2>3 DEF FilledUpTo, WlStart
<1> HIDE DEF n, V
<1>5. \A k \in 1..n : \A v \in V : op[<<k, v>>] = WlField(v, fields[k]) /\ WlField(v, fields[k]) \in V
  BY <1>2, WlFieldType DEF V
<1> HIDE DEF op
<1>6. \E it : Folds(it)
  <2>1. PICK it \in [SUBSET (1..n) -> V] : IteratesOver(it, n, WlStart, op)
    <3>1. op \in [(1..n) \X V -> V]
      BY <1>5 DEF op
    <3> QED
      BY <1>1, <1>4, <3>1, FoldExists
  <2>2. ASSUME NEW S \in SUBSET (1..n), S # {}
        PROVE  op[<<Max(S), it[S \ {Max(S)}]>>] = WlField(it[S \ {Max(S)}], fields[Max(S)])
    <3>1. Max(S) \in 1..n
      <4>1. 1 \in Int /\ n \in Int
        BY <1>1
      <4>2. Max(S) \in S
        BY <2>2, <4>1, Largest
      <4> QED
        BY <4>2
    <3>2. S \ {Max(S)} \in SUBSET (1..n)
      OBVIOUS
    <3>3. it[S \ {Max(S)}] \in V
      BY <2>1, <3>2
    <3> QED
      BY <1>5, <3>1, <3>3
  <2>3. Folds(it)
    BY <2>1, <2>2 DEF IteratesOver
  <2> QED
    BY <2>3
<1>7. \A S \in SUBSET (1..n) :
        iter[S] = IF S = {} THEN WlStart ELSE WlField(iter[S \ {Max(S)}], fields[Max(S)])
  <2>1. Folds(iter)
    BY <1>6
  <2> HIDE DEF iter
  <2> QED
    BY <2>1
<1> HIDE DEF iter
<1>8. 0 \in K
  <2>1. 1..0 = {} /\ 1..0 \in SUBSET (1..n)
    OBVIOUS
  <2>2. iter[1..0] = WlStart
    BY <1>7, <2>1
  <2> QED
    BY <1>1, <1>4, <2>2
<1>9. ASSUME NEW k \in 0..(n - 1), k \in K PROVE k + 1 \in K
  <2>1. iter[1..(k + 1)] = WlField(iter[1..k], fields[k + 1])
    <3>1. /\ 1..(k + 1) \in SUBSET (1..n) /\ 1..(k + 1) # {}
          /\ Max(1..(k + 1)) = k + 1 /\ (1..(k + 1)) \ {k + 1} = 1..k
      BY <1>1, Prefix
    <3> QED
      BY <1>7, <3>1
  <2>2. FilledUpTo(iter[1..k], fields, k)
    BY <1>9
  <2>3. FilledUpTo(WlField(iter[1..k], fields[k + 1]), fields, k + 1)
    BY <1>1, <2>2, FieldFilled DEF n
  <2> QED
    BY <1>1, <2>1, <2>3
<1>10. FilledUpTo(iter[1..n], fields, n)
  <2> HIDE DEF K
  <2>1. \A k \in 0..n : k \in K
    BY <1>1, <1>8, <1>9, UpTo
  <2>2. n \in K
    BY <1>1, <2>1
  <2> QED
    BY <2>2 DEF K
<1> QED
  BY <1>3, <1>10, <1>f DEF n

-----------------------------------------------------------------------------
(*************************************************************************)
(* White labels.  A label is written by three writes, and what is on its *)
(* way is the rest of one of them; the flags are of a label that is      *)
(* there.  What was written of a label stays, as the device takes a      *)
(* value with error correction only over itself or over a zero.          *)
(*************************************************************************)

(* The rows of the white labels and their flags; the other commands keep off these. *)
LabelWrites == {StructWrite(w) : w \in WhiteLabels} \union {AddrWrite(w) : w \in WhiteLabels}
RowsOf(x) == Copies(x.wRow, Len(x.data))
LabelRows == UNION {RowsOf(x) : x \in LabelWrites}
FlagRows == Copies(flags_row, otp_regs[flags_row].redundancy)
LabelFlags == {WhiteLabelValid} \union (0..(WlFields - 1))
ValueAt(x, r) == Row(x.bEcc, x.data[r - x.wRow + 1])
KeepsOff(row, n, ecc, bits) ==
    /\ Copies(row, n) \intersect LabelRows = {}
    /\ Copies(row, n) \intersect FlagRows # {} =>
          row = flags_row /\ ~ecc /\ bits \intersect LabelFlags = {}
SetKeepsOff(c) ==
    KeepsOff(c.row, CopyCount(c), SelectEcc(c), IF c.field THEN c.mask ELSE BitsOf(c.value))
WordsBits(words) == UNION {BitsOf(words[i]) : i \in DOMAIN words}
EntryKeepsOff(e) ==
    KeepsOff(e.row, wRowCount(e), bEcc(e),
             IF e.fields # {} THEN FullMask(e.fields) ELSE WordsBits(e.words))
FileKeepsOff(f) ==
    IF f.kind = "json" THEN \A e \in ToSet(f.entries) : EntryKeepsOff(e)
    ELSE KeepsOff(f.row, Len(f.words), f.ecc /\ ~f.raw, WordsBits(f.words))
\* The white label is written by otp white-label only; two labels that would share rows
\* agree on which of these are zero, as the device takes a value over a zero.
OnlyWhiteLabels ==
    /\ FlagRows # {} /\ FlagRows \subseteq Rows /\ LabelRows \intersect FlagRows = {}
    /\ \A rows \in Programmed, r \in FlagRows : rows[r] \intersect LabelFlags = {}
    /\ \A x, y \in LabelWrites : \A r \in RowsOf(x) \intersect RowsOf(y) :
          ValueAt(x, r) = {} <=> ValueAt(y, r) = {}
    /\ \A c \in Sets : SetKeepsOff(c)
    /\ \A f \in Files : FileKeepsOff(f)
\* A label whose values have room in their rows: places below 256, lengths below 128 and
\* revisions of three or four digits.
PlainLabel(w) ==
    /\ w.fields \in Seq(LabelFields) /\ Len(w.fields) <= WlFields
    /\ Len(wl_do_fields(w).data) < 256

\* The first k rows of a write are in the device; all of a label is.
HeldUpTo(x, k) ==
    \A i \in 1..k :
        x.wRow + i - 1 \in Rows /\ otp[x.wRow + i - 1] = Row(x.bEcc, x.data[i])
Held(x) == HeldUpTo(x, Len(x.data))
LabelHeld(w) == Held(StructWrite(w)) /\ Held(AddrWrite(w))
RestOf(x) ==
    \E k \in 0..Len(x.data) :
        /\ HeldUpTo(x, k) /\ pending.wRow = x.wRow + k /\ pending.bEcc = x.bEcc
        /\ Len(pending.data) = Len(x.data) - k
        /\ \A i \in 1..Len(pending.data) : pending.data[i] = x.data[k + i]
\* Every copy of the flags has only flags that the first one has, and these are of a
\* label that is there.
FlagsOk ==
    /\ \A r \in FlagRows : otp[r] \intersect LabelFlags \subseteq otp[flags_row]
    /\ \/ otp[flags_row] \intersect LabelFlags = {}
       \/ \E w \in WhiteLabels :
             LabelHeld(w) /\ otp[flags_row] \intersect LabelFlags \subseteq wl_do_fields(w).flags
\* The writes of a label are made one after another.
LabelOk ==
    Working /\ job.kind = "white_label" =>
        /\ job \in WhiteLabels
        /\ \/ todo = WlWrites(job) /\ pending.data = <<>>
           \/ todo = <<AddrWrite(job), FlagsWrite(job)>> /\ RestOf(StructWrite(job))
           \/ /\ todo = <<FlagsWrite(job)>> /\ RestOf(AddrWrite(job))
              /\ Held(StructWrite(job))
           \/ todo = <<>> /\ LabelHeld(job) /\ RestOf(FlagsWrite(job))
\* What another command has on its way keeps off the label, and adds no flag.
KeptOff(x) ==
    \A i \in 1..Len(x.data) :
        LET r == x.wRow + i - 1
        IN  /\ r \notin LabelRows
            /\ r \in FlagRows =>
                  ~x.bEcc /\ x.data[i] \intersect LabelFlags \subseteq otp[flags_row]
OthersOk ==
    Working /\ job.kind # "white_label" =>
        KeptOff(pending) /\ (job.kind = "json" => \A e \in ToSet(todo) : EntryKeepsOff(e))
LabelInv == FlagsOk /\ LabelOk /\ OthersOk

(* The three writes of a label, and their rows. *)
LEMMA LabelWriteType ==
  /\ \A x \in LabelWrites : x \in Requests /\ x.bEcc = TRUE
  /\ \A w \in WhiteLabels :
        /\ FlagsWrite(w) \in Requests /\ FlagsWrite(w).bEcc = FALSE
        /\ RowsOf(FlagsWrite(w)) = FlagRows
        /\ \A i \in 1..Len(FlagsWrite(w).data) : FlagsWrite(w).data[i] = wl_do_fields(w).flags
<1>1. ASSUME NEW w \in WhiteLabels
      PROVE  /\ StructWrite(w) \in Requests /\ AddrWrite(w) \in Requests /\ FlagsWrite(w) \in Requests
  <2>1. /\ WlWrites(w) \in Seq(Requests) /\ Len(WlWrites(w)) = 3
        /\ WlWrites(w)[1] = StructWrite(w) /\ WlWrites(w)[2] = AddrWrite(w)
        /\ WlWrites(w)[3] = FlagsWrite(w)
    BY WlWritesType DEF WlWrites
  <2>2. WlWrites(w)[1] \in Requests /\ WlWrites(w)[2] \in Requests /\ WlWrites(w)[3] \in Requests
    <3> DEFINE s == WlWrites(w)
    <3> HIDE DEF s
    <3>1. s \in Seq(Requests) /\ Len(s) = 3
      BY <2>1 DEF s
    <3> QED
      BY <3>1, ElementOfSeq DEF s
  <2> QED
    BY <2>1, <2>2
<1>2. \A w \in WhiteLabels : StructWrite(w).bEcc = TRUE /\ AddrWrite(w).bEcc = TRUE
  BY DEF StructWrite, AddrWrite, Request
<1>3. ASSUME NEW w \in WhiteLabels
      PROVE  /\ FlagsWrite(w).bEcc = FALSE /\ RowsOf(FlagsWrite(w)) = FlagRows
             /\ \A i \in 1..Len(FlagsWrite(w).data) : FlagsWrite(w).data[i] = wl_do_fields(w).flags
  <2>1. otp_regs[flags_row].redundancy \in Nat
    BY RowsAssumption
  <2>2. FlagsWrite(w).data = [i \in 1..otp_regs[flags_row].redundancy |-> wl_do_fields(w).flags]
    BY DEF FlagsWrite, Request
  <2>3. Len(FlagsWrite(w).data) = otp_regs[flags_row].redundancy
    BY <2>1, <2>2
  <2>4. FlagsWrite(w).wRow = flags_row /\ FlagsWrite(w).bEcc = FALSE
    BY DEF FlagsWrite, Request
  <2> QED
    BY <2>1, <2>2, <2>3, <2>4 DEF RowsOf, FlagRows
<1> QED
  BY <1>1, <1>2, <1>3 DEF LabelWrites

LEMMA PlaceInWrite ==
  ASSUME NEW x \in Requests
  PROVE  /\ DOMAIN x.data = 1..Len(x.data) /\ Len(x.data) \in Nat /\ x.wRow \in Int
         /\ \A i \in 1..Len(x.data) :
               /\ x.wRow + i - 1 \in RowsOf(x)
               /\ ValueAt(x, x.wRow + i - 1) = Row(x.bEcc, x.data[i])
<1>1. x.data \in Seq(SUBSET Bits) /\ x.wRow \in Int
  BY DEF Requests
<1>2. ASSUME NEW i \in 1..Len(x.data)
      PROVE  /\ x.wRow + i - 1 \in x.wRow..(x.wRow + Len(x.data) - 1)
             /\ (x.wRow + i - 1) - x.wRow + 1 = i
  BY <1>1
<1> QED
  BY <1>1, <1>2 DEF RowsOf, Copies, ValueAt

LEMMA HeldIsHeldBy ==
  ASSUME NEW x \in Requests, Held(x)
  PROVE  HeldBy(x, otp)
  BY PlaceInWrite DEF HeldBy, HeldUpTo, Held

(* What the device does with the next row. *)
Took(row, want) ==
    /\ row = pending.wRow /\ want = Row(pending.bEcc, pending.data[1]) /\ row \in Rows
    /\ row \in Int /\ otp[row] \subseteq want
    /\ pending.bEcc => otp[row] \in {{}, want}
    /\ otp' = [otp EXCEPT ![row] = want] /\ Len(pending.data) \in Nat \ {0}
    /\ \A r \in Rows : otp'[r] = IF r = row THEN want ELSE otp[r]
    /\ pending'.wRow = row + 1 /\ pending'.bEcc = pending.bEcc
    /\ Len(pending'.data) = Len(pending.data) - 1
    /\ \A i \in 1..(Len(pending.data) - 1) : pending'.data[i] = pending.data[i + 1]
    /\ UNCHANGED <<job, todo, result>>

LEMMA RowTaken ==
  ASSUME ConfinedInv, DeviceWritesRow
  PROVE  Took(pending.wRow, Row(pending.bEcc, pending.data[1]))
<1>1. pending.data \in Seq(SUBSET Bits) /\ pending.data # <<>> /\ pending.wRow \in Int
      /\ otp \in [Rows -> SUBSET Bits] /\ pending.bEcc \in BOOLEAN
  BY DEF ConfinedInv, PendingOk, RowsTyped, Requests, DeviceWritesRow
<1>p. PICK data \in Seq(SUBSET Bits) : data = pending.data
  BY <1>1
<1>2. /\ Len(data) \in Nat \ {0} /\ Head(data) = data[1] /\ Len(Tail(data)) = Len(data) - 1
      /\ \A i \in 1..(Len(data) - 1) : Tail(data)[i] = data[i + 1]
  BY <1>1, <1>p
<1>3. /\ pending.wRow \in Rows
      /\ IF pending.bEcc THEN otp[pending.wRow] \in {{}, Row(pending.bEcc, Head(data))}
         ELSE otp[pending.wRow] \subseteq Row(pending.bEcc, Head(data))
      /\ otp' = [otp EXCEPT ![pending.wRow] = Row(pending.bEcc, Head(data))]
      /\ pending' = Request(pending.wRow + 1, pending.bEcc, Tail(data))
      /\ UNCHANGED <<job, todo, result>>
  BY <1>p DEF DeviceWritesRow, Going
<1>4. \A r \in Rows : otp'[r] = IF r = pending.wRow THEN Row(pending.bEcc, Head(data)) ELSE otp[r]
  BY <1>1, <1>3
<1>5. pending'.wRow = pending.wRow + 1 /\ pending'.bEcc = pending.bEcc /\ pending'.data = Tail(data)
  BY <1>3 DEF Request
<1>6. /\ Row(pending.bEcc, pending.data[1]) = Row(pending.bEcc, Head(data))
      /\ Len(pending.data) \in Nat \ {0} /\ Len(pending'.data) = Len(pending.data) - 1
  BY ONLY <1>2, <1>5, <1>p
<1>7. \A i \in 1..(Len(pending.data) - 1) : pending'.data[i] = pending.data[i + 1]
  BY ONLY <1>2, <1>5, <1>p
<1>8. PICK want : want = Row(pending.bEcc, Head(data))
  OBVIOUS
<1>9. /\ pending.wRow \in Rows /\ pending.wRow \in Int /\ otp[pending.wRow] \subseteq want
      /\ pending.bEcc => otp[pending.wRow] \in {{}, want}
  <2>1. want \subseteq want /\ {} \subseteq want
    OBVIOUS
  <2> QED
    BY ONLY <1>1, <1>3, <1>8, <2>1, Zenon
<1>10. /\ otp' = [otp EXCEPT ![pending.wRow] = want]
       /\ \A r \in Rows : otp'[r] = IF r = pending.wRow THEN want ELSE otp[r]
       /\ UNCHANGED <<job, todo, result>>
  BY ONLY <1>3, <1>4, <1>8, Zenon
<1>11. want = Row(pending.bEcc, pending.data[1])
  BY ONLY <1>6, <1>8, Zenon
<1> QED
  BY ONLY <1>5, <1>6, <1>7, <1>9, <1>10, <1>11, Zenon DEF Took

(* The row that is written next of a write, and how much of it is left then. *)
LEMMA RestRow ==
  ASSUME NEW x \in Requests, NEW row, NEW want, Took(row, want), RestOf(x)
  PROVE  row \in RowsOf(x) /\ want = ValueAt(x, row) /\ pending.bEcc = x.bEcc
<1>1. PICK k \in 0..Len(x.data) :
        /\ pending.wRow = x.wRow + k /\ pending.bEcc = x.bEcc
        /\ Len(pending.data) = Len(x.data) - k
        /\ \A i \in 1..Len(pending.data) : pending.data[i] = x.data[k + i]
  BY DEF RestOf
<1>2. /\ row = pending.wRow /\ want = Row(pending.bEcc, pending.data[1])
      /\ Len(pending.data) \in Nat \ {0}
  BY DEF Took
<1>3. Len(x.data) \in Nat /\ x.wRow \in Int
  BY PlaceInWrite
<1>4. k + 1 \in 1..Len(x.data) /\ 1 \in 1..Len(pending.data) /\ row = x.wRow + (k + 1) - 1
  BY <1>1, <1>2, <1>3
<1>5. pending.data[1] = x.data[k + 1]
  BY <1>1, <1>4
<1> QED
  BY <1>1, <1>2, <1>4, <1>5, PlaceInWrite

LEMMA RestTaken ==
  ASSUME NEW x \in Requests, NEW row, NEW want, Took(row, want), RestOf(x)
  PROVE  RestOf(x)'
<1>1. PICK k \in 0..Len(x.data) :
        /\ HeldUpTo(x, k) /\ pending.wRow = x.wRow + k /\ pending.bEcc = x.bEcc
        /\ Len(pending.data) = Len(x.data) - k
        /\ \A i \in 1..Len(pending.data) : pending.data[i] = x.data[k + i]
  BY DEF RestOf
<1>2. /\ row = pending.wRow /\ want = Row(pending.bEcc, pending.data[1]) /\ row \in Rows
      /\ \A r \in Rows : otp'[r] = IF r = row THEN want ELSE otp[r]
      /\ Len(pending.data) \in Nat \ {0}
      /\ pending'.wRow = row + 1 /\ pending'.bEcc = pending.bEcc
      /\ Len(pending'.data) = Len(pending.data) - 1
      /\ \A i \in 1..(Len(pending.data) - 1) : pending'.data[i] = pending.data[i + 1]
  BY DEF Took
<1>3. Len(x.data) \in Nat /\ x.wRow \in Int /\ k \in Nat
  BY PlaceInWrite
<1>4. k + 1 \in 0..Len(x.data) /\ row = x.wRow + (k + 1) - 1
  <2>1. Len(x.data) - k \in Nat \ {0} /\ row = x.wRow + k
    BY <1>1, <1>2, Zenon
  <2> QED
    BY ONLY <1>3, <2>1
<1>5. want = Row(x.bEcc, x.data[k + 1])
  <2>1. pending.data[1] = x.data[k + 1]
    BY <1>1, <1>2
  <2> QED
    BY <1>1, <1>2, <2>1
<1>6. HeldUpTo(x, k + 1)'
  <2>1. ASSUME NEW i \in 1..(k + 1)
        PROVE  x.wRow + i - 1 \in Rows /\ otp'[x.wRow + i - 1] = Row(x.bEcc, x.data[i])
    <3>1. CASE i = k + 1
      BY <1>2, <1>4, <1>5, <3>1
    <3>2. CASE i # k + 1
      <4>1. i \in 1..k /\ x.wRow + i - 1 # row
        BY <1>3, <1>4, <3>2
      <4> QED
        BY <1>1, <1>2, <4>1 DEF HeldUpTo
    <3> QED
      BY <3>1, <3>2
  <2> QED
    BY <2>1 DEF HeldUpTo
<1>7. /\ pending'.wRow = x.wRow + (k + 1) /\ pending'.bEcc = x.bEcc
      /\ Len(pending'.data) = Len(x.data) - (k + 1)
  <2>1. /\ pending'.wRow = row + 1 /\ row = x.wRow + k /\ pending'.bEcc = x.bEcc
        /\ Len(pending'.data) = (Len(x.data) - k) - 1
    <3>1. pending.wRow = x.wRow + k /\ pending.bEcc = x.bEcc /\ Len(pending.data) = Len(x.data) - k
      BY ONLY <1>1, Zenon
    <3>2. /\ row = pending.wRow /\ pending'.wRow = row + 1 /\ pending'.bEcc = pending.bEcc
          /\ Len(pending'.data) = Len(pending.data) - 1
      BY ONLY <1>2, Zenon
    <3> QED
      BY ONLY <3>1, <3>2, Zenon
  <2> QED
    <3> PICK n : n = Len(x.data)
      OBVIOUS
    <3>1. n \in Nat /\ Len(pending'.data) = (n - k) - 1 /\ Len(x.data) = n
      BY ONLY <1>3, <2>1, n = Len(x.data), Zenon
    <3>2. Len(pending'.data) = n - (k + 1)
      BY ONLY <1>3, <3>1
    <3>3. pending'.wRow = x.wRow + (k + 1)
      BY ONLY <1>3, <2>1
    <3> QED
      BY ONLY <2>1, <3>1, <3>2, <3>3, Zenon
<1>8. \A i \in 1..Len(pending'.data) : pending'.data[i] = x.data[(k + 1) + i]
  <2> SUFFICES ASSUME NEW i \in 1..Len(pending'.data) PROVE pending'.data[i] = x.data[(k + 1) + i]
    OBVIOUS
  <2>1. i \in 1..(Len(pending.data) - 1) /\ i + 1 \in 1..Len(pending.data) /\ k + (i + 1) = (k + 1) + i
    <3>1. Len(pending.data) \in Nat /\ Len(pending'.data) = Len(pending.data) - 1
      BY <1>2, Zenon
    <3> QED
      BY ONLY <1>3, <3>1, i \in 1..Len(pending'.data)
  <2>2. pending'.data[i] = pending.data[i + 1] /\ pending.data[i + 1] = x.data[k + (i + 1)]
    BY ONLY <1>1, <1>2, <2>1
  <2> QED
    BY ONLY <2>1, <2>2
<1> QED
  BY <1>4, <1>6, <1>7, <1>8 DEF RestOf

LEMMA RestBegins ==
  ASSUME NEW x \in Requests, pending' = x
  PROVE  RestOf(x)'
<1>1. Len(x.data) \in Nat /\ x.wRow \in Int
  BY PlaceInWrite
<1>2. 0 \in 0..Len(x.data) /\ x.wRow = x.wRow + 0 /\ Len(x.data) = Len(x.data) - 0
  BY <1>1
<1>3. \A i \in 1..Len(x.data) : x.data[i] = x.data[0 + i]
  BY <1>1
<1>4. HeldUpTo(x, 0)'
  BY DEF HeldUpTo
<1> QED
  BY <1>2, <1>3, <1>4 DEF RestOf

LEMMA RestEnds ==
  ASSUME NEW x \in Requests, RestOf(x), Len(pending.data) = 0
  PROVE  Held(x)
<1>1. PICK k \in 0..Len(x.data) : HeldUpTo(x, k) /\ Len(pending.data) = Len(x.data) - k
  BY DEF RestOf
<1>2. k = Len(x.data)
  BY <1>1, PlaceInWrite
<1> QED
  BY <1>1, <1>2 DEF Held

(* A label that is held stays, when another label is written or what is not of labels. *)
LEMMA HeldKept ==
  ASSUME OnlyWhiteLabels, NEW x \in LabelWrites, NEW k \in 0..Len(x.data), HeldUpTo(x, k),
         NEW row, NEW want, Took(row, want),
         row \notin LabelRows \/ \E y \in LabelWrites : RestOf(y)
  PROVE  HeldUpTo(x, k)'
<1>1. x \in Requests /\ Len(x.data) \in Nat /\ RowsOf(x) \subseteq LabelRows
  BY LabelWriteType, PlaceInWrite DEF LabelRows
<1>2. /\ row \in Rows /\ otp[row] \subseteq want
      /\ pending.bEcc => otp[row] \in {{}, want}
      /\ \A r \in Rows : otp'[r] = IF r = row THEN want ELSE otp[r]
  BY DEF Took
<1>3. ASSUME NEW i \in 1..k
      PROVE  otp'[x.wRow + i - 1] = otp[x.wRow + i - 1]
  <2>r. PICK r : r = x.wRow + i - 1
    OBVIOUS
  <2>1. r \in Rows /\ r \in RowsOf(x) /\ otp[r] = ValueAt(x, r)
    <3>1. i \in 1..Len(x.data)
      BY <1>1
    <3> QED
      BY <1>1, <2>r, <3>1, PlaceInWrite DEF HeldUpTo
  <2>2. CASE r # row
    BY <1>2, <2>1, <2>2, <2>r
  <2>3. CASE r = row
    <3>1. PICK y \in LabelWrites : RestOf(y)
      BY <1>1, <2>1, <2>3
    <3>2. row \in RowsOf(y) /\ want = ValueAt(y, row) /\ pending.bEcc = TRUE
      BY <3>1, RestRow, LabelWriteType
    <3>3. ValueAt(x, r) = {} <=> ValueAt(y, r) = {}
      BY <2>1, <2>3, <3>2 DEF OnlyWhiteLabels
    <3>4. otp[r] = want
      BY <1>2, <2>1, <2>3, <3>2, <3>3
    <3> QED
      BY <1>2, <2>1, <2>3, <2>r, <3>4
  <2> QED
    BY <2>2, <2>3
<1> QED
  BY <1>3 DEF HeldUpTo

LEMMA RowsOfLabel ==
  ASSUME NEW w \in WhiteLabels
  PROVE  /\ StructWrite(w) \in LabelWrites /\ AddrWrite(w) \in LabelWrites
         /\ StructWrite(w) \in Requests /\ AddrWrite(w) \in Requests /\ FlagsWrite(w) \in Requests
         /\ Len(StructWrite(w).data) \in Nat /\ Len(AddrWrite(w).data) \in Nat
  BY LabelWriteType, PlaceInWrite DEF LabelWrites

LEMMA LabelKept ==
  ASSUME OnlyWhiteLabels, NEW w \in WhiteLabels, LabelHeld(w), NEW row, NEW want, Took(row, want),
         row \notin LabelRows \/ \E y \in LabelWrites : RestOf(y)
  PROVE  LabelHeld(w)'
<1>1. /\ StructWrite(w) \in LabelWrites /\ AddrWrite(w) \in LabelWrites
      /\ Len(StructWrite(w).data) \in 0..Len(StructWrite(w).data)
      /\ Len(AddrWrite(w).data) \in 0..Len(AddrWrite(w).data)
  BY RowsOfLabel
<1>2. Held(StructWrite(w))'
  BY <1>1, HeldKept DEF Held, LabelHeld
<1>3. Held(AddrWrite(w))'
  BY <1>1, HeldKept DEF Held, LabelHeld
<1> QED
  BY <1>2, <1>3 DEF LabelHeld

(* A row is written that adds no flag. *)
LEMMA FlagsKept ==
  ASSUME OnlyWhiteLabels, FlagsOk, NEW row, NEW want, Took(row, want),
         row \notin LabelRows \/ \E y \in LabelWrites : RestOf(y),
         row \in FlagRows => want \intersect LabelFlags \subseteq otp[flags_row]
  PROVE  FlagsOk'
<1>1. /\ row \in Rows /\ otp[row] \subseteq want
      /\ \A r \in Rows : otp'[r] = IF r = row THEN want ELSE otp[r]
  BY DEF Took
<1>2. FlagRows \subseteq Rows /\ flags_row \in FlagRows
  <2>1. flags_row \in Int /\ otp_regs[flags_row].redundancy \in Nat
    BY RowsAssumption DEF Rows
  <2>2. FlagRows # {}
    BY DEF OnlyWhiteLabels
  <2>3. flags_row \in FlagRows
    BY <2>1, <2>2 DEF FlagRows, Copies
  <2> QED
    BY <2>3 DEF OnlyWhiteLabels
<1>3. \A r \in FlagRows : otp'[r] \intersect LabelFlags \subseteq otp[flags_row]
  BY <1>1, <1>2 DEF FlagsOk
<1>4. otp[flags_row] \subseteq otp'[flags_row]
  BY <1>1, <1>2
<1>5. otp'[flags_row] \intersect LabelFlags \subseteq otp[flags_row] \intersect LabelFlags
  BY <1>2, <1>3
<1>6. \A w \in WhiteLabels : LabelHeld(w) => LabelHeld(w)'
  BY LabelKept
<1>7. CASE otp[flags_row] \intersect LabelFlags = {}
  BY <1>3, <1>4, <1>5, <1>7 DEF FlagsOk
<1>8. CASE otp[flags_row] \intersect LabelFlags # {}
  <2>1. PICK w \in WhiteLabels :
          LabelHeld(w) /\ otp[flags_row] \intersect LabelFlags \subseteq wl_do_fields(w).flags
    BY <1>8 DEF FlagsOk
  <2>2. LabelHeld(w)' /\ otp'[flags_row] \intersect LabelFlags \subseteq wl_do_fields(w).flags
    BY <1>5, <1>6, <2>1
  <2> QED
    BY <1>3, <1>4, <2>2 DEF FlagsOk
<1> QED
  BY <1>7, <1>8

(* A row is written of the flags of a label that is there. *)
LEMMA FlagsTaken ==
  ASSUME OnlyWhiteLabels, FlagsOk, NEW row, NEW want, Took(row, want),
         NEW w \in WhiteLabels, LabelHeld(w), RestOf(FlagsWrite(w))
  PROVE  FlagsOk' /\ row \notin LabelRows
<1>1. /\ row \in Rows /\ otp[row] \subseteq want /\ row = pending.wRow
      /\ \A r \in Rows : otp'[r] = IF r = row THEN want ELSE otp[r]
  BY DEF Took
<1>2. /\ FlagsWrite(w) \in Requests /\ FlagsWrite(w).bEcc = FALSE
      /\ RowsOf(FlagsWrite(w)) = FlagRows /\ FlagsWrite(w).wRow = flags_row
      /\ \A i \in 1..Len(FlagsWrite(w).data) : FlagsWrite(w).data[i] = wl_do_fields(w).flags
  BY LabelWriteType DEF FlagsWrite, Request
<1>3. row \in FlagRows /\ want = ValueAt(FlagsWrite(w), row)
  BY <1>2, RestRow
<1>4. row \notin LabelRows
  BY <1>3 DEF OnlyWhiteLabels
<1>5. LabelHeld(w)'
  BY <1>4, LabelKept
<1>p. /\ DOMAIN FlagsWrite(w).data = 1..Len(FlagsWrite(w).data) /\ Len(FlagsWrite(w).data) \in Nat
      /\ flags_row \in Int
      /\ \A i \in 1..Len(FlagsWrite(w).data) :
            /\ flags_row + i - 1 \in FlagRows
            /\ ValueAt(FlagsWrite(w), flags_row + i - 1) = Row(FALSE, FlagsWrite(w).data[i])
  BY <1>2, PlaceInWrite
<1>6. want = wl_do_fields(w).flags /\ FlagRows \subseteq Rows /\ flags_row \in FlagRows
  <2>1. row \in flags_row..(flags_row + Len(FlagsWrite(w).data) - 1)
    BY <1>2, <1>3 DEF RowsOf, Copies
  <2>2. row - flags_row + 1 \in 1..Len(FlagsWrite(w).data) /\ 1 \in 1..Len(FlagsWrite(w).data)
        /\ flags_row + 1 - 1 = flags_row
    BY <1>p, <2>1
  <2>3. want = wl_do_fields(w).flags
    BY <1>2, <1>3, <2>2 DEF ValueAt, Row
  <2>4. flags_row \in FlagRows
    BY <1>p, <2>2
  <2> QED
    BY <2>3, <2>4 DEF OnlyWhiteLabels
<1>7. otp'[flags_row] = wl_do_fields(w).flags
  <2>1. CASE row = flags_row
    BY <1>1, <1>6, <2>1
  <2>2. CASE row # flags_row
    <3>1. PICK k \in 0..Len(FlagsWrite(w).data) :
            HeldUpTo(FlagsWrite(w), k) /\ pending.wRow = FlagsWrite(w).wRow + k
      BY DEF RestOf
    <3>2. 1 \in 1..k /\ 1 \in 1..Len(FlagsWrite(w).data) /\ flags_row + 1 - 1 = flags_row
      <4>1. row = flags_row + k
        BY <1>1, <1>2, <3>1
      <4> QED
        BY <1>p, <2>2, <3>1, <4>1
    <3>3. otp[flags_row] = Row(FALSE, FlagsWrite(w).data[1])
      <4>1. otp[FlagsWrite(w).wRow + 1 - 1] = Row(FlagsWrite(w).bEcc, FlagsWrite(w).data[1])
        BY <3>1, <3>2 DEF HeldUpTo
      <4> QED
        BY <1>2, <3>2, <4>1
    <3> QED
      BY <1>1, <1>2, <1>6, <2>2, <3>2, <3>3 DEF Row
  <2> QED
    BY <2>1, <2>2
<1>8. otp[flags_row] \subseteq otp'[flags_row]
  BY <1>1, <1>6
<1>9. \A r \in FlagRows : otp'[r] \intersect LabelFlags \subseteq otp'[flags_row]
  BY <1>1, <1>6, <1>7, <1>8 DEF FlagsOk
<1> QED
  BY <1>4, <1>5, <1>7, <1>9 DEF FlagsOk

(* What a white label still has to write. *)
LEMMA LabelStages ==
  ASSUME LabelInv, Working, job.kind = "white_label"
  PROVE  /\ job \in WhiteLabels /\ FlagsOk
         /\ \/ todo = WlWrites(job) /\ pending.data = <<>>
            \/ todo = <<AddrWrite(job), FlagsWrite(job)>> /\ RestOf(StructWrite(job))
            \/ /\ todo = <<FlagsWrite(job)>> /\ RestOf(AddrWrite(job))
               /\ Held(StructWrite(job))
            \/ todo = <<>> /\ LabelHeld(job) /\ RestOf(FlagsWrite(job))
  BY DEF LabelInv, LabelOk

(* The device writes a row of a label, or of another command. *)
LEMMA LabelRowWritten ==
  ASSUME OnlyWhiteLabels, ConfinedInv, LabelInv, DeviceWritesRow, job.kind = "white_label"
  PROVE  LabelInv'
<1> DEFINE row == pending.wRow
           want == Row(pending.bEcc, pending.data[1])
<1>1. Took(row, want)
  BY RowTaken
<1> HIDE DEF row, want
<1>2. Working /\ pending.data # <<>>
  BY DEF DeviceWritesRow
<1>3. UNCHANGED <<job, todo, result>>
  BY <1>1 DEF Took
<1>w. PICK w \in WhiteLabels : w = job
  BY <1>2, LabelStages
<1>4. FlagsOk
  BY <1>2, LabelStages
<1>5. /\ StructWrite(w) \in LabelWrites /\ AddrWrite(w) \in LabelWrites
      /\ StructWrite(w) \in Requests /\ AddrWrite(w) \in Requests /\ FlagsWrite(w) \in Requests
  BY RowsOfLabel
<1>6. OthersOk'
  BY <1>3 DEF OthersOk
<1>7. ASSUME NEW y \in LabelWrites, RestOf(y)
      PROVE  FlagsOk'
  <2>1. row \in LabelRows
    BY <1>1, <1>7, RestRow, LabelWriteType DEF LabelRows
  <2>2. row \notin FlagRows
    BY <2>1 DEF OnlyWhiteLabels
  <2> QED
    BY <1>1, <1>4, <1>7, <2>2, FlagsKept
<1>8. CASE todo = <<AddrWrite(w), FlagsWrite(w)>> /\ RestOf(StructWrite(w))
  <2>1. FlagsOk' /\ RestOf(StructWrite(w))'
    BY <1>1, <1>5, <1>7, <1>8, RestTaken
  <2>2. LabelOk'
    BY <1>3, <1>8, <1>w, <2>1 DEF LabelOk
  <2> QED
    BY <1>6, <2>1, <2>2 DEF LabelInv
<1>9. CASE todo = <<FlagsWrite(w)>> /\ RestOf(AddrWrite(w)) /\ Held(StructWrite(w))
  <2>1. FlagsOk' /\ RestOf(AddrWrite(w))'
    BY <1>1, <1>5, <1>7, <1>9, RestTaken
  <2>2. Held(StructWrite(w))'
    <3>1. Len(StructWrite(w).data) \in 0..Len(StructWrite(w).data)
      BY RowsOfLabel
    <3> QED
      BY <1>1, <1>5, <1>9, <3>1, HeldKept DEF Held
  <2>3. LabelOk'
    BY <1>3, <1>9, <1>w, <2>1, <2>2 DEF LabelOk
  <2> QED
    BY <1>6, <2>1, <2>3 DEF LabelInv
<1>10. CASE todo = <<>> /\ LabelHeld(w) /\ RestOf(FlagsWrite(w))
  <2>1. FlagsOk' /\ row \notin LabelRows
    BY <1>1, <1>4, <1>10, FlagsTaken
  <2>2. LabelHeld(w)' /\ RestOf(FlagsWrite(w))'
    BY <1>1, <1>5, <1>10, <2>1, LabelKept, RestTaken
  <2>3. LabelOk'
    BY <1>3, <1>10, <1>w, <2>2 DEF LabelOk
  <2> QED
    BY <1>6, <2>1, <2>3 DEF LabelInv
<1>11. \/ todo = <<AddrWrite(w), FlagsWrite(w)>> /\ RestOf(StructWrite(w))
       \/ todo = <<FlagsWrite(w)>> /\ RestOf(AddrWrite(w)) /\ Held(StructWrite(w))
       \/ todo = <<>> /\ LabelHeld(w) /\ RestOf(FlagsWrite(w))
  BY <1>2, <1>w, LabelStages
<1> QED
  BY <1>8, <1>9, <1>10, <1>11

LEMMA OtherRowWritten ==
  ASSUME OnlyWhiteLabels, ConfinedInv, LabelInv, DeviceWritesRow, job.kind # "white_label"
  PROVE  LabelInv'
<1> DEFINE row == pending.wRow
           want == Row(pending.bEcc, pending.data[1])
<1>1. Took(row, want) /\ Working
  BY RowTaken DEF DeviceWritesRow
<1>2. /\ Len(pending.data) \in Nat \ {0} /\ row \in Int /\ row \in Rows
      /\ otp[row] \subseteq want
      /\ \A r \in Rows : otp'[r] = IF r = row THEN want ELSE otp[r]
      /\ pending'.wRow = row + 1 /\ pending'.bEcc = pending.bEcc
      /\ Len(pending'.data) = Len(pending.data) - 1
      /\ \A i \in 1..(Len(pending.data) - 1) : pending'.data[i] = pending.data[i + 1]
      /\ UNCHANGED <<job, todo, result>>
  BY <1>1 DEF Took
<1>3. /\ \A i \in 1..Len(pending.data) :
            /\ row + i - 1 \notin LabelRows
            /\ row + i - 1 \in FlagRows =>
                 ~pending.bEcc /\ pending.data[i] \intersect LabelFlags \subseteq otp[flags_row]
      /\ job.kind = "json" => \A e \in ToSet(todo) : EntryKeepsOff(e)
      /\ FlagsOk
  BY <1>1 DEF LabelInv, OthersOk, KeptOff
<1>4. /\ row \notin LabelRows
      /\ row \in FlagRows =>
           ~pending.bEcc /\ pending.data[1] \intersect LabelFlags \subseteq otp[flags_row]
  <2>1. 1 \in 1..Len(pending.data) /\ row + 1 - 1 = row
    BY <1>2
  <2> QED
    BY <1>3, <2>1
<1>5. FlagsOk'
  <2>1. row \in FlagRows => want \intersect LabelFlags \subseteq otp[flags_row]
    BY <1>4 DEF Row
  <2> HIDE DEF row, want
  <2> QED
    BY <1>1, <1>3, <1>4, <2>1, FlagsKept
<1>6. otp[flags_row] \subseteq otp'[flags_row]
  <2>1. flags_row \in Rows
    BY RowsAssumption
  <2> QED
    BY <1>2, <2>1
<1>7. ASSUME NEW i \in 1..Len(pending'.data)
      PROVE  LET r == pending'.wRow + i - 1
             IN  /\ r \notin LabelRows
                 /\ r \in FlagRows =>
                      /\ ~pending'.bEcc
                      /\ pending'.data[i] \intersect LabelFlags \subseteq otp'[flags_row]
  <2>1. /\ i + 1 \in 1..Len(pending.data) /\ i \in 1..(Len(pending.data) - 1)
        /\ pending'.wRow + i - 1 = row + (i + 1) - 1
    <3>1. Len(pending.data) \in Nat /\ Len(pending'.data) = Len(pending.data) - 1
      BY <1>2, Zenon
    <3>2. row \in Int /\ pending'.wRow = row + 1 /\ i \in Int
      BY <1>2
    <3> HIDE DEF row
    <3>3. i + 1 \in 1..Len(pending.data) /\ i \in 1..(Len(pending.data) - 1)
      BY ONLY <3>1, i \in 1..Len(pending'.data)
    <3>4. pending'.wRow + i - 1 = row + (i + 1) - 1
      BY ONLY <3>2
    <3> QED
      BY ONLY <3>3, <3>4
  <2>2. pending'.data[i] = pending.data[i + 1]
    BY <1>2, <2>1, Zenon
  <2> HIDE DEF row
  <2> QED
    BY <1>2, <1>3, <1>6, <2>1, <2>2
<1>8. OthersOk'
  BY <1>2, <1>3, <1>7 DEF OthersOk, KeptOff
<1>9. LabelOk'
  BY <1>2 DEF LabelOk
<1> QED
  BY <1>5, <1>8, <1>9 DEF LabelInv

(* What depends on the rows alone stays while they do. *)
LEMMA HeldSame ==
  ASSUME otp' = otp
  PROVE  /\ FlagsOk' <=> FlagsOk
         /\ \A x : Held(x)' <=> Held(x)
         /\ \A w : LabelHeld(w)' <=> LabelHeld(w)
  BY DEF FlagsOk, LabelHeld, Held, HeldUpTo

(* The next of the three writes of a label begins when the one before is done. *)
LEMMA NextWriteBegins == ConfinedInv /\ LabelInv /\ NextWrite => LabelInv'
<1> SUFFICES ASSUME ConfinedInv, LabelInv, NextWrite PROVE LabelInv'
  OBVIOUS
<1>1. /\ Working /\ job.kind = "white_label" /\ pending.data = <<>> /\ todo # <<>>
      /\ pending' = Head(todo) /\ todo' = Tail(todo) /\ otp' = otp
      /\ UNCHANGED <<job, result>>
  BY DEF NextWrite, Going
<1>w. PICK w \in WhiteLabels : w = job
  BY <1>1, LabelStages
<1>2. FlagsOk' /\ OthersOk'
  BY <1>1, HeldSame DEF OthersOk, LabelInv
<1>3. StructWrite(w) \in Requests /\ AddrWrite(w) \in Requests /\ FlagsWrite(w) \in Requests
  BY RowsOfLabel
<1>4. Len(pending.data) = 0
  BY <1>1
<1>5. CASE todo = WlWrites(w)
  <2>1. Head(todo) = StructWrite(w) /\ Tail(todo) = <<AddrWrite(w), FlagsWrite(w)>>
    BY <1>5 DEF WlWrites
  <2>2. RestOf(StructWrite(w))'
    BY <1>1, <1>3, <2>1, RestBegins
  <2>3. LabelOk'
    BY <1>1, <1>w, <2>1, <2>2 DEF LabelOk
  <2> QED
    BY <1>2, <2>3 DEF LabelInv
<1>6. CASE todo = <<AddrWrite(w), FlagsWrite(w)>> /\ RestOf(StructWrite(w))
  <2>1. Head(todo) = AddrWrite(w) /\ Tail(todo) = <<FlagsWrite(w)>>
    BY <1>6
  <2>2. RestOf(AddrWrite(w))'
    BY <1>1, <1>3, <2>1, RestBegins
  <2>3. Held(StructWrite(w))'
    BY <1>1, <1>3, <1>4, <1>6, RestEnds, HeldSame
  <2>4. LabelOk'
    BY <1>1, <1>w, <2>1, <2>2, <2>3 DEF LabelOk
  <2> QED
    BY <1>2, <2>4 DEF LabelInv
<1>7. CASE todo = <<FlagsWrite(w)>> /\ RestOf(AddrWrite(w)) /\ Held(StructWrite(w))
  <2>1. Head(todo) = FlagsWrite(w) /\ Tail(todo) = <<>>
    BY <1>7
  <2>2. RestOf(FlagsWrite(w))'
    BY <1>1, <1>3, <2>1, RestBegins
  <2>3. LabelHeld(w)
    BY <1>3, <1>4, <1>7, RestEnds DEF LabelHeld
  <2>4. LabelHeld(w)'
    BY <1>1, <2>3, HeldSame
  <2>5. LabelOk'
    BY <1>1, <1>w, <2>1, <2>2, <2>4 DEF LabelOk
  <2> QED
    BY <1>2, <2>5 DEF LabelInv
<1> QED
  BY <1>1, <1>w, <1>5, <1>6, <1>7, LabelStages

(* A write to rows that keep off the label adds only bits that keep off the flags. *)
LEMMA AddsNoFlag ==
  ASSUME NEW row, NEW n, NEW bits, NEW x, KeepsOff(row, n, x.bEcc, bits),
         \A i \in 1..Len(x.data) :
            /\ x.wRow + i - 1 \in Copies(row, n)
            /\ x.data[i] \subseteq bits \union otp[row]
  PROVE  KeptOff(x)
<1> SUFFICES ASSUME NEW i \in 1..Len(x.data)
             PROVE  /\ x.wRow + i - 1 \notin LabelRows
                    /\ x.wRow + i - 1 \in FlagRows =>
                         ~x.bEcc /\ x.data[i] \intersect LabelFlags \subseteq otp[flags_row]
  BY DEF KeptOff
<1>1. x.wRow + i - 1 \in Copies(row, n) /\ x.data[i] \subseteq bits \union otp[row]
  OBVIOUS
<1>2. /\ Copies(row, n) \intersect LabelRows = {}
      /\ Copies(row, n) \intersect FlagRows # {} =>
            row = flags_row /\ ~x.bEcc /\ bits \intersect LabelFlags = {}
  BY DEF KeepsOff
<1> QED
  BY <1>1, <1>2

LEMMA BeginsSame ==
  ASSUME LabelInv, otp' = otp
  PROVE  FlagsOk'
  BY HeldSame DEF LabelInv

LEMMA NoRequestKeptOff == KeptOff(NoRequest) /\ NoRequest.data = <<>>
  BY DEF KeptOff, NoRequest, Request

(* The commands begin. *)
LEMMA SetBegins == OnlyWhiteLabels /\ ConfinedInv /\ LabelInv /\ OtpSet => LabelInv'
<1> SUFFICES ASSUME OnlyWhiteLabels, ConfinedInv, LabelInv, OtpSet PROVE LabelInv'
  OBVIOUS
<1>1. PICK c \in Sets :
        /\ Begin(c)
        /\ pending' = IF Refusal(c, otp[c.row]) = "none" THEN SetWrite(c, otp[c.row])
                      ELSE NoRequest
  BY DEF OtpSet
<1>2. otp' = otp /\ job' = c
  BY <1>1, BeginIs DEF OtpSet
<1>3. c.kind = "set" /\ c.row \in Rows
  BY CommandsAssumption
<1>4. otp[c.row] \in SUBSET Bits
  BY <1>3 DEF ConfinedInv, RowsTyped
<1>5. KeptOff(SetWrite(c, otp[c.row]))
  <2> DEFINE x == SetWrite(c, otp[c.row])
             bits == IF c.field THEN c.mask ELSE BitsOf(c.value)
  <2>1. KeepsOff(c.row, CopyCount(c), SelectEcc(c), bits)
    BY DEF OnlyWhiteLabels, SetKeepsOff
  <2>2. NewValue(c, otp[c.row]) \subseteq bits \union otp[c.row]
    BY DEF NewValue
  <2>3. x.bEcc = SelectEcc(c)
    BY DEF SetWrite, Request
  <2>4. \A i \in 1..Len(x.data) : x.wRow + i - 1 \in Copies(c.row, CopyCount(c))
    <3>1. JobRows(c) = Copies(c.row, CopyCount(c))
      BY <1>3 DEF JobRows, SetRows
    <3> QED
      BY <1>4, <3>1, SetWriteType
  <2>5. \A i \in 1..Len(x.data) : x.data[i] = NewValue(c, otp[c.row])
    <3> DEFINE n == IF SelectEcc(c) THEN 1 ELSE CopyCount(c)
    <3>1. n \in Nat
      <4>1. c.row \in Rows /\ c.copies \in Int
        BY CommandsAssumption
      <4> QED
        BY <4>1, RedundancyType
    <3>2. x.data = [i \in 1..n |-> NewValue(c, otp[c.row])]
      BY DEF SetWrite, Request
    <3> HIDE DEF n, x
    <3> QED
      BY <3>1, <3>2
  <2> HIDE DEF x, bits
  <2>6. KeptOff(x)
    <3>1. KeepsOff(c.row, CopyCount(c), x.bEcc, bits)
      BY ONLY <2>1, <2>3 DEF KeepsOff
    <3>2. \A i \in 1..Len(x.data) :
            /\ x.wRow + i - 1 \in Copies(c.row, CopyCount(c))
            /\ x.data[i] \subseteq bits \union otp[c.row]
      BY ONLY <2>2, <2>4, <2>5
    <3> QED
      BY ONLY <3>1, <3>2, AddsNoFlag
  <2> QED
    BY <2>6 DEF x
<1>6. KeptOff(pending')
  BY <1>1, <1>5, NoRequestKeptOff
<1>7. KeptOff(pending)'
  BY <1>2, <1>6 DEF KeptOff
<1>8. FlagsOk'
  BY <1>2, BeginsSame
<1>9. LabelOk' /\ OthersOk'
  BY <1>2, <1>3, <1>7 DEF LabelOk, OthersOk
<1> QED
  BY <1>8, <1>9 DEF LabelInv

LEMMA JsonBegins == OnlyWhiteLabels /\ LabelInv /\ OtpLoadJson => LabelInv'
<1> SUFFICES ASSUME OnlyWhiteLabels, LabelInv, OtpLoadJson PROVE LabelInv'
  OBVIOUS
<1>1. PICK f \in Files : f.kind = "json" /\ Begin(f) /\ todo' = f.entries
  BY DEF OtpLoadJson
<1>2. otp' = otp /\ job' = f /\ pending' = NoRequest
  BY <1>1, BeginIs DEF OtpLoadJson
<1>3. \A e \in ToSet(f.entries) : EntryKeepsOff(e)
  <2>1. FileKeepsOff(f)
    BY DEF OnlyWhiteLabels
  <2> QED
    BY <1>1, <2>1 DEF FileKeepsOff
<1>4. KeptOff(pending)'
  BY <1>2 DEF KeptOff, NoRequest, Request
<1>5. FlagsOk'
  BY <1>2, BeginsSame
<1>6. LabelOk'
  BY <1>1, <1>2 DEF LabelOk
<1>7. OthersOk'
  BY <1>1, <1>2, <1>3, <1>4 DEF OthersOk
<1> QED
  BY <1>5, <1>6, <1>7 DEF LabelInv

LEMMA BinaryBegins == OnlyWhiteLabels /\ LabelInv /\ OtpLoadBinary => LabelInv'
<1> SUFFICES ASSUME OnlyWhiteLabels, LabelInv, OtpLoadBinary PROVE LabelInv'
  OBVIOUS
<1>1. PICK f \in Files :
        /\ f.kind = "binary" /\ Begin(f)
        /\ \/ pending' = NoRequest
           \/ pending' = Request(f.row, f.ecc /\ ~f.raw,
                                 [i \in DOMAIN f.words |-> BitsOf(f.words[i])])
  BY DEF OtpLoadBinary
<1>2. otp' = otp /\ job' = f
  BY <1>1, BeginIs DEF OtpLoadBinary
<1>3. f.words \in Seq(Nat) /\ f.row \in Int
  BY <1>1, CommandsAssumption DEF JsonFiles, BinaryFiles, Rows
<1>4. KeptOff(pending)'
  <2>1. CASE pending' = NoRequest
    BY <1>2, <2>1 DEF KeptOff, NoRequest, Request
  <2>2. CASE pending' = Request(f.row, f.ecc /\ ~f.raw,
                                [i \in DOMAIN f.words |-> BitsOf(f.words[i])])
    <3> DEFINE x == pending'
    <3>1. KeepsOff(f.row, Len(f.words), f.ecc /\ ~f.raw, WordsBits(f.words))
      <4>1. FileKeepsOff(f)
        BY DEF OnlyWhiteLabels
      <4> QED
        BY <1>1, <4>1 DEF FileKeepsOff
    <3>2. DOMAIN f.words = 1..Len(f.words) /\ Len(f.words) \in Nat
      BY <1>3
    <3>3. x.bEcc = (f.ecc /\ ~f.raw) /\ x.wRow = f.row
          /\ x.data = [i \in 1..Len(f.words) |-> BitsOf(f.words[i])]
      BY <2>2, <3>2 DEF Request
    <3>4. Len(x.data) = Len(f.words)
      BY <3>2, <3>3
    <3>5. ASSUME NEW i \in 1..Len(f.words)
          PROVE  /\ f.row + i - 1 \in Copies(f.row, Len(f.words))
                 /\ BitsOf(f.words[i]) \subseteq WordsBits(f.words) \union otp[f.row]
      <4>1. f.row + i - 1 \in f.row..(f.row + Len(f.words) - 1)
        BY <1>3, <3>2
      <4> QED
        BY <3>2, <4>1 DEF Copies, WordsBits
    <3>6. \A i \in 1..Len(x.data) :
            /\ x.wRow + i - 1 \in Copies(f.row, Len(f.words))
            /\ x.data[i] \subseteq WordsBits(f.words) \union otp[f.row]
      BY <3>3, <3>4, <3>5
    <3> HIDE DEF x
    <3>7. KeptOff(x)
      <4>1. KeepsOff(f.row, Len(f.words), x.bEcc, WordsBits(f.words))
        BY <3>1, <3>3 DEF KeepsOff
      <4> QED
        BY ONLY <3>6, <4>1, AddsNoFlag
    <3> QED
      BY <1>2, <3>7 DEF KeptOff, x
  <2> QED
    BY <1>1, <2>1, <2>2
<1>5. FlagsOk'
  BY <1>2, BeginsSame
<1>6. LabelOk' /\ OthersOk'
  BY <1>1, <1>2, <1>4 DEF LabelOk, OthersOk
<1> QED
  BY <1>5, <1>6 DEF LabelInv

LEMMA LabelBegins ==
  ASSUME LabelInv, OtpWhiteLabel \/ OtpGet
  PROVE  LabelInv'
<1>1. CASE OtpWhiteLabel
  <2>1. PICK w \in WhiteLabels : Begin(w) /\ todo' = WlWrites(w)
    BY <1>1 DEF OtpWhiteLabel
  <2>2. job' = w /\ otp' = otp /\ pending' = NoRequest /\ w.kind = "white_label"
    BY <1>1, <2>1, BeginIs, CommandsAssumption DEF OtpWhiteLabel
  <2>3. FlagsOk'
    BY <2>2, BeginsSame
  <2> QED
    BY <2>1, <2>2, <2>3, NoRequestKeptOff DEF LabelInv, LabelOk, OthersOk
<1>2. CASE OtpGet
  <2>1. PICK g \in Gets : Begin(g)
    BY <1>2 DEF OtpGet
  <2>2. job' = g /\ otp' = otp /\ pending' = NoRequest /\ g.kind = "get"
    BY <1>2, <2>1, BeginIs, CommandsAssumption DEF OtpGet
  <2>3. FlagsOk' /\ KeptOff(pending)'
    BY <2>2, BeginsSame DEF KeptOff, NoRequest, Request
  <2> QED
    BY <2>2, <2>3 DEF LabelInv, LabelOk, OthersOk
<1> QED
  BY <1>1, <1>2

(* The entry of a file that comes next. *)
LEMMA EntryAddsNoFlag ==
  ASSUME NEW e \in Entries, NEW old \in SUBSET Bits, old = otp[e.row],
         ~EntryRefused(e, old), EntryKeepsOff(e)
  PROVE  KeptOff(EntryWrite(e, old))
<1> DEFINE x == EntryWrite(e, old)
           bits == IF e.fields # {} THEN FullMask(e.fields) ELSE WordsBits(e.words)
           words == WordsOf(e, old)
<1>1. /\ x.data = DataOf(e, old) /\ x.bEcc = bEcc(e)
      /\ words \in Seq(SUBSET Bits) /\ wRowCount(e) \in Nat
      /\ Len(x.data) = wRowCount(e)
      /\ \A i \in 1..Len(x.data) : x.wRow + i - 1 \in Copies(e.row, wRowCount(e))
  BY EntryRequest, EntryWriteType DEF EntryWrite, Request
<1>2. \A i \in 1..Len(words) : words[i] \subseteq bits \union old
  <2>1. CASE e.fields # {}
    <3>1. words = <<FieldBits(e.fields) \union (old \ FullMask(e.fields))>>
      BY <2>1 DEF WordsOf
    <3>2. FieldBits(e.fields) \subseteq FullMask(e.fields)
      BY DEF FieldBits, FullMask
    <3>3. bits = FullMask(e.fields)
      BY <2>1
    <3> HIDE DEF words, bits
    <3>4. Len(words) = 1 /\ words[1] = FieldBits(e.fields) \union (old \ FullMask(e.fields))
      BY <3>1
    <3> QED
      BY <3>2, <3>3, <3>4
  <2>2. CASE e.fields = {}
    <3>1. e.words \in Seq(Nat)
      BY DEF Entries
    <3>2. words = [i \in 1..Len(e.words) |-> BitsOf(e.words[i])] /\ Len(words) = Len(e.words)
      BY <2>2, <3>1 DEF WordsOf
    <3>3. bits = WordsBits(e.words)
      BY <2>2
    <3>4. \A i \in 1..Len(e.words) : BitsOf(e.words[i]) \subseteq WordsBits(e.words)
      BY <3>1 DEF WordsBits
    <3> HIDE DEF words, bits
    <3> QED
      BY <3>2, <3>3, <3>4
  <2> QED
    BY <2>1, <2>2
<1> HIDE DEF words, bits
<1>3. \A i \in 1..Len(x.data) : x.data[i] \subseteq bits \union old
  <2>1. CASE Len(words) = 1 /\ wRowCount(e) > 1
    <3>1. x.data = [i \in 1..wRowCount(e) |-> words[1]]
      BY <1>1, <2>1 DEF DataOf, words
    <3> HIDE DEF x
    <3>2. words[1] \subseteq bits \union old
      BY <1>2, <2>1
    <3> QED
      BY <1>1, <3>1, <3>2
  <2>2. CASE ~(Len(words) = 1 /\ wRowCount(e) > 1)
    <3>1. x.data = words
      BY <1>1, <2>2 DEF DataOf, words
    <3> HIDE DEF x
    <3> QED
      BY <1>2, <3>1
  <2> QED
    BY <2>1, <2>2
<1>4. KeepsOff(e.row, wRowCount(e), bEcc(e), bits)
  BY DEF EntryKeepsOff, bits
<1> HIDE DEF x
<1>5. KeptOff(x)
  <2>1. KeepsOff(e.row, wRowCount(e), x.bEcc, bits)
    BY ONLY <1>1, <1>4 DEF KeepsOff
  <2>2. \A i \in 1..Len(x.data) :
          /\ x.wRow + i - 1 \in Copies(e.row, wRowCount(e))
          /\ x.data[i] \subseteq bits \union otp[e.row]
    BY ONLY <1>1, <1>3, old = otp[e.row]
  <2> QED
    BY ONLY <2>1, <2>2, AddsNoFlag
<1> QED
  BY <1>5 DEF x

LEMMA EntryBegins == OnlyWhiteLabels /\ ConfinedInv /\ LabelInv /\ NextEntry => LabelInv'
<1> SUFFICES ASSUME OnlyWhiteLabels, ConfinedInv, LabelInv, NextEntry PROVE LabelInv'
  OBVIOUS
<1> DEFINE e == Head(todo)
<1>1. /\ Working /\ job.kind = "json" /\ todo # <<>> /\ otp' = otp /\ job' = job
  BY DEF NextEntry, Going
<1>2. FlagsOk' /\ LabelOk'
  BY <1>1, BeginsSame DEF LabelOk
<1>3. todo \in Seq(Entries)
  BY <1>1 DEF ConfinedInv, TodoOk
<1>4. e \in Entries /\ e \in ToSet(todo) /\ ToSet(Tail(todo)) \subseteq ToSet(todo)
  BY <1>1, <1>3, TailOfSeq
<1>5. \A entry \in ToSet(todo) : EntryKeepsOff(entry)
  BY <1>1 DEF LabelInv, OthersOk
<1>6. CASE EntryRefused(e, otp[e.row])
  <2>1. result' # "none"
    BY <1>6 DEF NextEntry
  <2> QED
    BY <1>2, <2>1 DEF LabelInv, OthersOk, Working
<1>7. CASE ~EntryRefused(e, otp[e.row])
  <2>1. pending' = EntryWrite(e, otp[e.row]) /\ todo' = Tail(todo)
    BY <1>7 DEF NextEntry
  <2>2. otp[e.row] \in SUBSET Bits
    BY <1>4 DEF ConfinedInv, RowsTyped, Entries
  <2> HIDE DEF e
  <2>3. KeptOff(EntryWrite(e, otp[e.row]))
    BY <1>4, <1>5, <1>7, <2>2, EntryAddsNoFlag
  <2>4. KeptOff(pending)'
    BY <1>1, <2>1, <2>3 DEF KeptOff
  <2>5. OthersOk'
    BY <1>1, <1>4, <1>5, <2>1, <2>4 DEF OthersOk
  <2> QED
    BY <1>2, <2>5 DEF LabelInv
<1> QED
  BY <1>6, <1>7

(* What can be read back of a label that is held. *)
LEMMA EccLow == \A x : otp_calculate_ecc(x) \intersect (0..15) = x \intersect (0..15)
<1> SUFFICES ASSUME NEW x PROVE otp_calculate_ecc(x) \intersect (0..15) = x \intersect (0..15)
  OBVIOUS
<1>1. \A y : Checked(y) \intersect (0..15) = {}
  BY DEF Checked
<1> QED
  BY <1>1 DEF otp_calculate_ecc

(* The rows of a label that is held are those of its words. *)
LEMMA HeldWords ==
  ASSUME NEW w \in WhiteLabels, Held(StructWrite(w)), NEW data, data = wl_do_fields(w).data
  PROVE  \A k \in 1..Len(data) : otp[w.row + k - 1] = otp_calculate_ecc(BitsOf(data[k]))
<1>1. data \in Seq(Nat)
  BY WhiteLabelsAssumption
<1>2. /\ StructWrite(w).wRow = w.row /\ StructWrite(w).bEcc = TRUE
      /\ StructWrite(w).data = [i \in 1..Len(data) |-> BitsOf(data[i])]
  BY <1>1 DEF StructWrite, Request
<1>3. Len(StructWrite(w).data) = Len(data)
  BY <1>1, <1>2
<1>4. \A k \in 1..Len(data) : StructWrite(w).data[k] = BitsOf(data[k])
  BY ONLY <1>2
<1>5. \A k \in 1..Len(data) :
        otp[StructWrite(w).wRow + k - 1] = Row(StructWrite(w).bEcc, StructWrite(w).data[k])
  BY <1>3 DEF Held, HeldUpTo
<1>6. \A bits : Row(TRUE, bits) = otp_calculate_ecc(bits)
  BY DEF Row
<1>7. StructWrite(w).wRow = w.row /\ StructWrite(w).bEcc = TRUE
  BY <1>2
<1> SUFFICES ASSUME NEW k \in 1..Len(data)
             PROVE  otp[w.row + k - 1] = otp_calculate_ecc(BitsOf(data[k]))
  OBVIOUS
<1>8. otp[w.row + k - 1] = Row(TRUE, BitsOf(data[k]))
  BY ONLY <1>4, <1>5, <1>7, k \in 1..Len(data), Zenon
<1> QED
  BY ONLY <1>6, <1>8, Zenon

LEMMA DigitsAreFound ==
  ASSUME NEW w \in WhiteLabels, Held(StructWrite(w)), PlainLabel(w), NEW i \in DOMAIN w.fields
  PROVE  DigitsFound(w, i)
<1> SUFFICES ASSUME w.fields[i].kind = "bcd"
             PROVE  otp[w.row + i - 1] \intersect (0..15) =
                      UNION {ShiftedUp(BitsOf((w.fields[i].hundredths \div 10^k) % 10), 4 * k) : k \in 0..3}
  BY DEF DigitsFound
<1>d. PICK data : data = wl_do_fields(w).data
  OBVIOUS
<1>n. PICK n : n = w.fields[i].hundredths
  OBVIOUS
<1>1. w.fields[i] \in LabelFields /\ i \in 1..Len(w.fields) /\ Len(w.fields) <= WlFields
  BY DEF PlainLabel
<1>2. FieldAt(data, w.fields[i], i) /\ WlFields <= Len(data)
  BY <1>1, <1>d, LabelFilled DEF FilledUpTo, PlainLabel
<1>3. data[i] = Low(get_json_bcd(n)) /\ Revision(n)
  BY <1>1, <1>2, <1>n, FieldKinds DEF FieldAt
<1>4. i \in 1..Len(data)
  <2>1. WlFields \in Nat /\ Len(data) \in Nat /\ Len(w.fields) \in Nat
    BY RowsAssumption, <1>d, WhiteLabelsAssumption DEF PlainLabel
  <2> QED
    BY ONLY <1>1, <1>2, <2>1
<1>5. otp[w.row + i - 1] = otp_calculate_ecc(BitsOf(data[i]))
  BY <1>4, <1>d, HeldWords
<1>6. BitsOf(Low(get_json_bcd(n))) \intersect (0..15) =
        UNION {ShiftedUp(BitsOf((n \div 10^k) % 10), 4 * k) : k \in 0..3}
  BY ONLY <1>3, DigitBits, Zenon
<1>7. otp[w.row + i - 1] \intersect (0..15) = BitsOf(Low(get_json_bcd(n))) \intersect (0..15)
  BY ONLY <1>3, <1>5, EccLow
<1> QED
  BY ONLY <1>6, <1>7, <1>n, Zenon

LEMMA StringIsFound ==
  ASSUME NEW w \in WhiteLabels, Held(StructWrite(w)), PlainLabel(w), NEW i \in DOMAIN w.fields
  PROVE  StringFound(w, i)
<1>d. PICK data : data = wl_do_fields(w).data
  OBVIOUS
<1>f. PICK f : f = w.fields[i]
  OBVIOUS
<1> DEFINE entry == otp[w.row + i - 1] \intersect (0..15)
           Places == 0..255
           FoundAt(a) ==
             /\ BitsOf(a) = {b - 8 : b \in entry \intersect (8..15)}
             /\ BitsOf(f.chars) = entry \intersect (0..6)
             /\ \A k \in DOMAIN f.words :
                   otp[w.row + a + k - 1] = otp_calculate_ecc(BitsOf(f.words[k]))
<1> SUFFICES ASSUME f.kind = "strdef"
             PROVE  \E at \in Places : FoundAt(at)
  BY <1>f, Zenon DEF StringFound
<1>1. f \in LabelFields /\ i \in 1..Len(w.fields) /\ Len(w.fields) <= WlFields
  BY <1>f DEF PlainLabel
<1>2. FieldAt(data, f, i) /\ WlFields <= Len(data)
  BY <1>1, <1>d, <1>f, LabelFilled DEF FilledUpTo, PlainLabel
<1>3. /\ f.chars \in Nat /\ f.chars < 128 /\ f.unicode \in BOOLEAN /\ f.words \in Seq(Nat)
  BY <1>1, FieldKinds
<1>4. PICK at \in Nat :
        /\ WlFields <= at /\ at + Len(f.words) <= Len(data) /\ data[i] = Low(Strdef(at, f))
        /\ \A j \in 1..Len(f.words) : data[at + j] = f.words[j]
  BY <1>2 DEF FieldAt
<1>5. /\ Len(data) \in Nat /\ Len(data) < 256 /\ Len(f.words) \in Nat /\ DOMAIN f.words = 1..Len(f.words)
      /\ WlFields \in Nat /\ Len(w.fields) \in Nat /\ w.row \in Int
  <2>1. data \in Seq(Nat) /\ Len(data) < 256
    BY <1>d, WhiteLabelsAssumption DEF PlainLabel
  <2>2. w.fields \in Seq(LabelFields) /\ WlFields \in Nat
    BY RowsAssumption DEF PlainLabel
  <2>3. w.row \in Int
    BY CommandsAssumption DEF Rows
  <2> QED
    BY ONLY <1>3, <2>1, <2>2, <2>3
<1>6. at < 256 /\ i \in 1..Len(data)
  BY ONLY <1>1, <1>2, <1>4, <1>5
<1>7. \A k \in 1..Len(data) : otp[w.row + k - 1] = otp_calculate_ecc(BitsOf(data[k]))
  BY <1>d, HeldWords
<1>8. PICK n : n = Strdef(at, f)
  OBVIOUS
<1>9. entry = BitsOf(Low(n)) \intersect (0..15)
  BY ONLY <1>4, <1>6, <1>7, <1>8, EccLow
<1>10. PICK u \in {0, 128} : u = IF f.unicode THEN 128 ELSE 0
  OBVIOUS
<1>11. StringValue(n, at, f.chars, u)
  BY ONLY <1>3, <1>6, <1>8, <1>10, at \in Nat DEF StringValue, Strdef
<1>12. /\ BitsOf(at) = {b - 8 : b \in entry \intersect (8..15)}
       /\ BitsOf(f.chars) = entry \intersect (0..6)
  <2> HIDE DEF entry
  <2> QED
    BY ONLY <1>9, <1>11, StringBits
<1>13. ASSUME NEW k \in DOMAIN f.words
       PROVE  otp[w.row + at + k - 1] = otp_calculate_ecc(BitsOf(f.words[k]))
  <2>1. k \in 1..Len(f.words) /\ at + k \in 1..Len(data) /\ w.row + at + k - 1 = w.row + (at + k) - 1
    <3>1. k \in 1..Len(f.words) /\ k \in Nat /\ 1 <= k /\ k <= Len(f.words)
      BY ONLY <1>5, k \in DOMAIN f.words
    <3>2. at + Len(f.words) <= Len(data)
      BY ONLY <1>4
    <3>3. at + k \in 1..Len(data)
      BY ONLY <1>5, <3>1, <3>2, at \in Nat
    <3>4. w.row + at + k - 1 = w.row + (at + k) - 1
      BY ONLY <1>5, <3>1, at \in Nat
    <3> QED
      BY ONLY <3>1, <3>3, <3>4
  <2>2. data[at + k] = f.words[k]
    BY ONLY <1>4, <2>1
  <2>3. otp[w.row + (at + k) - 1] = otp_calculate_ecc(BitsOf(data[at + k]))
    BY ONLY <1>7, <2>1
  <2> QED
    BY ONLY <2>1, <2>2, <2>3
<1>14. at \in Places
  <2>1. PICK q \in Nat : q = 256
    OBVIOUS
  <2>2. at < q
    BY ONLY <1>6, <2>1
  <2>3. at \in 0..(q - 1)
    BY ONLY <2>2, at \in Nat, q \in Nat
  <2>4. q - 1 = 255
    BY ONLY <2>1
  <2> QED
    BY ONLY <2>3, <2>4
<1>15. FoundAt(at)
  <2> HIDE DEF entry
  <2> QED
    BY ONLY <1>12, <1>13
<1> HIDE DEF entry, Places, FoundAt
<1> QED
  BY ONLY <1>14, <1>15, Zenon

(* From the invariant: what the flags say is there is there. *)
LEMMA LabelIsThere ==
  ASSUME LabelInv, OnlyWhiteLabels, \A w \in WhiteLabels : PlainLabel(w)
  PROVE  WhiteLabelComplete
<1>1. otp_regs[flags_row].redundancy \in Nat /\ flags_row \in Int
  BY RowsAssumption DEF Rows
<1>n. PICK n \in Nat : n = otp_regs[flags_row].redundancy
  BY <1>1
<1>2. FlagCopies = [i \in 1..n |-> otp[flags_row + i - 1]]
  BY <1>n DEF FlagCopies
<1>3. DOMAIN FlagCopies = 1..n /\ Len(FlagCopies) = n
  BY <1>2
<1>4. ASSUME NEW i \in 1..n
      PROVE  FlagCopies[i] \intersect LabelFlags \subseteq otp[flags_row]
  <2>1. flags_row + i - 1 \in FlagRows
    BY <1>1, <1>n DEF FlagRows, Copies
  <2>2. FlagCopies[i] = otp[flags_row + i - 1]
    BY <1>2
  <2>3. otp[flags_row + i - 1] \intersect LabelFlags \subseteq otp[flags_row]
    BY <2>1 DEF LabelInv, FlagsOk
  <2> QED
    BY ONLY <2>2, <2>3
<1> SUFFICES ASSUME NEW i \in DOMAIN FlagCopies, WhiteLabelValid \in FlagCopies[i]
             PROVE  \E w \in WhiteLabels :
                      /\ HeldBy(StructWrite(w), otp) /\ HeldBy(AddrWrite(w), otp)
                      /\ Vote(FlagCopies, FALSE) \intersect (0..(WlFields - 1))
                            \subseteq wl_do_fields(w).flags
                      /\ \A f \in DOMAIN w.fields : StringFound(w, f) /\ DigitsFound(w, f)
  BY DEF WhiteLabelComplete
<1>i. i \in 1..n
  BY <1>3
<1>5. WhiteLabelValid \in otp[flags_row] \intersect LabelFlags
  BY <1>4, <1>i DEF LabelFlags
<1>6. PICK w \in WhiteLabels :
        LabelHeld(w) /\ otp[flags_row] \intersect LabelFlags \subseteq wl_do_fields(w).flags
  BY <1>5 DEF LabelInv, FlagsOk
<1>7. HeldBy(StructWrite(w), otp) /\ HeldBy(AddrWrite(w), otp)
  BY <1>6, RowsOfLabel, HeldIsHeldBy DEF LabelHeld
<1>8. \A f \in DOMAIN w.fields : StringFound(w, f) /\ DigitsFound(w, f)
  BY <1>6, StringIsFound, DigitsAreFound DEF LabelHeld
<1>9. ASSUME NEW b \in Vote(FlagCopies, FALSE) \intersect (0..(WlFields - 1))
      PROVE  b \in wl_do_fields(w).flags
  <2> DEFINE have == {j \in DOMAIN FlagCopies : b \in FlagCopies[j]}
  <2>1. Cardinality(have) >= Len(FlagCopies) - Cardinality(have)
    BY DEF Vote
  <2>2. have # {}
    <3>1. ASSUME have = {} PROVE FALSE
      <4>1. Cardinality(have) = 0
        BY <3>1, FS_EmptySet
      <4>2. n >= 1
        BY <1>i
      <4> QED
        BY <1>3, <2>1, <4>1, <4>2
    <3> QED
      BY <3>1
  <2>3. PICK j \in 1..n : b \in FlagCopies[j]
    BY <1>3, <2>2
  <2>4. b \in otp[flags_row] \intersect LabelFlags
    BY <1>4, <2>3 DEF LabelFlags
  <2> QED
    BY <1>6, <2>4
<1> QED
  BY <1>7, <1>8, <1>9

LEMMA LabelInitially == OnlyWhiteLabels /\ Init => LabelInv
<1> SUFFICES ASSUME OnlyWhiteLabels, Init PROVE LabelInv
  OBVIOUS
<1>1. otp \in Programmed /\ ~Working
  BY DEF Init, Working, NoJob
<1>2. \A r \in FlagRows : otp[r] \intersect LabelFlags = {}
  BY <1>1 DEF OnlyWhiteLabels
<1>3. flags_row \in FlagRows
  <2>1. flags_row \in Int /\ otp_regs[flags_row].redundancy \in Nat
    BY RowsAssumption DEF Rows
  <2>2. FlagRows # {}
    BY DEF OnlyWhiteLabels
  <2> QED
    BY <2>1, <2>2 DEF FlagRows, Copies
<1>4. FlagsOk
  BY <1>2, <1>3 DEF FlagsOk
<1> QED
  BY <1>1, <1>4 DEF LabelInv, LabelOk, OthersOk

LEMMA OthersLabel ==
  ASSUME LabelInv,
         ShowMatch \/ Finish \/ DeviceRefusesRow \/ ConnectionFails \/ UNCHANGED vars
  PROVE  LabelInv'
<1>1. CASE ShowMatch
  <2>1. /\ job.kind = "get" /\ job' = job /\ otp' = otp /\ pending' = pending /\ Working
    BY <1>1 DEF ShowMatch
  <2>2. FlagsOk' /\ KeptOff(pending)'
    BY <2>1, BeginsSame DEF LabelInv, OthersOk, KeptOff
  <2> QED
    BY <2>1, <2>2 DEF LabelInv, LabelOk, OthersOk
<1>2. CASE Finish \/ DeviceRefusesRow \/ ConnectionFails
  <2>1. otp' = otp /\ result' # "none"
    BY <1>2 DEF Finish, DeviceRefusesRow, ConnectionFails
  <2>2. FlagsOk'
    BY <2>1, BeginsSame
  <2> QED
    BY <2>1, <2>2 DEF LabelInv, LabelOk, OthersOk, Working
<1>3. CASE UNCHANGED vars
  <2>1. UNCHANGED <<otp, job, todo, pending, result>>
    BY <1>3 DEF vars
  <2>2. /\ FlagsOk' /\ (KeptOff(pending)' <=> KeptOff(pending))
        /\ \A x : (Held(x)' <=> Held(x)) /\ (RestOf(x)' <=> RestOf(x))
    BY <2>1, BeginsSame, HeldSame DEF RestOf, HeldUpTo, KeptOff
  <2>3. \A w : LabelHeld(w)' <=> LabelHeld(w)
    BY <2>1, HeldSame
  <2>4. LabelOk'
    BY <2>1, <2>2, <2>3 DEF LabelInv, LabelOk, Working
  <2>5. OthersOk'
    BY <2>1, <2>2 DEF LabelInv, OthersOk, Working
  <2> QED
    BY <2>2, <2>4, <2>5 DEF LabelInv
<1> QED
  BY <1>1, <1>2, <1>3

(* Whenever a copy of the flags says that there is a white label, all of it is in the   *)
(* device, wherever a command was interrupted or refused: the boot ROM never follows a  *)
(* pointer to a half written one, and reads the strings and the revision that the file  *)
(* of otp white-label had (otp_white_label_command::execute).  For labels of fewer than *)
(* 256 words and revisions from 1.00 (PlainLabel: the code checks neither, and a string *)
(* behind 256 words is not found), and where no other command writes rows of a label.   *)
THEOREM WhiteLabelTheorem ==
  Spec => []((OnlyWhiteLabels /\ \A w \in WhiteLabels : PlainLabel(w)) => WhiteLabelComplete)
<1>1. Init => (OnlyWhiteLabels => LabelInv)
  BY LabelInitially
<1>2. OtpInv /\ (OnlyWhiteLabels => LabelInv) /\ [Next]_vars => (OnlyWhiteLabels => LabelInv)'
  <2> SUFFICES ASSUME OtpInv, OnlyWhiteLabels, LabelInv, [Next]_vars PROVE LabelInv'
    OBVIOUS
  <2>1. ConfinedInv
    BY DEF OtpInv
  <2>2. CASE DeviceWritesRow
    BY <2>1, <2>2, LabelRowWritten, OtherRowWritten
  <2>3. CASE OtpSet \/ OtpLoadJson \/ NextEntry \/ OtpLoadBinary
    BY <2>1, <2>3, SetBegins, JsonBegins, EntryBegins, BinaryBegins
  <2>4. CASE OtpWhiteLabel \/ OtpGet \/ NextWrite
    BY <2>1, <2>4, LabelBegins, NextWriteBegins
  <2>5. CASE ShowMatch \/ Finish \/ DeviceRefusesRow \/ ConnectionFails \/ UNCHANGED vars
    BY <2>5, OthersLabel
  <2> QED
    BY <2>2, <2>3, <2>4, <2>5 DEF Next
<1>3. (OnlyWhiteLabels => LabelInv) =>
        ((OnlyWhiteLabels /\ \A w \in WhiteLabels : PlainLabel(w)) => WhiteLabelComplete)
  BY LabelIsThere
<1> QED
  BY <1>1, <1>2, <1>3, OtpInvariant, PTL DEF Spec
=============================================================================
