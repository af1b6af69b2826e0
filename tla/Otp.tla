--------------------------------- MODULE Otp ---------------------------------
(***************************************************************************)
(* The OTP commands of main.cpp: otp set, otp load (binary and JSON), otp  *)
(* white-label, otp get, and otp dump of a JSON file.                      *)
(*                                                                         *)
(* A row is the set of its bits that are 1.  Rows are written one after    *)
(* another by the device, which refuses to clear a bit and to change a row *)
(* with error correction; the connection may be lost between two rows, and *)
(* the next command finds what was written until then.  A JSON file is a   *)
(* sequence of entries.  A register is described by its first row; -1 is   *)
(* an option that was not given.                                           *)
(***************************************************************************)
EXTENDS Integers, Sequences, SequencesExt, FiniteSets, FiniteSetsExt

CONSTANTS
    OTP_PAGE_COUNT, OTP_PAGE_ROWS, OTP_SPECIAL_PAGES,
    otp_regs,               \* first row -> the description of a register
    Locked,                 \* rows that the device does not let picotool write
    Programmed,             \* what the rows may hold at first
    Sets, Gets, Files, WhiteLabels,     \* the commands that are given
    MaxCommands,            \* how many commands are given
    WlFields,               \* how many values a white label has (16)
    addr_row, flags_row,    \* of USB_WHITE_LABEL_ADDR and USB_BOOT_FLAGS
    WhiteLabelValid         \* the bit of USB_BOOT_FLAGS that makes it valid

Bits == 0..23
Rows == 0..(OTP_PAGE_COUNT * OTP_PAGE_ROWS - 1)
Low(n) == n % 65536
BitsOf(n) == {b \in Bits : (n \div 2^b) % 2 = 1}
\* The 32 bits of a value of the command line or of a file.
Word == 0..31
WordOf(n) == BitsOf(n) \union {b \in Word \ Bits : ((n \div 2^24) \div 2^(b - 24)) % 2 = 1}
ShiftedUp(bits, n) == {b + n : b \in bits}
Copies(row, n) == row..(row + n - 1)

NoReg == [redundancy |-> -1, ecc |-> FALSE, crit |-> FALSE, seq_length |-> 0]
NoRow == -1
RegAt(row) == IF row \in DOMAIN otp_regs THEN otp_regs[row] ELSE NoReg

ASSUME PagesAssumption ==
    /\ OTP_PAGE_COUNT \in Nat \ {0} /\ OTP_PAGE_ROWS \in Nat \ {0}
    /\ OTP_SPECIAL_PAGES \in 0..OTP_PAGE_COUNT
ASSUME RowsAssumption ==
    /\ DOMAIN otp_regs \subseteq Rows /\ Locked \subseteq Rows
    /\ Programmed \subseteq [Rows -> SUBSET Bits]
    /\ {addr_row, flags_row} \subseteq DOMAIN otp_regs
    /\ \A r \in DOMAIN otp_regs :
          otp_regs[r] \in [redundancy : Nat, seq_length : Nat, ecc : BOOLEAN, crit : BOOLEAN,
                           fields : SUBSET SUBSET Bits]
    /\ WhiteLabelValid \in Bits
    /\ MaxCommands \in Nat /\ WlFields \in Nat \ {0}
Entries == [row : Rows, sequence : BOOLEAN, words : Seq(Nat), ecc : BOOLEAN, redundancy : Nat,
            fields : SUBSET [mask : SUBSET Bits, value : Nat]]
JsonFiles == [kind : {"json"}, entries : Seq(Entries)]
BinaryFiles == [kind : {"binary"}, row : Rows, ecc : BOOLEAN, raw : BOOLEAN, words : Seq(Nat)]
ASSUME CommandsAssumption ==
    /\ Sets \subseteq [kind : {"set"}, row : Rows, mask : SUBSET Bits, field : BOOLEAN,
                       value : Nat, ignore_set : BOOLEAN, ecc : BOOLEAN, raw : BOOLEAN,
                       copies : Int]
    /\ Files \subseteq JsonFiles \union BinaryFiles
    /\ Gets \subseteq [kind : {"get"}, matches : Seq([row : Rows, mask : SUBSET Bits]),
                       raw : BOOLEAN, ecc : BOOLEAN, copies : Int]
    /\ \A w \in WhiteLabels : w.kind = "white_label" /\ w.row \in Rows

VARIABLES
    otp,                    \* row -> its bits
    before,                 \* history: the rows when the command began
    job, todo,              \* the command, and the entries it has still to write
    pending,                \* the write that the device is carrying out
    result,                 \* how the last command ended
    raw_buffer, last_page,  \* of otp get
    shown,                  \* what otp get has shown
    commands                \* how many commands were given
vars == <<otp, before, job, todo, pending, result, raw_buffer, last_page,
          shown, commands>>

-----------------------------------------------------------------------------
(* Error correction.  A bit of the code is the parity of some of the bits  *)
(* of the value, and the last makes the whole of 22 bits even.             *)

even_parity(bits) == Cardinality(bits) % 2
Parity(mask, bits) == even_parity(bits \intersect mask)
ParityMasks ==
    << {0, 1, 3, 4, 6, 8, 10, 11, 13, 15}, {0, 2, 3, 5, 6, 9, 10, 12, 13},
       {1, 2, 3, 7, 8, 9, 10, 14, 15}, {4, 5, 6, 7, 8, 9, 10},
       {11, 12, 13, 14, 15} >>
Checked(bits) == {15 + i : i \in {j \in 1..5 : Parity(ParityMasks[j], bits) = 1}}
otp_calculate_ecc_NoOverall(bits) ==
    LET x == bits \intersect (0..15) IN x \union Checked(x)
otp_calculate_ecc(bits) ==
    LET x == bits \intersect (0..15)
        p == Checked(x)
    IN  x \union p \union {b \in {21} : even_parity(x \union p) = 1}

(* Binary coded decimals of a revision, in hundredths: the digits are      *)
(* turned round and put out from the highest down.                         *)
rev[tmp \in Nat] == [rest \in Nat |->
    IF tmp = 0 THEN rest ELSE rev[tmp \div 10][(rest * 10) + (tmp % 10)]]
out[digits \in Nat] == [shift \in Int |->
    IF digits = 0 THEN 0
    ELSE ((digits % 10) * 2^shift) + out[digits \div 10][shift - 4]]
get_json_bcd(tmp) == out[rev[tmp][0]][IF tmp >= 1000 THEN 12 ELSE 8]

-----------------------------------------------------------------------------
(* The device.  Raw rows only gain bits; a row with error correction is    *)
(* written once, and whether it takes the same value again is left open.   *)

Request(wRow, bEcc, data) == [wRow |-> wRow, bEcc |-> bEcc, data |-> data]
NoRequest == Request(NoRow, FALSE, <<>>)
NoJob == [kind |-> "none"]
Row(bEcc, bits) == IF bEcc THEN otp_calculate_ecc(bits) ELSE bits
\* The rows as a write that is not interrupted leaves them.
Stored(rows, w) ==
    [r \in Rows |-> IF r \in Copies(w.wRow, Len(w.data))
                    THEN Row(w.bEcc, w.data[r - w.wRow + 1]) ELSE rows[r]]

Init ==
    /\ otp \in Programmed /\ before = otp
    /\ job = NoJob /\ todo = <<>> /\ pending = NoRequest /\ result = "none"
    /\ raw_buffer = [i \in 0..(OTP_PAGE_ROWS - 1) |-> BitsOf(11184810)]
    /\ last_page = -1 /\ shown = {} /\ commands = 0

Idle == job.kind = "none" \/ result # "none"
Working == job.kind # "none" /\ result = "none"
Begin(c) ==
    /\ Idle /\ commands < MaxCommands
    /\ commands' = commands + 1 /\ job' = c /\ before' = otp
    /\ raw_buffer' = [i \in 0..(OTP_PAGE_ROWS - 1) |-> BitsOf(11184810)]
    /\ last_page' = -1 /\ shown' = {}
Going == UNCHANGED <<before, job, raw_buffer, last_page, shown, commands>>

DeviceWritesRow ==
    /\ Working /\ pending.data # <<>>
    /\ LET row == pending.wRow
           want == Row(pending.bEcc, Head(pending.data))
           accepted == row \in Rows \ Locked /\
                       IF pending.bEcc THEN otp[row] \in {{}, want} ELSE otp[row] \subseteq want
       IN  /\ accepted
           /\ otp' = [otp EXCEPT ![row] = want]
           /\ pending' = Request(row + 1, pending.bEcc, Tail(pending.data))
    /\ UNCHANGED <<todo, result>> /\ Going

DeviceRefusesRow ==
    /\ Working /\ pending.data # <<>>
    /\ LET row == pending.wRow
           want == Row(pending.bEcc, Head(pending.data))
       IN  \/ row \notin Rows \ Locked /\ result' = "not_permitted"
           \/ /\ row \in Rows \ Locked
              /\ IF pending.bEcc THEN otp[row] # {} ELSE ~(otp[row] \subseteq want)
              /\ result' = "unsupported_modification"
    /\ UNCHANGED <<otp, todo, pending>> /\ Going

ConnectionFails ==
    /\ Working /\ pending.data # <<>>
    /\ result' = "lost"
    /\ UNCHANGED <<otp, todo, pending>> /\ Going

-----------------------------------------------------------------------------
(* otp set *)

low(mask) == Min(mask)
\* value & (~mask >> low): the bits that are shifted out of the word are not looked at.
Fits(mask, value) == (ShiftedUp(WordOf(value), low(mask)) \intersect Word) \subseteq mask
\* Only a field given by its name limits what is written.
NewValue(c, old) ==
    LET value == IF c.field
                 THEN (ShiftedUp(BitsOf(c.value), low(c.mask)) \intersect c.mask)
                      \union (old \ c.mask)
                 ELSE BitsOf(c.value)
    IN  IF c.ignore_set THEN value \union old ELSE value
SelectEcc(c) == (c.ecc \/ RegAt(c.row).ecc) /\ ~c.raw
Redundancy(c) == IF c.copies < 0 THEN RegAt(c.row).redundancy ELSE c.copies
CopyCount(c) == IF Redundancy(c) <= 0 THEN 1 ELSE Redundancy(c)
Refusal_BitsNotChecked(c, old) ==
    IF c.field /\ ~Fits(c.mask, c.value) THEN "does_not_fit"
    ELSE IF old # {} /\ SelectEcc(c) THEN "modifies_ecc"
    ELSE "none"
Refusal(c, old) ==
    IF c.field /\ ~Fits(c.mask, c.value) THEN "does_not_fit"
    ELSE IF ~(old \subseteq NewValue(c, old)) THEN "clears_bits"
    ELSE IF old # {} /\ SelectEcc(c) THEN "modifies_ecc"
    ELSE "none"
SetWrite_OneTooMany(c, old) ==
    Request(c.row, SelectEcc(c), [i \in 1..CopyCount(c) + 1 |-> NewValue(c, old)])
SetWrite_FirstOnly(c, old) == Request(c.row, SelectEcc(c), <<NewValue(c, old)>>)
SetWrite(c, old) ==
    LET n == IF SelectEcc(c) THEN 1 ELSE CopyCount(c)
    IN  Request(c.row, SelectEcc(c), [i \in 1..n |-> NewValue(c, old)])

OtpSet ==
    /\ \E c \in Sets :
        /\ Begin(c)
        /\ result' = Refusal(c, otp[c.row])
        /\ pending' = IF Refusal(c, otp[c.row]) = "none" THEN SetWrite(c, otp[c.row])
                      ELSE NoRequest
    /\ todo' = <<>> /\ UNCHANGED otp

-----------------------------------------------------------------------------
(* JSON files.  An entry gives fields, one value or the words of all rows; *)
(* where no register is known it also says ecc and how many rows.          *)

FullMask(fields) == UNION {f.mask : f \in fields}
FieldBits(fields) ==
    UNION {ShiftedUp(BitsOf(f.value), low(f.mask)) \intersect f.mask : f \in fields}
bEcc(e) == IF RegAt(e.row) = NoReg THEN e.ecc ELSE RegAt(e.row).ecc
wRowCount(e) ==
    IF RegAt(e.row) = NoReg THEN IF Len(e.words) > 1 THEN Len(e.words) ELSE e.redundancy
    ELSE IF e.sequence THEN RegAt(e.row).seq_length
    ELSE IF RegAt(e.row).redundancy > 0 THEN RegAt(e.row).redundancy ELSE 1
WordsOf(e, old) ==
    IF e.fields # {} THEN <<FieldBits(e.fields) \union (old \ FullMask(e.fields))>>
    ELSE [i \in DOMAIN e.words |-> BitsOf(e.words[i])]
\* One word is repeated for each of several rows.
DataOf(e, old) ==
    IF Len(WordsOf(e, old)) = 1 /\ wRowCount(e) > 1 THEN [i \in 1..wRowCount(e) |-> WordsOf(e, old)[1]]
    ELSE WordsOf(e, old)
EntryRefused(e, old) ==
    \/ \E f \in e.fields : ~Fits(f.mask, f.value)
    \/ Len(DataOf(e, old)) # wRowCount(e)
EntryWrite(e, old) == Request(e.row, bEcc(e), DataOf(e, old))

\* otp dump of a file reads zeros instead of the old rows.
Dumped_NoEcc(rows, e) ==
    Stored(rows, Request(e.row, FALSE, EntryWrite(e, {}).data))
Dumped(rows, e) == Stored(rows, EntryWrite(e, {}))
otp_dump(file) == FoldLeft(Dumped, [r \in Rows |-> {}], file)

OtpLoadJson ==
    /\ \E f \in Files :
        /\ f.kind = "json" /\ Begin(f)
        /\ todo' = f.entries
    /\ result' = "none" /\ pending' = NoRequest /\ UNCHANGED otp

NextEntry ==
    /\ Working /\ job.kind = "json" /\ pending.data = <<>> /\ todo # <<>>
    /\ LET e == Head(todo)
       IN  IF EntryRefused(e, otp[e.row])
           THEN result' = "does_not_fit" /\ UNCHANGED <<pending, todo>>
           ELSE /\ pending' = EntryWrite(e, otp[e.row])
                /\ todo' = Tail(todo) /\ UNCHANGED result
    /\ UNCHANGED otp /\ Going

-----------------------------------------------------------------------------
(* otp load of a binary file, and otp white-label *)

OtpLoadBinary ==
    /\ \E f \in Files :
        /\ f.kind = "binary" /\ Begin(f)
        /\ IF f.words = <<>> \/ f.row + Len(f.words) > Cardinality(Rows)
           THEN result' = "does_not_fit" /\ pending' = NoRequest
           ELSE /\ result' = "none"
                /\ pending' = Request(f.row, f.ecc /\ ~f.raw,
                                      [i \in DOMAIN f.words |-> BitsOf(f.words[i])])
    /\ todo' = <<>> /\ UNCHANGED otp

\* A string is put behind what is there, and its place and length are the value.
WlField(w, f) ==
    LET i == w.next
        strdef == (Len(w.data) * 256) + (f.chars % 128) + (IF f.unicode THEN 128 ELSE 0)
    IN  CASE f.kind = "absent" -> [w EXCEPT !.next = i + 1]
          [] f.kind = "value" ->
                [next |-> i + 1, data |-> [w.data EXCEPT ![i] = Low(f.value)],
                 flags |-> w.flags \union {i - 1}]
          [] f.kind = "bcd" ->
                [next |-> i + 1, data |-> [w.data EXCEPT ![i] = Low(get_json_bcd(f.hundredths))],
                 flags |-> w.flags \union {i - 1}]
          [] f.kind = "strdef" ->
                [next |-> i + 1, data |-> [w.data EXCEPT ![i] = Low(strdef)] \o f.words,
                 flags |-> w.flags \union {i - 1}]
WlStart == [next |-> 1, data |-> [i \in 1..WlFields |-> 0], flags |-> {WhiteLabelValid}]
wl_do_fields(w) == FoldLeft(WlField, WlStart, w.fields)
StructWrite(w) ==
    LET data == wl_do_fields(w).data
    IN  Request(w.row, TRUE, [i \in DOMAIN data |-> BitsOf(data[i])])
AddrWrite(w) == Request(addr_row, TRUE, <<BitsOf(w.row)>>)
FlagsWrite(w) ==
    Request(flags_row, FALSE, [i \in 1..otp_regs[flags_row].redundancy |-> wl_do_fields(w).flags])
ASSUME WhiteLabelsAssumption ==
    \A w \in WhiteLabels : wl_do_fields(w).data \in Seq(Nat) /\ wl_do_fields(w).flags \subseteq Bits
WlWrites_FlagsFirst(w) == <<StructWrite(w), FlagsWrite(w), AddrWrite(w)>>
WlWrites(w) == <<StructWrite(w), AddrWrite(w), FlagsWrite(w)>>

OtpWhiteLabel ==
    /\ \E w \in WhiteLabels : Begin(w) /\ todo' = WlWrites(w)
    /\ result' = "none" /\ pending' = NoRequest /\ UNCHANGED otp

NextWrite ==
    /\ Working /\ job.kind = "white_label" /\ pending.data = <<>> /\ todo # <<>>
    /\ pending' = Head(todo) /\ todo' = Tail(todo)
    /\ UNCHANGED <<otp, result>> /\ Going

\* A command ends when it has written everything; a binary file is then read back.
ReadBack(f) ==
    \A i \in DOMAIN f.words :
        LET row == otp[f.row + i - 1]
        IN  BitsOf(f.words[i]) = IF f.ecc /\ ~f.raw THEN row \intersect (0..15) ELSE row
Finish ==
    /\ Working /\ job.kind # "get" /\ pending.data = <<>> /\ todo = <<>>
    /\ result' = IF job.kind = "binary" /\ ~ReadBack(job) THEN "mismatch" ELSE "ok"
    /\ UNCHANGED <<otp, todo, pending>> /\ Going

-----------------------------------------------------------------------------
(* otp get *)

Special(page) == page >= OTP_PAGE_COUNT - OTP_SPECIAL_PAGES
PageOf(row) == row \div OTP_PAGE_ROWS
raw_buffer_for_FirstPage(row) ==
    IF last_page # -1 THEN raw_buffer
    ELSE [i \in DOMAIN raw_buffer |-> otp[(PageOf(row) * OTP_PAGE_ROWS) + i]]
raw_buffer_for(row) ==
    IF PageOf(row) = last_page THEN raw_buffer
    ELSE IF Special(PageOf(row)) THEN [raw_buffer EXCEPT ![row % OTP_PAGE_ROWS] = otp[row]]
    ELSE [i \in DOMAIN raw_buffer |-> otp[(PageOf(row) * OTP_PAGE_ROWS) + i]]

Flipped(bits) == IF {22, 23} \subseteq bits THEN Bits \ bits ELSE bits
Vote(copies, crit) ==
    {b \in Bits : LET sets == Cardinality({i \in DOMAIN copies : b \in copies[i]})
                  IN  sets >= Len(copies) - sets \/ (crit /\ sets >= 3)}
\* raw_value is that of the last copy, and turned over only if it is not the first.
RawValue(copies) ==
    IF Len(copies) = 1 THEN copies[1] ELSE Flipped(Last(copies))
DoEcc(c) == c.ecc \/ (RegAt(c.row).ecc /\ ~c.raw)
corrected_val(copies, c) ==
    IF DoEcc(c) THEN RawValue(copies) \intersect (0..15)
    ELSE IF Redundancy(c) > 0 THEN Vote(copies, RegAt(c.row).crit) ELSE RawValue(copies)
\* Whether the row is shown with a warning.
Warned(copies, c) ==
    IF DoEcc(c) THEN otp_calculate_ecc(RawValue(copies)) # RawValue(copies)
    ELSE \E i, j \in DOMAIN copies : copies[i] # copies[j]
CopiesFrom(buffer, at, c) ==
    [i \in 1..CopyCount(c) |-> buffer[at + i - 1]]
FieldsOf(row) == IF RegAt(row) = NoReg THEN {} ELSE otp_regs[row].fields
Selected(m) == [row |-> m.row, raw |-> job.raw, ecc |-> job.ecc, copies |-> job.copies]

OtpGet ==
    /\ \E g \in Gets : Begin(g) /\ todo' = g.matches
    /\ result' = "none" /\ pending' = NoRequest /\ UNCHANGED otp

\* The heading and the value of a row are shown at its first match; corrected_val
\* starts as 0 for every match, and the fields are shown from it.
ShowMatch ==
    /\ Working /\ job.kind = "get" /\ todo # <<>>
    /\ LET m == Head(todo)
           buffer == raw_buffer_for(m.row)
           copies == CopiesFrom(buffer, m.row % OTP_PAGE_ROWS, Selected(m))
           first == \A s \in shown : s.row # m.row
           value == IF first THEN corrected_val(copies, Selected(m)) ELSE {}
           heading == [row |-> m.row, mask |-> Bits, value |-> value,
                       warned |-> Warned(copies, Selected(m))]
           fields == {f \in FieldsOf(m.row) : f \intersect m.mask # {}}
       IN  /\ raw_buffer' = buffer
           /\ last_page' = IF Special(PageOf(m.row)) THEN last_page ELSE PageOf(m.row)
           /\ shown' = shown \union (IF first THEN {heading} ELSE {}) \union
                {[row |-> m.row, mask |-> f, value |-> value \intersect f,
                  warned |-> FALSE] : f \in fields}
    /\ todo' = Tail(todo)
    /\ result' = IF Len(todo) = 1 THEN "ok" ELSE "none"
    /\ UNCHANGED <<otp, before, job, pending, commands>>

Next ==
    \/ OtpSet \/ OtpLoadJson \/ NextEntry \/ OtpLoadBinary \/ OtpWhiteLabel \/ NextWrite
    \/ OtpGet \/ ShowMatch \/ Finish
    \/ DeviceWritesRow \/ DeviceRefusesRow \/ ConnectionFails
Spec == Init /\ [][Next]_vars

-----------------------------------------------------------------------------
(* Properties *)

\* The rows that a command was asked to write, the copies included.
SetRows(c) == Copies(c.row, CopyCount(c))
JobRows(c) ==
    CASE c.kind = "set" -> SetRows(c)
      [] c.kind = "json" -> UNION {Copies(e.row, wRowCount(e)) : e \in ToSet(c.entries)}
      [] c.kind = "binary" -> Copies(c.row, Len(c.words))
      [] c.kind = "white_label" ->
            UNION {Copies(w.wRow, Len(w.data)) : w \in ToSet(WlWrites(c))}
      [] OTHER -> {}
\* However a command ends, only rows it was asked for have changed since it began,
\* and no row has lost a bit (otp_set_command, process_otp_json, otp_load_command,
\* otp_white_label_command).
Confined ==
    \A r \in Rows : before[r] \subseteq otp[r] /\ (otp[r] # before[r] => r \in JobRows(job))

CopiesOf(rows, c) == CopiesFrom(rows, c.row, c)
\* After otp set, otp get shows the value that was asked for in the bits that were
\* selected, as far as a word of 32 bits holds it, without a warning, and what it showed
\* in the other bits before, unless the copies of the register were different then.
SetIsShown ==
    (job.kind = "set" /\ result = "ok" /\ job.copies < 0) =>
        LET now == corrected_val(CopiesOf(otp, job), job)
            was == corrected_val(CopiesOf(before, job), job)
            asked == ShiftedUp(BitsOf(job.value), low(job.mask)) \intersect Word
        IN  /\ ~Warned(CopiesOf(otp, job), job)
            /\ Warned(CopiesOf(before, job), job) \/
               /\ now \intersect job.mask =
                    asked \union (IF job.ignore_set THEN was \intersect job.mask ELSE {})
               /\ now \ job.mask = was \ job.mask

Conflict(w, rows) ==
    \E i \in DOMAIN w.data :
        LET row == w.wRow + i - 1
        IN  /\ row \in Rows \ Locked
            /\ IF w.bEcc THEN rows[row] # {} ELSE ~(rows[row] \subseteq w.data[i])
\* The keys of a JSON object are not the same, but two may stand for the same row,
\* which a register's name and its number both do.
EntriesApart(entries) ==
    \A i, j \in DOMAIN entries :
        i # j => Copies(entries[i].row, wRowCount(entries[i]))
                   \intersect Copies(entries[j].row, wRowCount(entries[j])) = {}
\* The device refuses a modification only for what was there before the command:
\* never for what the command wrote itself, unless two entries are for one row, so
\* a load that was interrupted can be repeated; and a set only for a copy, as it has
\* looked at the first row.
RefusedForCause ==
    result = "unsupported_modification" =>
        CASE job.kind = "json" /\ EntriesApart(job.entries) ->
                \E e \in ToSet(job.entries) : Conflict(EntryWrite(e, before[e.row]), before)
          [] job.kind = "set" ->
                \E r \in SetRows(job) : ~(before[r] \subseteq before[job.row])
          [] OTHER -> TRUE

\* What otp dump shows of a JSON file is what loading it leaves in a blank device,
\* unless two entries are for one row: then the second finds what the first wrote.
DumpForetells ==
    (job.kind = "json" /\ result = "ok" /\ EntriesApart(job.entries)
     /\ \A r \in Rows : before[r] = {}) =>
        otp = otp_dump(job.entries)

HeldBy(w, rows) == \A i \in DOMAIN w.data : rows[w.wRow + i - 1] = Row(w.bEcc, w.data[i])
FlagCopies == [i \in 1..otp_regs[flags_row].redundancy |-> otp[flags_row + i - 1]]
\* A string is found, counted from the row in USB_WHITE_LABEL_ADDR, at the high byte
\* of its value, and the low seven bits are its length.
StringFound(w, i) ==
    LET entry == otp[w.row + i - 1] \intersect (0..15)
        place == {b - 8 : b \in entry \intersect (8..15)}
    IN  w.fields[i].kind = "strdef" =>
        \E at \in 0..255 :
            /\ BitsOf(at) = place
            /\ BitsOf(w.fields[i].chars) = entry \intersect (0..6)
            /\ \A k \in DOMAIN w.fields[i].words :
                  otp[w.row + at + k - 1] = otp_calculate_ecc(BitsOf(w.fields[i].words[k]))
\* A revision from 1.00 to 99.99 has one decimal digit in each half byte.
DigitsFound(w, i) ==
    w.fields[i].kind = "bcd" =>
        LET n == w.fields[i].hundredths
        IN  otp[w.row + i - 1] \intersect (0..15) =
                UNION {ShiftedUp(BitsOf((n \div 10^k) % 10), 4 * k) : k \in 0..3}
\* Whenever one copy of the flags says that there is a white label, all of it is
\* there, wherever the command was interrupted: the boot ROM never follows a pointer
\* to a half written one.
WhiteLabelComplete ==
    (\E i \in DOMAIN FlagCopies : WhiteLabelValid \in FlagCopies[i]) =>
        \E w \in WhiteLabels :
            /\ HeldBy(StructWrite(w), otp) /\ HeldBy(AddrWrite(w), otp)
            /\ Vote(FlagCopies, FALSE) \intersect (0..(WlFields - 1)) \subseteq wl_do_fields(w).flags
            /\ \A i \in DOMAIN w.fields : StringFound(w, i) /\ DigitsFound(w, i)

\* The value of a row: of its low half with error correction, else each bit that half
\* of the copies have, or three of a critical register.
VotedValue(row, c) ==
    IF DoEcc(c) THEN otp[row] \intersect (0..15)
    ELSE {b \in Bits :
            LET n == CopyCount(c)
                have == {r \in Copies(row, n) : b \in otp[r]}
            IN  \/ 2 * Cardinality(have) >= n
                \/ RegAt(row).crit /\ Cardinality(have) >= 3}
\* otp get shows every row and every field as it is in the device, whichever pages it
\* has read before, and shows it without a warning only if the copies are equal.
ShownIsVoted ==
    \A s \in shown :
        /\ s.value = VotedValue(s.row, Selected(s)) \intersect s.mask
        /\ (s.mask = Bits /\ ~s.warned /\ ~DoEcc(Selected(s))) =>
                \A r \in Copies(s.row, Redundancy(Selected(s))) : otp[r] = otp[s.row]

Words == {BitsOf(2^i + 2^j) : i, j \in 0..15} \union {{}, 0..15}
Errors == {D \in SUBSET (0..15) : Cardinality(D) \in 1..3}
Differing(a, b) == (a \ b) \union (b \ a)
\* Two values that are not the same differ in four or more of the bits of their rows,
\* so a row with up to three wrong bits is never shown as one that is in order.
\* (Of the values alone, so looked at in the initial states only.)
EccDistance ==
    commands = 0 => \A x \in Words : \A D \in Errors :
        Cardinality(Differing(otp_calculate_ecc(x), otp_calculate_ecc(Differing(x, D)))) >= 4
=============================================================================
