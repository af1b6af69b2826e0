-------------------------------- MODULE MCOtp --------------------------------
(***************************************************************************)
(* An OTP of three pages of sixteen rows for TLC.  The first page has a    *)
(* critical register with eight copies, USB_BOOT_FLAGS with three,         *)
(* USB_WHITE_LABEL_ADDR, a key of two rows and a row without a register,   *)
(* the second is free for white labels and the last has the page locks.    *)
(***************************************************************************)
EXTENDS Otp

Reg(ecc, crit, redundancy, seq_length, fields) ==
    [ecc |-> ecc, crit |-> crit, redundancy |-> redundancy,
     seq_length |-> seq_length, fields |-> fields]
MCRegs == [r \in {0, 8, 11, 12, 13, 32, 34} |->
    CASE r = 0 -> Reg(FALSE, TRUE, 8, 0, {{0}, {4, 5}})
      [] r = 8 -> Reg(FALSE, FALSE, 3, 0, {{23}, {22}, {1}, {0}})
      [] r = 11 -> Reg(TRUE, FALSE, 1, 0, {})
      [] r \in {12, 13} -> Reg(TRUE, FALSE, 1, 2, {{0, 1, 2}})
      [] OTHER -> Reg(FALSE, FALSE, 1, 0, {{0, 1, 2}})]
Blank == [r \in Rows |-> {}]
\* An earlier tool has written one copy of USB_BOOT_FLAGS only, and a key.
MCProgrammed == {Blank, [Blank EXCEPT ![9] = {23}, ![12] = otp_calculate_ecc({1})]}
MCLocked == {34}

Set(row, mask, field, value, ignore_set) ==
    [kind |-> "set", row |-> row, mask |-> mask, field |-> field, value |-> value,
     ignore_set |-> ignore_set, ecc |-> FALSE, raw |-> FALSE, copies |-> -1]
MCSets ==
    { Set(0, {0}, TRUE, 1, FALSE), Set(0, {4, 5}, TRUE, 2, FALSE), Set(0, {4, 5}, TRUE, 1, FALSE),
      Set(0, {4, 5}, TRUE, 4, FALSE),
      Set(8, {23}, TRUE, 1, FALSE), Set(8, {23}, TRUE, 3, FALSE), Set(8, {23}, TRUE, 513, FALSE), Set(8, Bits, FALSE, 8388608, FALSE),
      Set(12, Bits, FALSE, 5, FALSE), Set(12, {0, 1, 2}, TRUE, 3, FALSE),
      Set(14, Bits, FALSE, 6, FALSE), Set(14, Bits, FALSE, 1, TRUE),
      [Set(14, Bits, FALSE, 6, FALSE) EXCEPT !.ecc = TRUE],
      [Set(8, {23}, TRUE, 1, FALSE) EXCEPT !.copies = 1],
      Set(32, {0, 1, 2}, TRUE, 3, FALSE), Set(34, Bits, FALSE, 1, FALSE) }

Fields(row, fields) ==
    [row |-> row, sequence |-> FALSE, fields |-> fields, words |-> <<>>,
     ecc |-> FALSE, redundancy |-> 1]
Value(row, sequence, words) ==
    [row |-> row, sequence |-> sequence, fields |-> {}, words |-> words,
     ecc |-> FALSE, redundancy |-> 1]
Json(entries) == [kind |-> "json", entries |-> entries]
Binary(row, ecc, words) ==
    [kind |-> "binary", row |-> row, ecc |-> ecc, raw |-> FALSE, words |-> words]
MCFiles ==
    { Json(<<Fields(8, {[mask |-> {23}, value |-> 1]}), Value(12, TRUE, <<2, 65537>>)>>),
      Json(<<Fields(0, {[mask |-> {0}, value |-> 1], [mask |-> {4, 5}, value |-> 3]}),
             Value(12, TRUE, <<7>>)>>),
      Json(<<Value(8, FALSE, <<8388608>>), [Value(14, FALSE, <<3>>) EXCEPT !.redundancy = 2]>>),
      Json(<<[Value(14, FALSE, <<3, 4>>) EXCEPT !.ecc = TRUE], Fields(12, {[mask |-> {0, 1, 2}, value |-> 8]})>>),
      Json(<<Value(12, TRUE, <<1, 2, 3>>)>>),
      Binary(14, TRUE, <<9, 40000>>), Binary(14, FALSE, <<6, 0>>), Binary(47, FALSE, <<1, 1>>) }

Absent == [kind |-> "absent"]
Number(n) == [kind |-> "value", value |-> n]
Revision(n) == [kind |-> "bcd", hundredths |-> n]
Strdef(chars, words) == [kind |-> "strdef", chars |-> chars, unicode |-> FALSE, words |-> words]
WhiteLabel(row, fields) == [kind |-> "white_label", row |-> row, fields |-> fields]
MCWhiteLabels ==
    { WhiteLabel(16, <<Number(0), Strdef(3, <<7, 9>>), Strdef(1, <<5>>)>>),
      WhiteLabel(16, <<Absent, Strdef(3, <<7, 9>>), Strdef(1, <<5>>)>>),
      WhiteLabel(24, <<Revision(123), Absent, Strdef(1, <<3>>)>>),
      WhiteLabel(24, <<Revision(1020), Absent, Strdef(1, <<3>>)>>) }

Get(matches) ==
    [kind |-> "get", matches |-> matches, raw |-> FALSE, ecc |-> FALSE, copies |-> -1]
Match(row, mask) == [row |-> row, mask |-> mask]
MCGets ==
    { Get(<<Match(0, Bits), Match(8, {23}), Match(12, Bits), Match(16, Bits), Match(32, Bits)>>),
      Get(<<Match(8, Bits), Match(14, Bits), Match(32, {0, 1, 2}), Match(34, Bits)>>),
      [Get(<<Match(8, Bits), Match(12, Bits)>>) EXCEPT !.raw = TRUE],
      [Get(<<Match(14, Bits)>>) EXCEPT !.ecc = TRUE] }
\* README: ROW_SEL.n selects a single bit, ROW_SEL.n-m a range of bits.
BitSets == { Set(14, {5}, FALSE, 1, FALSE), Set(0, {4, 5}, FALSE, 2, FALSE) }
NoCommands == {}
=============================================================================
