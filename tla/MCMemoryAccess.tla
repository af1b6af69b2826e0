--------------------------- MODULE MCMemoryAccess ---------------------------
(* Pages and blocks of two cells, sectors of four, a chip of two sectors   *)
(* that appears twice in the window; RAM at 18, 19 and 20 has its values   *)
(* in flash at 1, 2 and 0.  The cache is checked on a chip content that    *)
(* looks different wherever it is read from, the writes on every content.  *)
EXTENDS MemoryAccess

MCMapping == 18 :> [to |-> 20, storage |-> 1] @@ 20 :> [to |-> 21, storage |-> 0]

S(client, base, size, writeable) ==
    [client |-> client, base |-> base, size |-> size, writeable |-> writeable]
MCSessions ==
    {S("info", 2, 5, TRUE),                             \* a partition in the middle
     S("config", 0, 8, TRUE), S("config", 4, 4, TRUE),
     S("fatfs", 0, 8, TRUE), S("fatfs", 2, 6, TRUE), S("fatfs", 4, 4, FALSE),
     S("littlefs", 4, 4, TRUE), S("littlefs", 0, 4, FALSE)}

MCImages(client) ==
    IF client = "info" THEN {[l \in Locs |-> IF l \in {1, 2, 4} THEN 1 ELSE 0]}
    ELSE [Locs -> Bits]
MCReadSizes(client) == IF client = "info" THEN 1..5 ELSE {2}
MCWriteSizes(client) == IF client = "config" THEN {1, 2} ELSE {2, 4}
=============================================================================
