------------------------------- MODULE Picobin -------------------------------
(***************************************************************************)
(* The metadata blocks of an RP2350 binary (src/bintool/metadata.h): a     *)
(* block is a START word, items, a LAST item with their size, the distance *)
(* to the next block, and an END word.                                     *)
(*                                                                         *)
(* A word is <<kind, size, value>>: what its low byte says it is, the size *)
(* it has when it is read as the header of an item, and what else it       *)
(* holds.  Every word has a size, since a scan may take any word for a     *)
(* header.  An item is its header and one word for each thing it holds (a  *)
(* load map entry is one word here, three in the file; a digest one        *)
(* instead of eight).  Addresses and sizes count words.                    *)
(***************************************************************************)
EXTENDS Integers, Sequences, SequencesExt, FiniteSetsExt

Start == <<"start", 65502, 0>>
End == <<"end", 53, 0>>
LastItem(n) == <<"last", n, 0>>
Rel(delta) == <<"rel", 1, delta>>
Num(n) == <<"num", 1, n>>
Code(n, size) == <<"code", size, n>>
Zero == Code(0, 0)

Kind(word) == word[1]
decode_size(word) == word[2]

(***************************************************************************)
(* Reading                                                                 *)
(***************************************************************************)

\* Where the loop over the items behind a START at index `b' ends: at a LAST
\* item or behind the words; 0 when it stays for ever at an item of size 0.
Walked(words, b) ==
  LET to[i \in Nat] ==
        IF i > Len(words) \/ Kind(words[i]) = "last" THEN i
        ELSE IF decode_size(words[i]) = 0 THEN 0
        ELSE to[i + decode_size(words[i])]
  IN  to[b + 1]

\* The LAST item has the right size and is followed by a link and END.
IsBlock(words, b) ==
  LET e == Walked(words, b)
  IN  /\ words[b] = Start
      /\ e \in 1 .. Len(words) - 2
      /\ decode_size(words[e]) = e - b - 1
      /\ words[e + 2] = End

\* Storage addresses in a load map are relative to the item, save 0.
Moved(word, by) ==
  IF Kind(word) = "entry" /\ word[3][1] # 0
  THEN <<"entry", 1, <<word[3][1] + by, word[3][2], word[3][3]>>>>
  ELSE word

Item(kind, flags, data) == [kind |-> kind, flags |-> flags, data |-> data]

item_parse(words, i, addr) ==
  Item(Kind(words[i]), IF Kind(words[i]) = "ignored" THEN {} ELSE words[i][3],
       [k \in 1 .. decode_size(words[i]) - 1 |-> Moved(words[i + k], addr)])

\* In a block no item has size 0: the recursion asks so that it has a value everywhere.
block_parse_FromStart(words, b, at) ==
  LET e == Walked(words, b)
      items[i \in Nat] ==
        IF i \notin b + 1 .. e - 1 \/ decode_size(words[i]) = 0 THEN <<>>
        ELSE <<item_parse(words, i, at + b - 1)>> \o items[i + decode_size(words[i])]
  IN  [at |-> at + b - 1, rel |-> words[e + 1][3], index |-> e + 1 - b, items |-> items[b + 1]]

\* The block whose START is at index `b' of words that begin at address `at'.
block_parse(words, b, at) ==
  LET e == Walked(words, b)
      items[i \in Nat] ==
        IF i \notin b + 1 .. e - 1 \/ decode_size(words[i]) = 0 THEN <<>>
        ELSE <<item_parse(words, i, at + i - 1)>> \o items[i + decode_size(words[i])]
  IN  [at |-> at + b - 1, rel |-> words[e + 1][3], index |-> e + 1 - b, items |-> items[b + 1]]

NextAt(block) == block.at + block.rel

(***************************************************************************)
(* Writing                                                                 *)
(***************************************************************************)

item_to_words_FromBlock(item, at, offset) ==
  << <<item.kind, 1 + Len(item.data), item.flags>> >> \o
  (IF item.kind = "hash_def" /\ item.data = <<Num(0)>> THEN <<Num(offset + 2)>>
   ELSE [k \in 1 .. Len(item.data) |-> Moved(item.data[k], -at)])

\* A HASH_DEF that does not say how many words to hash says up to itself.
item_to_words(item, at, offset) ==
  << <<item.kind, 1 + Len(item.data), item.flags>> >> \o
  (IF item.kind = "hash_def" /\ item.data = <<Num(0)>> THEN <<Num(offset + 2)>>
   ELSE [k \in 1 .. Len(item.data) |-> Moved(item.data[k], -(at + offset))])

\* Where item k begins: behind START and the items before it.
word_offset(items, k) == 1 + MapThenSumSet(LAMBDA j : 1 + Len(items[j].data), 1 .. k - 1)
block_to_words(block) ==
  LET body == <<Start>> \o FlattenSeq([k \in DOMAIN block.items |->
                item_to_words(block.items[k], block.at, word_offset(block.items, k))])
  IN  body \o <<LastItem(Len(body) - 1), Rel(block.rel), End>>

HasItem(block, kind) == \E i \in DOMAIN block.items : block.items[i].kind = kind
get_item(block, kind) == SelectSeq(block.items, LAMBDA item : item.kind = kind)[1]
Without(items, kind) == SelectSeq(items, LAMBDA item : item.kind # kind)
==============================================================================
