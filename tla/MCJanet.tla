------------------------------- MODULE MCJanet -------------------------------
(***************************************************************************)
(* One script, one builder; bytes of two bits.  The schema has one struct  *)
(* with a union, whose arms share their bits and the pointer.              *)
(***************************************************************************)
EXTENDS Capnpc

Field(type, off, value, default) ==
  [type |-> type, off |-> off, value |-> value, default |-> default]
Values(type, items) == [type |-> type, items |-> items]

MCStructs == {<<1, 1>>}
MCStructLists == {<<2, 1, 1>>}
MCFields == {Field("i8", 1, -2, 1), Field("u64", 0, 8193, 3)}
MCStrings == {<<1, 2>>}
MCValueLists == {Values("u16", <<3, 14>>), Values("bool", <<1, 0>>)}
MCFlatMessages ==
  {[dwords |-> 1, pwords |-> 1,
    fields |-> <<Field("u16", 2, 9, 0), Field("bool", 3, 1, 0), Field("text", 0, <<3>>, 0)>>]}

\* A struct with data of five words and a list of two structs, the first with a
\* text.  The data were set last, under a limit of five words: they fill a segment,
\* and the pad of their pointer gets the next (capnp_builder_set_max_seg_words).
MCArrivals ==
  {Serialize(<<<<MakeStruct(0, 0, 2), MakeFar(TRUE, 0, 2), MakeList(0, "composite", 2),
                 MakeStruct(2, 0, 1), MakeList(1, "byte", 3), Zero, Data(9)>>,
               <<Data(1), Data(2), Data(3), Data(4), Data(5)>>,
               <<MakeFar(FALSE, 0, 1), MakeList(0, "byte", 40)>>>>)}

MCNodes ==
  {[id |-> 1, kind |-> "struct", group |-> FALSE, dwords |-> 1, pwords |-> 1,
    tags |-> 5, tagOff |-> 0,
    fields |-> <<Slot("n", "i32", 1, 5, NoTag, 0), Slot("a", "u8", 2, 1, 0, 0),
                 Slot("t", "text", 0, 0, 1, 0), Group("g", 2, 2),
                 Slot("s", "struct", 0, 0, 3, 1), Slot("l", "list", 0, 0, 4, 0)>>],
   [id |-> 2, kind |-> "struct", group |-> TRUE, dwords |-> 1, pwords |-> 1,
    tags |-> 0, tagOff |-> 0,
    fields |-> <<Slot("x", "i16", 1, -1, NoTag, 0), Slot("p", "text", 0, 0, NoTag, 0)>>]}

MCArguments ==
  [i32 |-> {-7}, u8 |-> {2, 4}, text |-> {<<1>>}, i16 |-> {6}, list |-> {<<5, 9>>},
   struct |-> {0}, void |-> {0}]
=============================================================================
