------------------------------ MODULE WireWords ------------------------------
(***************************************************************************)
(* The 64-bit words of a message (capnp_pointer.h, capnp_kinds.h): pointer *)
(* words by their fields, data words by their value.  Offsets stay far     *)
(* below the 29 bits a segment is limited to, so no field wraps.           *)
(***************************************************************************)
EXTENDS Integers, Sequences

CONSTANTS
  ByteBits   \* bits in a byte: 8, or fewer in a small instance

ASSUME WordsAssumption == ByteBits \in Nat \ {0}

WordBytes == 8
WordBits == WordBytes * ByteBits

MakeStruct(off, dwords, pwords) ==
  [kind |-> "struct", off |-> off, dwords |-> dwords, pwords |-> pwords]

MakeList(off, esize, count) ==
  [kind |-> "list", off |-> off, esize |-> esize, count |-> count]

MakeFar(two, off, seg) == [kind |-> "far", two |-> two, off |-> off, seg |-> seg]

MakeCap(index) == [kind |-> "cap", index |-> index]

Data(v) == [kind |-> "data", v |-> v]

\* A word of zero bits is the struct pointer with nothing in it.
Zero == MakeStruct(0, 0, 0)

\* The width of a list element in bits; a composite list has no such width.
Bits ==
  [void |-> 0, bit |-> 1, byte |-> ByteBits, two |-> 2 * ByteBits, four |-> 4 * ByteBits,
   eight |-> WordBits, ptr |-> WordBits]

\* The words `count' elements take.
ListWords(esize, count) == (Bits[esize] * count + WordBits - 1) \div WordBits

\* A word of the message.
Place(seg, word) == [seg |-> seg, word |-> word]

\* What a pointer stands for (capnp_ptr_t): seg and word are where the content
\* starts, or the pointer itself when there is none.  Only the view of a list
\* element has a body, the byte of the word where it starts, and a width in bits.
Object(kind, at, dwords, pwords, esize, count) ==
  [kind |-> kind, at |-> at, body |-> 0, bits |-> 0, dwords |-> dwords, pwords |-> pwords,
   esize |-> esize, count |-> count]

NullAt(place) == Object("null", place, 0, 0, "void", 0)
CapAt(place, index) == Object("cap", place, 0, 0, "void", index)
StructAt(place, dwords, pwords) == Object("struct", place, dwords, pwords, "void", 0)
ListAt(place, esize, count) == Object("list", place, 0, 0, esize, count)
StructsAt(place, count, dwords, pwords) ==
  Object("list", place, dwords, pwords, "composite", count)
ElementAt(place, body, bits) ==
  [Object("struct", place, 1, 0, "void", 0) EXCEPT !.body = body, !.bits = bits]

\* The words of a struct that starts at `place'.
DataPlaces(place, dwords) == {Place(place.seg, place.word + i) : i \in 0 .. (dwords - 1)}
PtrPlaces(place, dwords, pwords) ==
  {Place(place.seg, place.word + dwords + i) : i \in 0 .. (pwords - 1)}

\* Element i of a list of structs, which has no gaps.
Element(list, i) ==
  Place(list.at.seg, list.at.word + i * (list.dwords + list.pwords))
=============================================================================
