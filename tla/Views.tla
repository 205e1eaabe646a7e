------------------------------- MODULE Views -------------------------------
(***************************************************************************)
(* What the reader (capnp_message.c) makes of the data of an object:       *)
(* fields, elements of lists, texts, and the views by which a list of      *)
(* values is read as a list of structs and the other way round.            *)
(*                                                                         *)
(* A data word holds a number, byte 0 the lowest; a value of n bytes is a  *)
(* number as well.  Floating-point fields are read by their bits.          *)
(***************************************************************************)
EXTENDS Reader

\* The word of zero bits has one form.
WordOf(v) == IF v = 0 THEN Zero ELSE Data(v)

ValueOf(word) == IF word = Zero THEN 0 ELSE word.v

\* Byte b of the segment s, counted from its start.
ByteAt(m, s, b) ==
  (ValueOf(ReadWord(m, s, b \div WordBytes)) \div 2 ^ (ByteBits * (b % WordBytes)))
    % 2 ^ ByteBits

\* The n bytes from byte b on, the lowest first (capnp_load_le32, _le64).
LoadLE(m, s, b, n) ==
  SumFunction([i \in 0 .. (n - 1) |-> ByteAt(m, s, b + i) * 2 ^ (ByteBits * i)])

BitAt(m, s, b) == (ByteAt(m, s, b \div ByteBits) \div 2 ^ (b % ByteBits)) % 2

-----------------------------------------------------------------------------
(* Fields of a struct *)

\* data_bit_count: the view of an element ends with the element.
DataBits(s) == IF s.bits # 0 THEN s.bits ELSE s.dwords * WordBits

\* data_bytes
DataStart(s) == s.at.word * WordBytes + s.body

\* data_has_bytes
HasBytes(s, off, n) == s.kind = "struct" /\ off + n <= DataBits(s) \div ByteBits

\* capnp_get_u8, _u16, _u32, _u64, _f32, _f64: the n bytes at the byte `off'.
GetUint(m, s, off, n, default) ==
  IF HasBytes(s, off, n) THEN LoadLE(m, s.at.seg, DataStart(s) + off, n) ELSE default

\* capnp_get_bool
GetBool(m, s, bit, default) ==
  IF s.kind = "struct" /\ bit < DataBits(s)
  THEN BitAt(m, s.at.seg, DataStart(s) * ByteBits + bit) ELSE default

-----------------------------------------------------------------------------
(* Elements of a list *)

\* The size of a list element in bytes, for those that have one.
ElemBytes == [byte |-> 1, two |-> 2, four |-> 4, eight |-> 8]

\* capnp_list_get_u8 and the other widths: an element of this width, or the
\* start of an element with data.
ListUint(m, l, i, n, default) ==
  IF l.kind # "list" \/ i >= l.count THEN default
  ELSE IF l.esize \in DOMAIN ElemBytes /\ ElemBytes[l.esize] = n
  THEN LoadLE(m, l.at.seg, l.at.word * WordBytes + i * n, n)
  ELSE IF l.esize = "composite" /\ l.dwords >= 1
  THEN LoadLE(m, l.at.seg, Element(l, i).word * WordBytes, n)
  ELSE default

\* capnp_list_get_bool
ListBool(m, l, i, default) ==
  IF l.kind = "list" /\ l.esize = "bit" /\ i < l.count
  THEN BitAt(m, l.at.seg, l.at.word * WordBits + i) ELSE default

\* Mutant: the view of an element is a whole word.
ListStructWide(l, i, left) ==
  IF l.kind # "list" THEN Error("kind", left)
  ELSE IF i >= l.count THEN Error("bounds", left)
  ELSE CASE l.esize = "composite" -> Found(left, StructAt(Element(l, i), l.dwords, l.pwords))
         [] l.esize = "ptr" -> Found(left, StructAt(Place(l.at.seg, l.at.word + i), 0, 1))
         [] l.esize \in {"void", "bit"} -> Error("kind", left)
         [] OTHER ->
              LET byte == l.at.word * WordBytes + i * ElemBytes[l.esize]
              IN  Found(left, ElementAt(Place(l.at.seg, byte \div WordBytes), byte % WordBytes, 0))

\* capnp_list_get_struct: element i as a struct whose only field it is.
ListStruct(l, i, left) ==
  IF l.kind # "list" THEN Error("kind", left)
  ELSE IF i >= l.count THEN Error("bounds", left)
  ELSE CASE l.esize = "composite" -> Found(left, StructAt(Element(l, i), l.dwords, l.pwords))
         [] l.esize = "ptr" -> Found(left, StructAt(Place(l.at.seg, l.at.word + i), 0, 1))
         [] l.esize \in {"void", "bit"} -> Error("kind", left)
         [] OTHER ->
              LET byte == l.at.word * WordBytes + i * ElemBytes[l.esize]
              IN  Found(left, ElementAt(Place(l.at.seg, byte \div WordBytes), byte % WordBytes,
                                        Bits[l.esize]))

-----------------------------------------------------------------------------
(* Texts *)

\* The n bytes of a list, one by one.
BytesOf(m, l, n) ==
  [i \in 1 .. n |-> ByteAt(m, l.at.seg, l.at.word * WordBytes + i - 1)]

String(rc, left, bytes) == [rc |-> rc, left |-> left, bytes |-> bytes]

\* The bytes behind a pointer that has been resolved, all of them: a null pointer
\* has none, and only a list of bytes has any.
BlobOf(m, r) ==
  CASE r.rc # "ok" -> String(r.rc, r.left, <<>>)
    [] r.rc = "ok" /\ r.object.kind = "null" -> String("ok", r.left, <<>>)
    [] r.rc = "ok" /\ r.object.kind = "list" /\ r.object.esize = "byte" ->
         String("ok", r.left, BytesOf(m, r.object, r.object.count))
    [] OTHER -> String("kind", r.left, <<>>)

\* A text, which does not include its NUL.
TextOf(m, r) ==
  LET s == BlobOf(m, r)
  IN  IF s.bytes # <<>> /\ Last(s.bytes) = 0 THEN [s EXCEPT !.bytes = Front(@)] ELSE s

\* capnp_get_text and capnp_get_data
GetText(m, s, i, left) == TextOf(m, Getp(m, s, i, left))
GetBlob(m, s, i, left) == BlobOf(m, Getp(m, s, i, left))

\* capnp_list_get_text: a list of pointers, or of structs whose first pointer
\* is the text.
ListText(m, l, i, left) ==
  CASE l.kind = "list" /\ l.esize = "ptr" -> TextOf(m, ListGetp(m, l, i, left))
    [] l.kind = "list" /\ l.esize = "composite" ->
         LET r == ListGetp(m, l, i, left)
         IN  IF r.rc # "ok" THEN String(r.rc, r.left, <<>>)
             ELSE GetText(m, r.object, 0, r.left)
    [] OTHER -> String("kind", left, <<>>)
=============================================================================
