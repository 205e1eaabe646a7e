------------------------------- MODULE Reader -------------------------------
(***************************************************************************)
(* The message reader (capnp_message.c) as operators on a message, a       *)
(* sequence of segments, each a sequence of words.                         *)
(*                                                                         *)
(* A read is given the words that are left to traverse (traversal_left).   *)
(* Its result has the error code rc, what is then left, and the object     *)
(* that was found.                                                         *)
(***************************************************************************)
EXTENDS WireWords, SequencesExt

CONSTANTS
  MaxSegments,      \* CAPNP_MAX_SEGMENTS
  TraversalLimit,   \* traversal_left of a fresh message, in words
  DepthLimit,       \* depth_limit
  CountRange        \* 2^32: an element count is unsigned

ASSUME ReaderAssumption ==
  /\ MaxSegments \in Nat
  /\ TraversalLimit \in Nat
  /\ DepthLimit \in Nat
  /\ CountRange \in Nat \ {0}

-----------------------------------------------------------------------------
(* Framing, in units of four bytes *)

TableUnits(nsegs) == IF (1 + nsegs) % 2 = 0 THEN 1 + nsegs ELSE 2 + nsegs

\* Mutant: the table is not padded to a whole word.
SerializeUnpadded(m) ==
  LET table == <<Len(m) - 1>> \o [i \in 1 .. Len(m) |-> Len(m[i])]
      body  == FlattenSeq(m)
  IN  IF m[1] = <<>> THEN <<>>
      ELSE table \o [i \in 1 .. 2 * Len(body) |->
                       [word |-> body[(i + 1) \div 2], half |-> i % 2]]

\* capnp_builder_serialize and capnp_message_copy_flat: the number of segments
\* less one, their sizes, padding, then the segments.  A message without a root
\* is not serialized.
Serialize(m) ==
  LET table == [i \in 1 .. TableUnits(Len(m)) |->
                  IF i = 1 THEN Len(m) - 1
                  ELSE IF i <= Len(m) + 1 THEN Len(m[i - 1]) ELSE 0]
      body  == FlattenSeq(m)
  IN  IF m[1] = <<>> THEN <<>>
      ELSE table \o [i \in 1 .. 2 * Len(body) |->
                       [word |-> body[(i + 1) \div 2], half |-> i % 2]]

\* parse_flat: the segments, or none at all when the frame is refused.
Parse(flat) ==
  LET nsegs == flat[1] + 1
      start == [i \in 1 .. nsegs + 1 |->
                  TableUnits(nsegs) + 2 * FoldSeq(+, 0, SubSeq(flat, 2, i))]
  IN  IF \/ Len(flat) < 2
         \/ nsegs > MaxSegments
         \/ Len(flat) < TableUnits(nsegs)
         \/ start[nsegs + 1] > Len(flat)
      THEN <<>>
      ELSE [i \in 1 .. nsegs |->
              [k \in 1 .. flat[i + 1] |-> flat[start[i] + 2 * k].word]]

-----------------------------------------------------------------------------
(* Pointers *)

InBounds(m, s, w) == s \in 0 .. (Len(m) - 1) /\ w \in 0 .. (Len(m[s + 1]) - 1)

ReadWord(m, s, w) == m[s + 1][w + 1]

Found(left, object) == [rc |-> "ok", left |-> left, object |-> object]

Error(rc, left) == [rc |-> rc, left |-> left, object |-> NullAt(Place(0, 0))]

\* Mutant: what has been read once is read again for nothing.
UnchargedFor(left, n, object) ==
  IF n > left THEN Error("traversal", left) ELSE Found(left, object)

\* charge: the object, which costs n words, if so many are left.
Charged(left, n, object) ==
  IF n > left THEN Error("traversal", left) ELSE Found(left - n, object)

\* n words from `at' end in their segment.
EndsWithin(m, at, n) == n > 0 => InBounds(m, at.seg, at.word + n - 1)

\* n words from `at' are in their segment.
Within(m, at, n) == EndsWithin(m, at, n) /\ (n > 0 => InBounds(m, at.seg, at.word))

\* The list of structs behind its tag word, which is at `at'.  The tag has the
\* count where other pointers have a signed offset.
Composite(tag, at) ==
  StructsAt(Place(at.seg, at.word + 1), tag.off % CountRange, tag.dwords, tag.pwords)

Size(list) == list.count * (list.dwords + list.pwords)

\* resolve_word behind a far pointer with a pad of two words: the first says
\* where the content is, the second what it is.  Of the content, only the tag of
\* a list of structs is checked to be in its segment, and a list of data costs
\* nothing.
ResolveDoubleFar(m, pad, tag, at, left) ==
  LET list == Composite(ReadWord(m, at.seg, at.word), at)
  IN  IF pad.kind # "far" \/ pad.two \/ tag.kind \notin {"struct", "list"}
      THEN Error("kind", left)
      ELSE IF tag.kind = "struct"
      THEN Charged(left, tag.dwords + tag.pwords, StructAt(at, tag.dwords, tag.pwords))
      ELSE IF tag.esize # "composite" THEN Found(left, ListAt(at, tag.esize, tag.count))
      ELSE IF ~InBounds(m, at.seg, at.word) THEN Error("bounds", left)
      ELSE Charged(left, 1 + Size(list), list)

\* resolve_word for a near pointer to what is at `at'.  The tag of a list of
\* structs is paid for before the size it states is checked, and of a list only
\* the end is: one that starts before its segment is found if it ends there.
ResolveNear(m, ptr, at, left) ==
  LET size == IF ptr.kind = "struct" THEN ptr.dwords + ptr.pwords
              ELSE ListWords(ptr.esize, ptr.count)
      list == Composite(ReadWord(m, at.seg, at.word), at)
  IN  IF ptr.kind = "list" /\ ptr.esize = "composite"
      THEN IF ~InBounds(m, at.seg, at.word) THEN Error("bounds", left)
           ELSE IF left < 1 THEN Error("traversal", left)
           ELSE IF ~EndsWithin(m, list.at, Size(list)) THEN Error("bounds", left - 1)
           ELSE Charged(left - 1, Size(list), list)
      ELSE IF ptr.kind = "list"
      THEN IF ~EndsWithin(m, at, size) THEN Error("bounds", left)
           ELSE Charged(left, size, ListAt(at, ptr.esize, ptr.count))
      ELSE IF ~Within(m, at, size) THEN Error("bounds", left)
      ELSE Charged(left, size, StructAt(at, ptr.dwords, ptr.pwords))

RECURSIVE ResolveWord(_, _, _, _, _, _)
\* resolve_word, for the word ptr at word w of segment s.  A far pointer with a
\* pad of one word leads to another pointer.
ResolveWord(m, s, w, ptr, depth, left) ==
  LET Read(i) == ReadWord(m, ptr.seg, ptr.off + i)
      pad == IF ptr.two THEN 2 ELSE 1
  IN  CASE depth <= 0 -> Error("depth", left)
        [] depth > 0 /\ ptr = Zero -> Found(left, NullAt(Place(s, w)))
        [] depth > 0 /\ ptr.kind = "cap" -> Found(left, CapAt(Place(s, w), ptr.index))
        [] depth > 0 /\ ptr.kind = "far" ->
             IF ~Within(m, Place(ptr.seg, ptr.off), pad) THEN Error("bounds", left)
             ELSE IF pad > left THEN Error("traversal", left)
             ELSE IF ptr.two
             THEN ResolveDoubleFar(m, Read(0), Read(1), Place(Read(0).seg, Read(0).off), left - 2)
             ELSE ResolveWord(m, ptr.seg, ptr.off, Read(0), depth - 1, left - 1)
        [] OTHER -> ResolveNear(m, ptr, Place(s, w + 1 + ptr.off), left)

\* resolve_ptr
ResolvePtr(m, place, left) ==
  IF ~InBounds(m, place.seg, place.word) THEN Error("bounds", left)
  ELSE IF left < 1 THEN Error("traversal", left)
  ELSE ResolveWord(m, place.seg, place.word, ReadWord(m, place.seg, place.word),
                   DepthLimit, left - 1)

-----------------------------------------------------------------------------
(* Accessors *)

\* capnp_root
GetRoot(m, left) == ResolvePtr(m, Place(0, 0), left)

\* capnp_getp: a pointer an older writer left out reads as null.
Getp(m, s, i, left) ==
  IF s.kind # "struct" THEN Error("kind", left)
  ELSE IF i >= s.pwords THEN Found(left, NullAt(Place(s.at.seg, 0)))
  ELSE ResolvePtr(m, Place(s.at.seg, s.at.word + s.dwords + i), left)

\* A word of the data section; beyond its end reads as the default.
GetData(m, s, i, default) ==
  IF s.kind # "struct" \/ i >= s.dwords THEN default
  ELSE ReadWord(m, s.at.seg, s.at.word + i)

\* capnp_list_getp
ListGetp(m, l, i, left) ==
  CASE l.kind # "list" -> Error("kind", left)
    [] l.kind = "list" /\ i >= l.count -> Error("bounds", left)
    [] l.kind = "list" /\ i < l.count /\ l.esize = "ptr" ->
         ResolvePtr(m, Place(l.at.seg, l.at.word + i), left)
    [] l.kind = "list" /\ i < l.count /\ l.esize = "composite" ->
         Found(left, StructAt(Element(l, i), l.dwords, l.pwords))
    [] OTHER -> Error("kind", left)

\* The words of a list of data.
ListData(m, l) ==
  [i \in 1 .. ListWords(l.esize, l.count) |-> ReadWord(m, l.at.seg, l.at.word + i - 1)]
=============================================================================
