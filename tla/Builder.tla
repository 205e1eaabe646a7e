------------------------------- MODULE Builder -------------------------------
(***************************************************************************)
(* The message builder (capnp_builder.c): an arena of segments that grow,  *)
(* and the pointers, near, far and double far, that join what an           *)
(* application builds in it.                                               *)
(*                                                                         *)
(* `built' and `vals' are ghosts: what the application put in every        *)
(* pointer word and every data word it was given.  The library knows       *)
(* neither.                                                                *)
(***************************************************************************)
EXTENDS WireWords, FiniteSetsExt, SequencesExt

CONSTANTS
  FirstSizes,    \* first_words of capnp_builder_init_sized
  Limits,        \* arguments of capnp_builder_set_max_seg_words, which takes any
  Ceiling,       \* CAPNP_BUILDER_MAX_SEGMENT_WORDS, the limit when none is set
  Structs,       \* sizes <<dwords, pwords>> of structs
  Lists,         \* <<esize, count>> of lists of data
  StructLists,   \* <<count, dwords, pwords>> of lists of structs
  Texts,         \* lists of texts, as sequences of their lengths
  Payloads,      \* values of data words
  MaxTotal       \* bound: an application stops building at so many words

ASSUME BuilderAssumption ==
  /\ FirstSizes \subseteq Nat
  /\ Limits \subseteq Nat
  /\ Ceiling \in Nat \ {0, 1}
  /\ Structs \subseteq Nat \X Nat
  /\ Lists \subseteq (DOMAIN Bits \ {"ptr"}) \X Nat
  /\ StructLists \subseteq Nat \X Nat \X Nat
  /\ Texts \subseteq Seq(Nat)
  /\ MaxTotal \in Nat

VARIABLES
  segs,      \* the segments: their used words and their capacity
  maxSeg,    \* max_seg_words; 0 stands for Ceiling
  single,    \* force_single
  built,     \* ghost: pointer word -> the object put there
  vals       \* ghost: data word -> its value

vars == <<segs, maxSeg, single, built, vals>>

-----------------------------------------------------------------------------
(* The arena *)

MinOf(a, b) == IF a <= b THEN a ELSE b
MaxOf(a, b) == IF a <= b THEN b ELSE a

\* The sequence of n times w.
Copies(n, w) == SubSeq([i \in 1 .. n |-> w], 1, n)

Zeros(n) == Copies(n, Zero)

LimWords == IF maxSeg = 0 THEN Ceiling ELSE maxSeg

\* Words and segments are numbered from zero.
Used(sg, s) == Len(sg[s + 1].words)

Store(sg, place, w) == [sg EXCEPT ![place.seg + 1].words[place.word + 1] = w]

\* seg_ensure: the capacity doubles until `need' words fit, up to the limit.
Grown(cap, need) ==
  LET doubled[k \in 0 .. need] == IF k = 0 THEN cap ELSE 2 * doubled[k - 1]
  IN  IF need <= cap
      THEN cap
      ELSE MinOf(Min({c \in {doubled[k] : k \in 1 .. need} : c >= need}), LimWords)

\* Mutant: the used words grow, the capacity does not.
ExtendUnchecked(sg, s, n) == [sg EXCEPT ![s + 1].words = @ \o Zeros(n)]

\* n more words at the end of segment s.
Extend(sg, s, n) ==
  [sg EXCEPT ![s + 1] = [words |-> @.words \o Zeros(n),
                         cap   |-> Grown(@.cap, Len(@.words) + n)]]

\* Whether alloc_words finds n words.
Fits(sg, n) ==
  /\ n <= LimWords
  /\ single => Len(Last(sg).words) + n <= MaxOf(Last(sg).cap, LimWords)

\* alloc_words: in the last segment, or in a new one of twice its capacity.
AllocWords(sg, n) ==
  LET s    == Len(sg) - 1
      need == Used(sg, s) + n
      cap  == MinOf(MaxOf(2 * Last(sg).cap, n), LimWords)
  IN  IF single \/ (need <= Last(sg).cap /\ need <= LimWords)
      THEN [segs |-> Extend(sg, s, n), at |-> Place(s, Used(sg, s))]
      ELSE [segs |-> Append(sg, [words |-> Zeros(n), cap |-> cap]), at |-> Place(s + 1, 0)]

-----------------------------------------------------------------------------
(* Pointers *)

\* Mutant: the landing pad keeps the offset of a pad that does not count itself.
WritePtrOffByOne(sg, place, at, ptr) ==
  LET pad == Used(sg, at.seg)
      Make(off) == [ptr EXCEPT !.off = off]
  IN  IF place.seg = at.seg
      THEN Store(sg, place, Make(at.word - place.word - 1))
      ELSE Store(Store(Extend(sg, at.seg, 1), Place(at.seg, pad), Make(at.word - pad)),
                 place, MakeFar(FALSE, pad, at.seg))

\* write_struct_ptr and write_list_ptr: `place' leads to what is at `at', by the
\* pointer `ptr' once its offset is known.  The landing pad of a far pointer joins the segment
\* of the object; when that is full, a pad of two words gets a segment of its own.
WritePtr(sg, place, at, ptr) ==
  LET pad == Used(sg, at.seg)
      Make(off) == [ptr EXCEPT !.off = off]
  IN  IF place.seg = at.seg
      THEN Store(sg, place, Make(at.word - place.word - 1))
      ELSE IF pad + 1 <= LimWords
      THEN Store(Store(Extend(sg, at.seg, 1), Place(at.seg, pad), Make(at.word - pad - 1)),
                 place, MakeFar(FALSE, pad, at.seg))
      ELSE Store(Append(sg, [words |-> <<MakeFar(FALSE, at.word, at.seg), Make(0)>>, cap |-> 2]),
                 place, MakeFar(TRUE, 0, Len(sg)))

\* The words from `at' on take the values ws.
Fill(sg, at, ws) ==
  [sg EXCEPT ![at.seg + 1].words =
     SubSeq(@, 1, at.word) \o ws \o SubSeq(@, at.word + Len(ws) + 1, Len(@))]

-----------------------------------------------------------------------------
(* What the application knows *)

State == [segs |-> segs, built |-> built, vals |-> vals]

\* The application has put `obj' at `place', and was given the pointer words
\* `ptrs' and the data words that `data' gives a value.
Know(st, place, obj, ptrs, data) ==
  [st EXCEPT
     !.built = [x \in DOMAIN @ \cup ptrs |->
                  IF x = place THEN obj ELSE IF x \in DOMAIN @ THEN @[x] ELSE NullAt(x)],
     !.vals  = [x \in DOMAIN @ \cup DOMAIN data |-> IF x \in DOMAIN data THEN data[x] ELSE @[x]]]

\* The data words at `places', all zero.
Blank(places) == [x \in places |-> Zero]

\* The arena and the ghosts become those of st.
Becomes(st) ==
  /\ segs' = st.segs
  /\ built' = st.built
  /\ vals' = st.vals
  /\ UNCHANGED <<maxSeg, single>>

Building == FoldSeq(LAMBDA s, n : Len(s.words) + n, 0, segs) < MaxTotal

-----------------------------------------------------------------------------
(* Operations *)

\* capnp_builder_init_sized, and force_single, which a caller sets by hand.
Init ==
  /\ \E n \in FirstSizes :
       segs = <<[words |-> <<>>, cap |-> MinOf(MaxOf(n, 1), Ceiling)]>>
  /\ maxSeg = 0
  /\ single \in BOOLEAN
  /\ built = [x \in {} |-> Zero]
  /\ vals = [x \in {} |-> Zero]

\* Mutant: the limit does not count its last word.
SetMaxSegWordsBeyond(n) ==
  /\ maxSeg # n
  /\ maxSeg' = n + 1
  /\ UNCHANGED <<segs, single, built, vals>>

\* capnp_builder_set_max_seg_words
SetMaxSegWords(n) ==
  /\ maxSeg # n
  /\ maxSeg' = n
  /\ UNCHANGED <<segs, single, built, vals>>

\* The operations, as what they make of a state; `Fits' is what they need.

\* capnp_builder_root
RootOn(st) ==
  LET g == AllocWords(st.segs, 1)
  IN  [Know(st, g.at, NullAt(g.at), {g.at}, Blank({})) EXCEPT !.segs = g.segs]

Root ==
  /\ Used(segs, 0) = 0
  /\ Fits(segs, 1)
  /\ AllocWords(segs, 1).at = Place(0, 0)
  /\ Becomes(RootOn(State))

\* capnp_builder_struct.  A struct of no words has its body in its own slot.
StructBody(st, place, dwords, pwords) ==
  IF dwords + pwords = 0 THEN [segs |-> st.segs, at |-> place]
  ELSE AllocWords(st.segs, dwords + pwords)

StructOn(st, place, dwords, pwords) ==
  LET g   == StructBody(st, place, dwords, pwords)
      ptr == MakeStruct(-1, dwords, pwords)
  IN  [Know(st, place, StructAt(g.at, dwords, pwords),
            PtrPlaces(g.at, dwords, pwords), Blank(DataPlaces(g.at, dwords)))
         EXCEPT !.segs = WritePtr(g.segs, place, g.at, ptr)]

Struct(place, dwords, pwords) ==
  /\ Fits(segs, dwords + pwords)
  /\ Becomes(StructOn(State, place, dwords, pwords))

\* write_text_at, capnp_builder_set_data, set_list_prim: a list of data whose
\* words are ws.  A list of no words starts behind its pointer.
PutList(st, place, esize, count, ws) ==
  LET g == IF ws = <<>>
           THEN [segs |-> st.segs, at |-> Place(place.seg, place.word + 1)]
           ELSE AllocWords(st.segs, Len(ws))
      ptr == MakeList(0, esize, count)
      data == [x \in DataPlaces(g.at, Len(ws)) |-> ws[x.word - g.at.word + 1]]
  IN  [Know(st, place, ListAt(g.at, esize, count), {}, data)
         EXCEPT !.segs = WritePtr(Fill(g.segs, g.at, ws), place, g.at, ptr)]

\* capnp_builder_set_text, _set_data, _set_list_u8 and the other element types
SetList(place, esize, count, ws) ==
  /\ Fits(segs, Len(ws))
  /\ Becomes(PutList(State, place, esize, count, ws))

\* capnp_builder_set_list_text_n: the list of pointers first, then text by text
\* until one does not fit; those before it stay.  A text counts its NUL.
ListTextOn(st, place, texts) ==
  LET n == Len(texts)
      g == IF n = 0
           THEN [segs |-> st.segs, at |-> Place(place.seg, place.word + 1)]
           ELSE AllocWords(st.segs, n)
      ptr == MakeList(0, "ptr", n)
      empty ==
        [Know(st, place, ListAt(g.at, "ptr", n), PtrPlaces(g.at, 0, n), Blank({}))
           EXCEPT !.segs = WritePtr(g.segs, place, g.at, ptr)]
      Put(acc, i) ==
        IF acc.ok /\ Fits(acc.st.segs, Len(texts[i].words))
        THEN [acc EXCEPT !.st = PutList(@, Place(g.at.seg, g.at.word + i - 1),
                                        "byte", texts[i].length + 1, texts[i].words)]
        ELSE [acc EXCEPT !.ok = FALSE]
      after[i \in 0 .. n] == IF i = 0 THEN [ok |-> TRUE, st |-> empty] ELSE Put(after[i - 1], i)
  IN  after[n].st

SetListText(place, texts) ==
  /\ Fits(segs, Len(texts))
  /\ Becomes(ListTextOn(State, place, texts))

\* capnp_builder_set_list_struct: a tag word, then the elements.
ListStructOn(st, place, count, dwords, pwords) ==
  LET words == count * (dwords + pwords)
      g     == AllocWords(st.segs, 1 + words)
      first == Place(g.at.seg, g.at.word + 1)
      list  == StructsAt(first, count, dwords, pwords)
      elems == {Element(list, i) : i \in 0 .. (count - 1)}
      ptr == MakeList(0, "composite", words)
  IN  [Know(st, place, list,
            UNION {PtrPlaces(x, dwords, pwords) : x \in elems},
            Blank(UNION {DataPlaces(x, dwords) : x \in elems}))
         EXCEPT !.segs = WritePtr(Store(g.segs, g.at, MakeStruct(count, dwords, pwords)),
                                  place, g.at, ptr)]

SetListStruct(place, count, dwords, pwords) ==
  /\ Fits(segs, 1 + count * (dwords + pwords))
  /\ Becomes(ListStructOn(State, place, count, dwords, pwords))

\* capnp_builder_set_cap
SetCap(place, index) ==
  Becomes([Know(State, place, CapAt(place, index), {}, Blank({}))
             EXCEPT !.segs = Store(segs, place, MakeCap(index))])

\* capnp_builder_clear_ptr
ClearPtr(place) ==
  Becomes([Know(State, place, NullAt(place), {}, Blank({}))
             EXCEPT !.segs = Store(segs, place, Zero)])

\* capnp_builder_set_u64 and the other widths, by the word they are in
SetData(place, v) ==
  Becomes([Know(State, place, Zero, {}, [x \in {place} |-> v]) EXCEPT !.segs = Store(segs, place, v)])

\* What an application does with the words it was given.
Build ==
  /\ Building
  /\ \E place \in DOMAIN built :
       \/ \E s \in Structs : Struct(place, s[1], s[2])
       \/ \E l \in Lists, v \in Payloads :
            SetList(place, l[1], l[2], Copies(ListWords(l[1], l[2]), Data(v)))
       \/ \E t \in Texts, v \in Payloads :
            SetListText(place, [i \in DOMAIN t |->
              [length |-> t[i], words |-> Copies(ListWords("byte", t[i] + 1), Data(v))]])
       \/ \E l \in StructLists : SetListStruct(place, l[1], l[2], l[3])
       \/ SetCap(place, 1)
       \/ built[place].kind # "null" /\ ClearPtr(place)

Write == \E place \in DOMAIN vals, v \in Payloads : SetData(place, Data(v))

Next ==
  \/ \E n \in Limits : SetMaxSegWords(n)
  \/ Root
  \/ Build
  \/ Write

Spec == Init /\ [][Next]_vars

-----------------------------------------------------------------------------
(* Properties *)

WireWord ==
  [kind : {"struct"}, off : Int, dwords : Nat, pwords : Nat]
  \cup [kind : {"list"}, off : Int, esize : DOMAIN Bits \cup {"composite"}, count : Nat]
  \cup [kind : {"far"}, two : BOOLEAN, off : Nat, seg : Nat]
  \cup [kind : {"cap"}, index : Nat]
  \cup {Data(v) : v \in Payloads}

InArena(sg, place) ==
  /\ place \in [seg : Nat, word : Nat]
  /\ place.seg < Len(sg)
  /\ place.word < Used(sg, place.seg)

\* Every word that an application was given is a word of the arena, and none was
\* given twice, as a pointer and as data.
TypeOK ==
  /\ segs \in Seq([words : Seq(WireWord), cap : Nat \ {0}])
  /\ maxSeg \in Limits \cup {0}
  /\ single \in BOOLEAN
  /\ \A x \in DOMAIN built \cup DOMAIN vals : InArena(segs, x)
  /\ DOMAIN built \cap DOMAIN vals = {}

\* A segment never uses more words than were allocated for it, whichever way it
\* grew: by alloc_words, by a landing pad, under a limit that was lowered later.
WordsAllocated == \A i \in DOMAIN segs : Len(segs[i].words) <= segs[i].cap

\* A segment has room for c words only if the ceiling, or a limit that the
\* application sets, allows so many.
Allowed(c) == c <= Ceiling \/ \E l \in Limits : c <= l

\* No segment grows beyond the larger of the ceiling and the limits the
\* application sets, though capacities double and pads come on top.
CapsAllowed == \A i \in DOMAIN segs : Allowed(segs[i].cap)

\* The pointer words and the data words of an object.
ObjectPtrs(o) ==
  CASE o.kind = "struct" -> PtrPlaces(o.at, o.dwords, o.pwords)
    [] o.kind = "list" /\ o.esize = "ptr" -> PtrPlaces(o.at, 0, o.count)
    [] o.kind = "list" /\ o.esize = "composite" ->
         UNION {PtrPlaces(Element(o, i), o.dwords, o.pwords) : i \in 0 .. (o.count - 1)}
    [] OTHER -> {}

ObjectData(o) ==
  CASE o.kind = "struct" -> DataPlaces(o.at, o.dwords)
    [] o.kind = "list" /\ o.esize \in DOMAIN Bits \ {"ptr"} ->
         DataPlaces(o.at, ListWords(o.esize, o.count))
    [] o.kind = "list" /\ o.esize = "composite" ->
         UNION {DataPlaces(Element(o, i), o.dwords) : i \in 0 .. (o.count - 1)}
    [] OTHER -> {}

ObjectWords(o) == ObjectPtrs(o) \cup ObjectData(o)

\* The objects the slots `known' lead to consist of words the application was
\* given, pointers of pointers and data of data, and no two of them share one.
ObjectsApart(known) ==
  /\ \A x \in known : /\ ObjectPtrs(built[x]) \subseteq DOMAIN built
                      /\ ObjectData(built[x]) \subseteq DOMAIN vals
  /\ \A x, y \in known : x # y => ObjectWords(built[x]) \cap ObjectWords(built[y]) = {}
=============================================================================
