------------------------------ MODULE JanetMod ------------------------------
(***************************************************************************)
(* The Janet module (janet_mod.c): messages, pointers and builders as      *)
(* objects of a garbage-collected heap.  A script holds some of them; each *)
(* keeps what it rests on alive by its gcmark function.                    *)
(*                                                                         *)
(* The arena of the builder is that of the module Builder.  A call that    *)
(* panics and leaves everything as it was is no step.                      *)
(***************************************************************************)
EXTENDS Message, Views, Bitwise

CONSTANTS
  DoubleBits,    \* a Janet number is exact up to 2^DoubleBits (53)
  Fields,        \* the scalars a script sets: [type, off, value, default]
  Strings,       \* texts and data, as sequences of bytes
  ValueLists,    \* lists of values: [type, items]
  FlatMessages,  \* arguments of build-message: [dwords, pwords, fields]
  Arrivals,      \* frames that come from a file or a peer
  MaxCalls       \* bound: steps of a script

VARIABLES
  heap,    \* the objects, by the order they were made in
  held,    \* the objects the script refers to
  given,   \* ghost: field or pointer slot of the arena -> the value set there
  calls    \* what the script has done so far, in steps

janetVars == <<heap, held, given, calls>>
allVars == <<vars, janetVars>>

\* What the heap holds.  The segments of a message lie in its own storage or in
\* the buffer `data'; `view' is the buffer it keeps alive.  Ghosts are `fields'
\* of a buffer (what build-message was told), and `was' and `spent' of a
\* message (the frame it was made of, the words of the objects it has handed out
\* and charged); `node' and `torn' of a bptr belong to the module Capnpc.
Buffer(flat, fields) == [type |-> "buffer", flat |-> flat, fields |-> fields]
Msg(own, data, view, was) ==
  [type |-> "message", own |-> own, data |-> data, view |-> view, left |-> TraversalLimit,
   was |-> was, spent |-> 0]
Ptr(msg, object) == [type |-> "ptr", msg |-> msg, object |-> object]
Arena == [type |-> "builder", root |-> FALSE]
BPtr(b, at, dwords, pwords) ==
  [type |-> "bptr", builder |-> b, at |-> at, dwords |-> dwords, pwords |-> pwords,
   node |-> 0, torn |-> FALSE]
BList(b, list) == [type |-> "blist", builder |-> b, list |-> list]
Freed == [type |-> "freed"]

Held(type) == {h \in held : heap[h].type = type}

\* The structs a script writes with the functions of this module.  Those that
\* have generated accessors it writes with these (the module Capnpc).
Plain == {h \in Held("bptr") : heap[h].node = 0}

\* The script does something.
Call == calls < MaxCalls /\ calls' = calls + 1

\* The call returns `obj', a new object, when the heap has become hp.
Gives(hp, obj) ==
  /\ heap' = Append(hp, obj)
  /\ held' = held \cup {Len(heap) + 1}

-----------------------------------------------------------------------------
(* Values *)

\* The widths of the scalar types, in bits.
Width ==
  [bool |-> 1, u8 |-> ByteBits, i8 |-> ByteBits, u16 |-> 2 * ByteBits, i16 |-> 2 * ByteBits,
   u32 |-> 4 * ByteBits, i32 |-> 4 * ByteBits, u64 |-> WordBits, i64 |-> WordBits]

Signed == {"i8", "i16", "i32", "i64"}

Least(t) == IF t \in Signed THEN -(2 ^ (Width[t] - 1)) ELSE 0
Greatest(t) == IF t \in Signed THEN 2 ^ (Width[t] - 1) - 1 ELSE 2 ^ Width[t] - 1

\* The casts from a value to its bits and back.
Raw(t, v) == v % 2 ^ Width[t]
Cast(t, raw) == IF raw > Greatest(t) THEN raw - 2 ^ Width[t] ELSE raw

\* A Janet number is a double and loses the low bits of what is too large; a
\* boxed integer is exact.
Number(v) == [boxed |-> FALSE, v |-> IF v \in -(2 ^ DoubleBits) .. 2 ^ DoubleBits THEN v ELSE v - (v % 2)]
Boxed(v) == [boxed |-> TRUE, v |-> v]

\* Mutant: every integer is a number.
WrapNumber(t, v) == Number(v)

\* janet_wrap_number, wrap_u64_lossless, wrap_i64_lossless
Wrap(t, v) ==
  IF t \in {"u64", "i64"} /\ v \notin -(2 ^ DoubleBits) .. 2 ^ DoubleBits THEN Boxed(v)
  ELSE Number(v)

\* The argument checks: get_u8_arg, get_i8_arg, janet_getuinteger16 and the others.
Accepts(t, j) == j.v \in Least(t) .. Greatest(t)

\* Mutant: the default is not folded in.
FieldBitsPlain(t, v, default) == Raw(t, v)

\* The setters store a value exclusive-or the default of its field, ...
FieldBits(t, v, default) == Raw(t, v) ^^ Raw(t, default)

\* ... and the getters undo that; a field that is not there reads as the default.
FieldValue(t, raw, default) == Wrap(t, Cast(t, raw ^^ Raw(t, default)))

\* cfun_get_u8 ... cfun_get_bool
GetField(m, s, f) ==
  FieldValue(f.type,
             IF f.type = "bool" THEN GetBool(m, s, f.off, 0)
             ELSE GetUint(m, s, f.off, Width[f.type] \div ByteBits, 0),
             f.default)

\* cfun_list_get_value; the default is returned as it is.
GetElement(m, l, t, i, default) ==
  Wrap(t, Cast(t, IF t = "bool" THEN ListBool(m, l, i, default)
                  ELSE ListUint(m, l, i, Width[t] \div ByteBits, Raw(t, default))))

\* The words of a list of values of `width' bits.
Pack(raws, width) ==
  LET per == WordBits \div width
      Word(k) == {i \in DOMAIN raws : (i - 1) \div per = k - 1}
  IN  [k \in 1 .. ((Len(raws) + per - 1) \div per) |->
         WordOf(SumFunction([i \in Word(k) |-> raws[i] * 2 ^ (width * ((i - 1) % per))]))]

\* The element size of a list of values (set_list_prim).
ESize(t) ==
  CASE t = "bool" -> "bit"
    [] t \in {"u8", "i8"} -> "byte"
    [] t \in {"u16", "i16"} -> "two"
    [] t \in {"u32", "i32"} -> "four"
    [] OTHER -> "eight"

-----------------------------------------------------------------------------
(* Garbage collection *)

\* Mutant: a message does not mark the buffer it views.
MarksNoView(o) ==
  CASE o.type = "ptr" -> {o.msg}
    [] o.type \in {"bptr", "blist"} -> {o.builder}
    [] OTHER -> {}

\* msg_gcmark, ptr_gcmark, builder_ptr_gcmark, builder_list_gcmark
Marks(o) ==
  CASE o.type = "message" -> IF o.view = 0 THEN {} ELSE {o.view}
    [] o.type = "ptr" -> {o.msg}
    [] o.type \in {"bptr", "blist"} -> {o.builder}
    [] OTHER -> {}

\* A pointer marks its message, which marks its buffer: two rounds are enough.
Marked ==
  LET More(S) == S \cup UNION {Marks(heap[h]) : h \in S}
  IN  More(More(held))

\* The collector frees what is not marked (msg_gc, builder_gc).
Collect ==
  /\ \E h \in DOMAIN heap : h \notin Marked /\ heap[h] # Freed
  /\ heap' = [h \in DOMAIN heap |-> IF h \in Marked THEN heap[h] ELSE Freed]
  /\ UNCHANGED <<vars, held, given, calls>>

\* The script forgets an object.
Drop ==
  /\ Call
  /\ \E h \in held : held' = held \ {h}
  /\ UNCHANGED <<vars, heap, given>>

-----------------------------------------------------------------------------
(* Messages *)

\* The frame a message reads: its own copy, or the data of a buffer.
Frame(w) == IF w.data = 0 THEN w.own ELSE heap[w.data].flat

\* capnp_message_from_flat and _view_flat: the message of the frame in buffer h.
CopyOf(flat, h) == Msg(flat, 0, 0, flat)
ViewOf(flat, h) == Msg(<<>>, h, h, flat)

\* cfun_message_from_buffer
MessageFromBuffer ==
  /\ Call
  /\ \E h \in Held("buffer") :
       /\ Parse(heap[h].flat) # <<>>
       /\ Gives(heap, CopyOf(heap[h].flat, h))
  /\ UNCHANGED <<vars, given>>

\* cfun_message_view_buffer
MessageViewBuffer ==
  /\ Call
  /\ \E h \in Held("buffer") :
       /\ Parse(heap[h].flat) # <<>>
       /\ Gives(heap, ViewOf(heap[h].flat, h))
  /\ UNCHANGED <<vars, given>>

\* The script writes into a buffer.  It leaves one alone as long as it can
\* reach a view of it.
ChangeBuffer ==
  /\ Call
  /\ \E h \in Held("buffer") :
       /\ heap[h].flat # <<>>
       /\ ~\E w \in Marked : heap[w].type = "message" /\ heap[w].view = h
       /\ heap' = [heap EXCEPT ![h] = Buffer(<<>>, {})]
  /\ UNCHANGED <<vars, held, given>>

\* The words an object takes, which the message has handed out with it.
Extent(o) ==
  CASE o.kind = "struct" -> o.dwords + o.pwords
    [] o.kind = "list" /\ o.esize = "composite" -> Size(o)
    [] o.kind = "list" /\ o.esize # "composite" -> ListWords(o.esize, o.count)
    [] OTHER -> 0

\* Slot i of a struct or of a list of pointers.
SlotOf(o, i) == Place(o.at.seg, o.at.word + o.dwords + i)

\* What is behind the pointer at `place' costs nothing: a list, not of structs,
\* behind a pad of two words (resolve_word returns before it charges).
Gratis(m, place) ==
  /\ InBounds(m, place.seg, place.word)
  /\ LET far == ReadWord(m, place.seg, place.word)
     IN  /\ far.kind = "far" /\ far.two
         /\ LET tag == ReadWord(m, far.seg, far.off + 1)
            IN  tag.kind = "list" /\ tag.esize # "composite"

\* The words that are paid for with an object of n words behind `place'.
Paid(m, place, n) == IF Gratis(m, place) THEN 0 ELSE n

\* A read of message w ended with r: what was charged is gone, also when the
\* call panics; otherwise a pointer comes back (make_ptr).
ReadEnds(w, r, extent) ==
  LET hp == [heap EXCEPT ![w].left = r.left,
                         ![w].spent = @ + (IF r.rc = "ok" THEN extent ELSE 0)]
  IN  /\ IF r.rc = "ok" THEN Gives(hp, Ptr(w, r.object))
         ELSE heap' = hp /\ heap' # heap /\ UNCHANGED held
      /\ UNCHANGED <<vars, given>>

\* cfun_root
CfunRoot ==
  /\ Call
  /\ \E w \in Held("message") :
       LET m == Parse(Frame(heap[w]))
           r == GetRoot(m, heap[w].left)
       IN  ReadEnds(w, r, Paid(m, Place(0, 0), Extent(r.object)))

\* cfun_getp
CfunGetp ==
  /\ Call
  /\ \E h \in Held("ptr"), i \in 0 .. 1 :
       LET w == heap[h].msg
           m == Parse(Frame(heap[w]))
           r == Getp(m, heap[h].object, i, heap[w].left)
       IN  ReadEnds(w, r, Paid(m, SlotOf(heap[h].object, i), Extent(r.object)))

\* ptr_get with a number, cfun_list_getp: element i of a list.
CfunListGetp ==
  /\ Call
  /\ \E h \in Held("ptr"), i \in 0 .. 1 :
       LET w == heap[h].msg
           l == heap[h].object
           m == Parse(Frame(heap[w]))
           r == ListGetp(m, l, i, heap[w].left)
       IN  ReadEnds(w, r, IF l.esize = "composite" THEN 0
                          ELSE Paid(m, SlotOf(l, i), Extent(r.object)))

\* cfun_get_text, cfun_get_data, cfun_list_get_text return strings: only the
\* traversal counter moves.
CfunGetText ==
  /\ Call
  /\ \E h \in Held("ptr") :
       LET w == heap[h].msg
           o == heap[h].object
           m == Parse(Frame(heap[w]))
       IN  \E r \in {GetText(m, o, 0, heap[w].left), GetBlob(m, o, 0, heap[w].left),
                     ListText(m, o, 0, heap[w].left)} :
             /\ r.left # heap[w].left
             /\ heap' = [heap EXCEPT ![w].left = r.left,
                                     ![w].spent = @ + Paid(m, SlotOf(o, 0),
                                                           ListWords("byte", Len(r.bytes)))]
  /\ UNCHANGED <<vars, held, given>>

-----------------------------------------------------------------------------
(* Builders *)

\* cfun_new_builder, one in a run of the script
NewBuilder ==
  /\ Call
  /\ segs = <<>>
  /\ \E n \in FirstSizes : segs' = <<[words |-> <<>>, cap |-> MinOf(n, Ceiling)]>>
  /\ Gives(heap, Arena)
  /\ UNCHANGED <<maxSeg, single, built, vals, given>>

\* The arena becomes that of st, where the slots and fields in `over' have lost
\* the value they were given, and `now' is given to those in its domain.
Sets(st, over, now) ==
  /\ Becomes(st)
  /\ given' = [k \in (DOMAIN given \ over) \cup DOMAIN now |->
                 IF k \in DOMAIN now THEN now[k] ELSE given[k]]

\* A pointer slot, and a field, in the domain of `given'.
SlotKey(place) == [at |-> place, off |-> 0, width |-> 0]
FieldKey(at, f) ==
  [at |-> at, width |-> Width[f.type],
   off |-> IF f.type = "bool" THEN f.off ELSE f.off * ByteBits]

Nothing == [k \in {} |-> 0]

\* capnp_builder_slot, for the pointers get_pointer_index lets through.
Slots(p) == PtrPlaces(p.at, p.dwords, p.pwords)

\* cfun_init_root
InitRoot ==
  /\ Call
  /\ \E b \in Held("builder"), s \in Structs :
       LET st == RootOn(State)
           at == StructBody(st, Place(0, 0), s[1], s[2]).at
       IN  /\ ~heap[b].root
           /\ Sets(StructOn(st, Place(0, 0), s[1], s[2]), {}, Nothing)
           /\ Gives([heap EXCEPT ![b].root = TRUE], BPtr(b, at, s[1], s[2]))

\* cfun_init_root when there is no memory for the struct: it panics, and the root
\* counts as initialized.
InitRootFails ==
  /\ Call
  /\ \E b \in Held("builder"), s \in Structs :
       /\ ~heap[b].root
       /\ 1 + s[1] + s[2] > Last(segs).cap
       /\ heap' = [heap EXCEPT ![b].root = TRUE]
  /\ Sets(RootOn(State), {}, Nothing)
  /\ UNCHANGED held

\* cfun_init_struct
InitStruct ==
  /\ Call
  /\ \E h \in Plain, s \in Structs : \E slot \in Slots(heap[h]) :
       /\ Building
       /\ Sets(StructOn(State, slot, s[1], s[2]), {SlotKey(slot)}, Nothing)
       /\ LET at == StructBody(State, slot, s[1], s[2]).at
          IN  Gives(heap, BPtr(heap[h].builder, at, s[1], s[2]))

\* cfun_init_struct_list
InitStructList ==
  /\ Call
  /\ \E h \in Plain, l \in StructLists : \E slot \in Slots(heap[h]) :
       LET st == ListStructOn(State, slot, l[1], l[2], l[3])
       IN  /\ Building
           /\ Sets(st, {SlotKey(slot)}, Nothing)
           /\ Gives(heap, BList(heap[h].builder, st.built[slot]))

\* cfun_struct_list_at
StructListAt ==
  /\ Call
  /\ \E h \in Held("blist") : \E i \in 0 .. (heap[h].list.count - 1) :
       LET l == heap[h].list
       IN  Gives(heap, BPtr(heap[h].builder, Element(l, i), l.dwords, l.pwords))
  /\ UNCHANGED <<vars, given>>

\* `raw' takes `width' bits of the data section at `at', from bit `off' on
\* (capnp_builder_set_u8 and the others).  A field is in one word.
PutBits(st, at, off, width, raw) ==
  LET place == Place(at.seg, at.word + off \div WordBits)
      unit  == 2 ^ (off % WordBits)
      old   == ValueOf(st.segs[place.seg + 1].words[place.word + 1])
      word  == WordOf(old + (raw - ((old \div unit) % 2 ^ width)) * unit)
  IN  [Know(st, place, Zero, {}, [x \in {place} |-> word]) EXCEPT !.segs = Store(@, place, word)]

\* The keys of the fields that share bits with k.
Overlapping(k) ==
  {j \in DOMAIN given : j.at = k.at /\ j.off < k.off + k.width /\ k.off < j.off + j.width}

\* cfun_set_u8 ... cfun_set_bool, with require_data_range and require_bool_range
SetField ==
  /\ Call
  /\ \E h \in Plain, f \in Fields :
       LET k == FieldKey(heap[h].at, f)
       IN  /\ Accepts(f.type, Wrap(f.type, f.value))
           /\ k.off + k.width <= heap[h].dwords * WordBits
           /\ Sets(PutBits(State, heap[h].at, k.off, k.width,
                           FieldBits(f.type, f.value, f.default)),
                   Overlapping(k), [x \in {k} |-> f])
  /\ UNCHANGED <<heap, held>>

\* The slot holds `items', set as a text, as data or as a list.
SlotValue(slot, as, items) == [k \in {SlotKey(slot)} |-> [type |-> as, items |-> items]]

\* cfun_set_text and cfun_set_data.  A text gets a NUL.
SetString ==
  /\ Call
  /\ Building
  /\ \E h \in Plain, s \in Strings : \E slot \in Slots(heap[h]) :
       \/ Sets(PutList(State, slot, "byte", Len(s) + 1, Pack(Append(s, 0), ByteBits)),
               {}, SlotValue(slot, "text", s))
       \/ Sets(PutList(State, slot, "byte", Len(s), Pack(s, ByteBits)),
               {}, SlotValue(slot, "data", s))
  /\ UNCHANGED <<heap, held>>

\* cfun_set_list_values checks every item before it touches the arena.
SetListValues ==
  /\ Call
  /\ Building
  /\ \E h \in Plain, l \in ValueLists : \E slot \in Slots(heap[h]) :
       /\ \A i \in DOMAIN l.items : Accepts(l.type, Wrap(l.type, l.items[i]))
       /\ Sets(PutList(State, slot, ESize(l.type), Len(l.items),
                       Pack([i \in DOMAIN l.items |-> Raw(l.type, l.items[i])], Width[l.type])),
               {}, SlotValue(slot, l.type, l.items))
  /\ UNCHANGED <<heap, held>>

\* cfun_set_list_text
SetTexts ==
  /\ Call
  /\ Building
  /\ \E h \in Plain, s \in Strings : \E slot \in Slots(heap[h]) :
       Sets(ListTextOn(State, slot,
                       <<[length |-> Len(s), words |-> Pack(Append(s, 0), ByteBits)]>>),
            {}, SlotValue(slot, "texts", <<s>>))
  /\ UNCHANGED <<heap, held>>

\* cfun_set_list_void
SetListVoid ==
  /\ Call
  /\ \E h \in Plain : \E slot \in Slots(heap[h]) :
       Sets(PutList(State, slot, "void", 2, <<>>), {SlotKey(slot)}, Nothing)
  /\ UNCHANGED <<heap, held>>

\* cfun_clear_pointer
ClearPointer ==
  /\ Call
  /\ \E h \in Plain : \E slot \in Slots(heap[h]) :
       /\ built[slot].kind # "null"
       /\ ClearPtr(slot)
       /\ given' = [k \in DOMAIN given \ {SlotKey(slot)} |-> given[k]]
  /\ UNCHANGED <<heap, held>>

\* cfun_finish_builder
FinishBuilder ==
  /\ Call
  /\ \E b \in Held("builder") : heap[b].root /\ Gives(heap, Buffer(Serialize(Image), {}))
  /\ UNCHANGED <<vars, given>>

\* cfun_build_message: a struct with its fields, in an arena of its own.
BuildMessage ==
  /\ Call
  /\ \E f \in FlatMessages :
       LET fresh == [segs |-> <<[words |-> <<>>, cap |-> Ceiling]>>,
                     built |-> Blank({}), vals |-> Blank({})]
           body  == StructOn(RootOn(fresh), Place(0, 0), f.dwords, f.pwords)
           Put(st, x) ==
             IF x.type = "text"
             THEN PutList(st, Place(0, 1 + f.dwords + x.off), "byte", Len(x.value) + 1,
                          Pack(Append(x.value, 0), ByteBits))
             ELSE LET k == FieldKey(Place(0, 1), x)
                  IN  PutBits(st, k.at, k.off, k.width, Raw(x.type, x.value))
       IN  Gives(heap, Buffer(Serialize(<<FoldLeft(Put, body, f.fields).segs[1].words>>),
                              Range(f.fields)))
  /\ UNCHANGED <<vars, given>>

-----------------------------------------------------------------------------

\* The script starts with nothing, or with a buffer.
JanetInit ==
  /\ segs = <<>>
  /\ maxSeg = 0
  /\ single = FALSE
  /\ built = Blank({})
  /\ vals = Blank({})
  /\ heap \in {<<>>} \cup {<<Buffer(flat, {})>> : flat \in Arrivals}
  /\ held = DOMAIN heap
  /\ given = Nothing
  /\ calls = 0

JanetNext ==
  \/ MessageFromBuffer \/ MessageViewBuffer \/ ChangeBuffer
  \/ CfunRoot \/ CfunGetp \/ CfunListGetp \/ CfunGetText
  \/ NewBuilder \/ InitRoot \/ InitRootFails \/ InitStruct \/ InitStructList
  \/ StructListAt \/ SetField \/ SetString \/ SetListValues \/ SetTexts \/ SetListVoid
  \/ ClearPointer \/ FinishBuilder \/ BuildMessage
  \/ Drop \/ Collect

JanetSpec == JanetInit /\ [][JanetNext]_allVars

-----------------------------------------------------------------------------
(* The protocols of a list *)

Nil == -1

\* Mutant: iteration ends one element late.
PtrNextLate(l, key) ==
  IF key = Nil THEN IF l.count > 0 THEN 0 ELSE Nil
  ELSE IF key + 1 <= l.count THEN key + 1 ELSE Nil

\* ptr_next
PtrNext(l, key) ==
  IF key = Nil THEN IF l.count > 0 THEN 0 ELSE Nil
  ELSE IF key + 1 < l.count THEN key + 1 ELSE Nil

\* ptr_get: what (in l i) makes of a list; out of range it is nil.
PtrGet(m, l, i) ==
  IF i \in 0 .. (l.count - 1) THEN ListGetp(m, l, i, TraversalLimit)
  ELSE Error("nil", TraversalLimit)

RECURSIVE Each(_, _, _)
\* What (each x l ...) visits from `key' on.
Each(m, l, key) ==
  IF key = Nil THEN <<>> ELSE <<PtrGet(m, l, key)>> \o Each(m, l, PtrNext(l, key))

-----------------------------------------------------------------------------
(* Properties *)

\* As long as a script holds a handle, whatever it has dropped and however often
\* the collector ran, what the handle reads or writes is there: the arena, the
\* message, and under a view the buffer; and the message reads what its
\* buffer held when it was made (ptr_gcmark, msg_gcmark, builder_ptr_gcmark).
HandlesStayGood ==
  LET Lives(h) == heap[h] # Freed
      MessageGood(w) ==
        Lives(w) /\ (heap[w].data # 0 => Lives(heap[w].data)) /\ Frame(heap[w]) = heap[w].was
  IN  \A h \in held :
        /\ Lives(h)
        /\ heap[h].type = "message" => MessageGood(h)
        /\ heap[h].type = "ptr" => MessageGood(heap[h].msg)
        /\ heap[h].type \in {"bptr", "blist"} => Lives(heap[h].builder)

\* The structs the arena holds, those in lists included.
Bodies ==
  UNION {CASE o.kind = "struct" -> {o}
           [] o.kind = "list" /\ o.esize = "composite" ->
                {StructAt(Element(o, i), o.dwords, o.pwords) : i \in 0 .. (o.count - 1)}
           [] OTHER -> {} : o \in Range(built)}

\* The message a script would get from the builder now, if it has a root.
Finished == IF segs # <<>> /\ Used(segs, 0) > 0 THEN Received ELSE <<>>

\* A value that was set, through whichever handle, and not overwritten since, is
\* what the getter of the same type and default returns from the finished
\* message, however the arena grew and whatever was set around it.
ValuesReadBack ==
  LET m == Finished
      SlotReads(r, g) ==
        CASE g.type = "text" -> TextOf(m, r).bytes = g.items
          [] g.type = "data" -> BlobOf(m, r).bytes = g.items
          [] g.type = "texts" ->
               \A i \in DOMAIN g.items :
                 ListText(m, r.object, i - 1, TraversalLimit).bytes = g.items[i]
          [] OTHER ->
               /\ r.object.count = Len(g.items)
               /\ \A i \in DOMAIN g.items :
                    GetElement(m, r.object, g.type, i - 1, 0).v = g.items[i]
      FlatReads(n, f) ==
        LET root == GetRoot(n, TraversalLimit).object
        IN  IF f.type = "text" THEN GetText(n, root, f.off, TraversalLimit).bytes = f.value
            ELSE GetField(n, root, [f EXCEPT !.default = 0]).v = f.value
  IN  /\ m # <<>> =>
           \A k \in DOMAIN given :
             IF k.width = 0 THEN SlotReads(ResolvePtr(m, k.at, TraversalLimit), given[k])
             ELSE \A s \in Bodies : s.at = k.at => GetField(m, s, given[k]).v = given[k].value
      /\ \A h \in DOMAIN heap :
           heap[h].type = "buffer" => \A f \in heap[h].fields : FlatReads(Parse(heap[h].flat), f)

\* A list reads the same as a list of values and as a list of structs whose
\* first field is the value, in both directions; the view of an element never
\* shows its neighbours, and lists of Bool and Void have no such view
\* (capnp_list_get_struct, capnp_list_get_u8 ..., capnp_list_get_text).
ViewsAgree ==
  LET m == Finished
      Default == -1
      SameData(l, i, s) ==
        \A n \in Range(ElemBytes) : ListUint(m, l, i, n, Default) = GetUint(m, s, 0, n, Default)
      SameText(l, i, s) ==
        ListText(m, l, i, TraversalLimit) = GetText(m, s, 0, TraversalLimit)
      InElement(l, i, s) ==
        LET w == ElemBytes[l.esize]
            v == ListUint(m, l, i, w, Default)
        IN  \A off \in 0 .. w, n \in Range(ElemBytes) :
              GetUint(m, s, off, n, Default) =
                IF off + n > w THEN Default ELSE (v \div 2 ^ (ByteBits * off)) % 2 ^ (ByteBits * n)
      Agrees(l, i, r) ==
        CASE l.esize \in {"void", "bit"} -> r.rc = "kind"
          [] l.esize = "composite" -> SameData(l, i, r.object) /\ SameText(l, i, r.object)
          [] l.esize = "ptr" -> SameText(l, i, r.object)
          [] OTHER -> InElement(l, i, r.object)
  IN  m # <<>> =>
        \A l \in Range(built) :
          l.kind = "list" =>
            \A i \in 0 .. (l.count - 1) : Agrees(l, i, ListStruct(l, i, TraversalLimit))

\* Iterating over a list of structs or pointers visits every element once, in
\* order, and what is visited is what was put there (ptr_next, ptr_get).
EachVisitsAll ==
  LET m == Finished
      Elements(l) ==
        [i \in 1 .. l.count |->
           IF l.esize = "ptr" THEN built[Place(l.at.seg, l.at.word + i - 1)]
           ELSE StructAt(Element(l, i - 1), l.dwords, l.pwords)]
      Visited(l) == Each(m, l, PtrNext(l, Nil))
  IN  m # <<>> =>
        \A l \in Range(built) :
          l.kind = "list" /\ l.esize \in {"ptr", "composite"} =>
            /\ Len(Visited(l)) = l.count
            /\ \A i \in 1 .. l.count : Visited(l)[i].object = Elements(l)[i]

\* However a script mixes reads and repeats them, through any of the handles of a
\* message, near, far or double far, the objects it was given are no more words
\* than the traversal limit allows (charge), short of the lists behind a double
\* far pointer that resolve_word hands out for nothing.
BudgetHolds ==
  \A w \in DOMAIN heap :
    heap[w].type = "message" => heap[w].spent + heap[w].left <= TraversalLimit

\* Every integer a field can hold survives the way into the message and back into
\* Janet, whatever the default of the field, also where a double would round it.
\* The values are those around the bounds of the type and of a double.
IntegersSurvive ==
  calls = 0 =>
    \A t \in DOMAIN Width :
      LET values ==
            {x + d : x \in {Least(t), -(2 ^ DoubleBits), 0, 2 ^ DoubleBits, Greatest(t)},
                     d \in -2 .. 2} \cap (Least(t) .. Greatest(t))
      IN  \A v, default \in values :
            LET j == FieldValue(t, FieldBits(t, v, default), default)
            IN  j.v = v /\ Accepts(t, j)
=============================================================================
