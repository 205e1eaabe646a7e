------------------------------- MODULE Capnpc -------------------------------
(***************************************************************************)
(* The schema compiler plugin (app/capnpc_janet.c) by the accessors it     *)
(* generates for structs, unions and groups: each is a sequence of calls   *)
(* of the Janet module, and a call that panics ends it, which leaves what  *)
(* the calls before it did.                                                *)
(*                                                                         *)
(* The request is a set of nodes.  Names are those of the schema.          *)
(***************************************************************************)
EXTENDS JanetMod

CONSTANTS
  Nodes,      \* [id, kind, group, dwords, pwords, tags, tagOff, fields]
  Arguments   \* type -> the arguments a script gives to a setter

\* The tag of a field that is no member of a union.
NoTag == -1

\* The fields of a node: [name, slot, type, off, default, tag, of].  An offset is
\* in units of the type, `of' is the id of a group or of a struct type.
Slot(name, type, off, default, tag, of) ==
  [name |-> name, slot |-> TRUE, type |-> type, off |-> off, default |-> default, tag |-> tag,
   of |-> of]
Group(name, tag, of) == [Slot(name, "void", 0, 0, tag, of) EXCEPT !.slot = FALSE]

\* node_by_id
NodeById(id) == CHOOSE n \in Nodes : n.id = id

\* struct_shape: a type that is not in the request, or no struct, has no words.
StructShape(id) ==
  IF \E n \in Nodes : n.id = id /\ n.kind = "struct"
  THEN <<NodeById(id).dwords, NodeById(id).pwords>> ELSE <<0, 0>>

-----------------------------------------------------------------------------
(* Emission *)

Scalars == DOMAIN Width

\* scalar_byte_offset; an enum is a u16.
ScalarByteOffset(type, off) ==
  CASE type \in {"u16", "i16"} -> off * 2
    [] type \in {"u32", "i32"} -> off * 4
    [] type \in {"u64", "i64"} -> off * 8
    [] OTHER -> off

\* scalar_default_literal: a literal that a double cannot hold is boxed.
DefaultLiteral(type, default) == Wrap(type, default).v

\* A call of an accessor: a scalar to set, the argument or a constant, or a
\* pointer slot to set, to initialize or to clear.
SetCall(type, off, default) ==
  [fn |-> "set", type |-> type, off |-> off, const |-> FALSE, v |-> 0, default |-> default,
   shape |-> <<0, 0>>]
ConstCall(type, off, v) == [SetCall(type, off, 0) EXCEPT !.const = TRUE, !.v = v]
SlotCall(fn, off, shape) == [SetCall("void", off, 0) EXCEPT !.fn = fn, !.shape = shape]

\* emit_union_select
UnionSelect(n, f) ==
  IF n.tags > 0 /\ f.tag # NoTag THEN <<ConstCall("u16", n.tagOff * 2, f.tag)>> ELSE <<>>

\* Mutant: pointers stay.
ClearCallKeeps(f) ==
  CASE f.type \in Scalars -> <<ConstCall(f.type, ScalarByteOffset(f.type, f.off), 0)>>
    [] OTHER -> <<>>

\* What emit_group_clear writes for a slot.
ClearCall(f) ==
  CASE f.type \in Scalars -> <<ConstCall(f.type, ScalarByteOffset(f.type, f.off), 0)>>
    [] f.type \in {"text", "data", "list", "struct"} ->
         <<SlotCall("clear", f.off, <<0, 0>>)>>
    [] OTHER -> <<>>

RECURSIVE GroupSlots(_)
\* The slots of a group and of the groups in it.  The tag of a union in the
\* group is none of them.
GroupSlots(id) ==
  FlattenSeq([i \in DOMAIN NodeById(id).fields |->
                LET f == NodeById(id).fields[i]
                IN  IF f.slot THEN <<f>> ELSE GroupSlots(f.of)])

\* emit_group_clear
GroupClear(id) ==
  LET slots == GroupSlots(id) IN FlattenSeq([i \in DOMAIN slots |-> ClearCall(slots[i])])

\* The setter or initializer emit_struct writes for a field.
SetterOf(n, f) ==
  UnionSelect(n, f) \o
    (CASE ~f.slot -> GroupClear(f.of)
       [] f.slot /\ f.type \in Scalars ->
            <<SetCall(f.type, ScalarByteOffset(f.type, f.off),
                      DefaultLiteral(f.type, f.default))>>
       [] f.slot /\ f.type \in {"text", "data", "list"} ->
            <<SlotCall(f.type, f.off, <<0, 0>>)>>
       [] f.slot /\ f.type = "struct" -> <<SlotCall("struct", f.off, StructShape(f.of))>>
       [] OTHER -> <<>>)

\* The getter emit_struct writes for a scalar, and its `which'.
GetterOf(f) ==
  LET width == IF f.type = "bool" THEN 1 ELSE Width[f.type] \div ByteBits
  IN  [type |-> f.type, off |-> f.off * width, default |-> DefaultLiteral(f.type, f.default)]
WhichOf(n) == [type |-> "u16", off |-> n.tagOff * 2, default |-> 0]

-----------------------------------------------------------------------------
(* Generated code at work *)

\* One call on the struct p, with the argument of the accessor.
Do(acc, p, c, arg) ==
  LET slot == Place(p.at.seg, p.at.word + p.dwords + c.off)
      off  == IF c.type = "bool" THEN c.off ELSE c.off * ByteBits
      v    == IF c.const THEN c.v ELSE arg
      At(st) == [acc EXCEPT !.st = st]
  IN  CASE c.fn = "set" ->
             IF /\ Accepts(c.type, Wrap(c.type, v))
                /\ off + Width[c.type] <= p.dwords * WordBits
             THEN At(PutBits(acc.st, p.at, off, Width[c.type], FieldBits(c.type, v, c.default)))
             ELSE [acc EXCEPT !.ok = FALSE]
        [] c.fn = "text" ->
             At(PutList(acc.st, slot, "byte", Len(arg) + 1, Pack(Append(arg, 0), ByteBits)))
        [] c.fn = "data" -> At(PutList(acc.st, slot, "byte", Len(arg), Pack(arg, ByteBits)))
        [] c.fn = "list" -> At(PutList(acc.st, slot, "two", Len(arg), Pack(arg, 2 * ByteBits)))
        [] c.fn = "struct" ->
             [At(StructOn(acc.st, slot, c.shape[1], c.shape[2])) EXCEPT
                !.body = StructBody(acc.st, slot, c.shape[1], c.shape[2]).at]
        [] c.fn = "clear" ->
             At([Know(acc.st, slot, NullAt(slot), {}, Blank({}))
                   EXCEPT !.segs = Store(@, slot, Zero)])

\* The calls of an accessor, on the struct p.
Execute(p, body, arg) ==
  LET Then(acc, c) == IF acc.ok THEN Do(acc, p, c, arg) ELSE acc
  IN  FoldLeft(Then, [st |-> State, ok |-> TRUE, body |-> p.at], body)

\* Where the schema puts a slot.
SchemaKey(p, f) ==
  IF f.type \in Scalars
  THEN [at |-> p.at, width |-> Width[f.type], off |-> f.off * Width[f.type]]
  ELSE SlotKey(Place(p.at.seg, p.at.word + p.dwords + f.off))

\* What a slot holds when it was set to v, and when it was cleared.
Holds(f, v) ==
  IF f.type \in Scalars THEN GetterOf(f) @@ ("value" :> v)
  ELSE [type |-> IF f.type = "list" THEN "u16" ELSE f.type, items |-> v]
Cleared(f) == IF f.type \in Scalars THEN Holds(f, f.default) ELSE Holds(f, <<>>)

\* What an accessor means to do.
TagMeant(p, n, f) ==
  IF UnionSelect(n, f) = <<>> THEN Nothing
  ELSE [at |-> p.at, width |-> Width["u16"], off |-> n.tagOff * Width["u16"]]
         :> (WhichOf(n) @@ ("value" :> f.tag))
Meant(p, n, f, arg) ==
  LET slots == IF f.slot THEN {f} ELSE Range(GroupSlots(f.of))
  IN  [k \in {SchemaKey(p, g) : g \in {x \in slots : x.type \notin {"void", "struct"}}} |->
         LET g == CHOOSE x \in slots : SchemaKey(p, x) = k
         IN  IF f.slot THEN Holds(g, arg) ELSE Cleared(g)]
      @@ TagMeant(p, n, f)

\* The arm a union is set to.
Which(m, p, n) == GetField(m, StructAt(p.at, p.dwords, p.pwords), WhichOf(n)).v

\* The nodes whose accessors go with the struct p: its own, and the groups in it
\* that are in force.
InForce(m, p, n, f) == n.tags = 0 \/ f.tag = NoTag \/ Which(m, p, n) = f.tag
NodesOf(m, p) ==
  LET n == NodeById(p.node)
  IN  {n} \cup {NodeById(f.of) : f \in {x \in Range(n.fields) : ~x.slot /\ InForce(m, p, n, x)}}

\* A generated setter or initializer.
Accessor ==
  /\ Call
  /\ Building
  /\ \E h \in Held("bptr") \ Plain :
       LET p == heap[h]
       IN  \E n \in NodesOf(Image, p) : \E f \in Range(n.fields) : \E arg \in Arguments[f.type] :
             LET r == Execute(p, SetterOf(n, f), arg)
                 now == IF r.ok THEN Meant(p, n, f, arg) ELSE TagMeant(p, n, f)
                 slots == IF f.slot /\ f.type = "struct" THEN {SchemaKey(p, f)} ELSE {}
                 over == slots \cup UNION {Overlapping(k) : k \in DOMAIN now}
             IN  /\ Sets(r.st, over, now)
                 /\ IF r.ok /\ f.slot /\ f.type = "struct"
                    THEN Gives(heap, [BPtr(p.builder, r.body, StructShape(f.of)[1],
                                           StructShape(f.of)[2]) EXCEPT !.node = f.of])
                    ELSE /\ heap' = [heap EXCEPT ![h].torn = @ \/ ~r.ok]
                         /\ UNCHANGED held

\* The generated init-root of a struct that is no group.
AccessorInitRoot ==
  /\ Call
  /\ \E b \in Held("builder"), n \in {x \in Nodes : x.kind = "struct" /\ ~x.group} :
       LET st == RootOn(State)
           at == StructBody(st, Place(0, 0), n.dwords, n.pwords).at
       IN  /\ ~heap[b].root
           /\ Sets(StructOn(st, Place(0, 0), n.dwords, n.pwords), {}, Nothing)
           /\ Gives([heap EXCEPT ![b].root = TRUE],
                    [BPtr(b, at, n.dwords, n.pwords) EXCEPT !.node = n.id])

CapnpcNext == JanetNext \/ AccessorInitRoot \/ Accessor

CapnpcSpec == JanetInit /\ [][CapnpcNext]_allVars

-----------------------------------------------------------------------------

\* Whatever arms a script has selected before, and in which order, the arm that
\* `which' names reads as what was set since it was selected, or as the
\* defaults: nothing of another arm that had the same bits or the same pointer
\* shows through, as long as no accessor of the struct has panicked half-way
\* (emit_union_select, emit_group_clear).
NoStaleArm ==
  LET m == Finished
      Reads(p, f) ==
        LET k == SchemaKey(p, f)
            s == StructAt(p.at, p.dwords, p.pwords)
            want == IF k \in DOMAIN given THEN given[k] ELSE Cleared(f)
        IN  IF f.type \in Scalars THEN GetField(m, s, GetterOf(f)).v = want.value
            ELSE f.type = "text" => GetText(m, s, f.off, TraversalLimit).bytes = want.items
  IN  m # <<>> =>
        \A h \in Held("bptr") \ Plain :
          LET p == heap[h]
              n == NodeById(p.node)
          IN  ~p.torn =>
                \A f \in {x \in Range(n.fields) : InForce(m, p, n, x)} :
                  \A g \in (IF f.slot THEN {f} ELSE Range(GroupSlots(f.of))) : Reads(p, g)
=============================================================================
