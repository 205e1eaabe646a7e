------------------------------- MODULE Message -------------------------------
(***************************************************************************)
(* Builder and reader together: at every moment, what would be read from   *)
(* the message if it were serialized now.                                  *)
(***************************************************************************)
EXTENDS Builder, Reader

\* The segments as a reader sees them: the used words.
Image == [i \in DOMAIN segs |-> segs[i].words]

\* The message a reader gets.
Received == Parse(Serialize(Image))

-----------------------------------------------------------------------------
(* Properties *)

\* parse_flat finds the segments capnp_builder_serialize wrote, for every number
\* of them the reader takes, and refuses every frame that was cut short.
FrameRoundTrip ==
  LET flat == Serialize(Image)
  IN  /\ Used(segs, 0) > 0 /\ Len(segs) <= MaxSegments => Parse(flat) = Image
      /\ \A k \in 0 .. (Len(flat) - 1) : Parse(SubSeq(flat, 1, k)) = <<>>

\* Every pointer word leads the reader to the object the application put there
\* last, and every data word of the objects in `known' holds what was written
\* to it last.
ReadsBack(known) ==
  LET m == Received
      Reads(r, place) == r.rc = "ok" /\ r.object = built[place]
      Slot(at, i) == Place(at.seg, at.word + i)
      StructReads(o) ==
        /\ \A i \in 0 .. (o.pwords - 1) : Reads(Getp(m, o, i, TraversalLimit), Slot(o.at, o.dwords + i))
        /\ \A i \in 0 .. (o.dwords - 1) : GetData(m, o, i, Zero) = vals[Slot(o.at, i)]
      ListReads(o) ==
        CASE o.esize = "ptr" ->
               \A i \in 0 .. (o.count - 1) : Reads(ListGetp(m, o, i, TraversalLimit), Slot(o.at, i))
          [] o.esize = "composite" ->
               \A i \in 0 .. (o.count - 1) : StructReads(ListGetp(m, o, i, TraversalLimit).object)
          [] OTHER ->
               \A i \in DOMAIN ListData(m, o) : ListData(m, o)[i] = vals[Slot(o.at, i - 1)]
  IN  Len(segs) <= MaxSegments =>
        /\ Place(0, 0) \in DOMAIN built => Reads(GetRoot(m, TraversalLimit), Place(0, 0))
        /\ \A x \in known :
             /\ built[x].kind = "struct" => StructReads(built[x])
             /\ built[x].kind = "list" => ListReads(built[x])
=============================================================================
