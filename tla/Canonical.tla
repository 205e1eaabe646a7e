------------------------------ MODULE Canonical ------------------------------
(***************************************************************************)
(* Deep copy and canonical form (capnp_canonical.c).  An object read from  *)
(* a message is copied into a builder, trimmed of trailing zero words and  *)
(* null pointers.                                                          *)
(***************************************************************************)
EXTENDS Message

CONSTANTS
  CopyAnywhere   \* FALSE: an application copies only into slots of the last segment

ASSUME CanonicalAssumption == CopyAnywhere \in BOOLEAN

VARIABLE copies   \* ghost: slot -> the tree that was copied there, and the object it became

MaxCopyDepth == 64

Numbers(n) == [i \in 1 .. n |-> i - 1]

\* Mutant: the first segment grows, whichever holds the slot.
AllocLocalFirst(sg, n) ==
  LET old == Len(sg[1].words)
      cap == MaxOf(sg[1].cap, old + n)
  IN  [segs |-> [sg EXCEPT ![1] = [words |-> @.words \o Zeros(n), cap |-> cap]],
       at   |-> Place(0, old)]

\* alloc_local: always in the last segment, whatever the limit.
AllocLocal(sg, n) ==
  LET s   == Len(sg)
      old == Len(sg[s].words)
      cap == IF old + n <= sg[s].cap THEN sg[s].cap
             ELSE Min({c \in {sg[s].cap * 2 ^ k : k \in 1 .. (old + n)} : c >= old + n})
  IN  [segs |-> [sg EXCEPT ![s] = [words |-> @.words \o Zeros(n), cap |-> cap]],
       at   |-> Place(s - 1, old)]

\* trimmed_dwords
TrimmedData(m, s) ==
  Max({0} \cup {i \in 1 .. s.dwords : GetData(m, s, i - 1, Zero) # Zero})

\* Mutant: a pointer that is not the last one is trimmed with it.
TrimmedPtrsFirst(m, s, left) ==
  [n |-> IF s.pwords = 0 \/ Getp(m, s, 0, left).object.kind = "null" THEN 0 ELSE s.pwords,
   left |-> left]

\* trimmed_pwords: from the last pointer down, to one that is not null or cannot
\* be read.  Reading them costs words of the message.
TrimmedPtrs(m, s, left) ==
  LET Read(n, i, r) ==
        [n |-> IF r.rc = "ok" /\ r.object.kind = "null" THEN i ELSE n, left |-> r.left]
      Trim(acc, i) == IF acc.n # i + 1 THEN acc ELSE Read(acc.n, i, Getp(m, s, i, acc.left))
  IN  FoldLeft(Trim, [n |-> s.pwords, left |-> left], Reverse(Numbers(s.pwords)))

\* composite_trim: all elements of a list of structs get the size of the largest.
Largest(m, list, left) ==
  LET Wider(acc, nd, ptrs) ==
        [nd |-> MaxOf(acc.nd, nd), np |-> MaxOf(acc.np, ptrs.n), left |-> ptrs.left]
      With(acc, s) == Wider(acc, TrimmedData(m, s), TrimmedPtrs(m, s, acc.left))
      Elem(acc, i) == With(acc, ListGetp(m, list, i, acc.left).object)
  IN  FoldLeft(Elem, [nd |-> 0, np |-> 0, left |-> left], Numbers(list.count))

\* A copy under way: the arena, and what is left to traverse in the message.
Going(sg, left) == [rc |-> "ok", segs |-> sg, left |-> left]

RECURSIVE CopyPtr(_, _, _, _, _)

\* What was read is copied to `slot', if it could be read.
CopyRead(b, slot, m, r, depth) ==
  CASE b.rc # "ok" -> b
    [] b.rc = "ok" /\ r.rc # "ok" -> [b EXCEPT !.rc = "kind", !.left = r.left]
    [] OTHER -> CopyPtr([b EXCEPT !.left = r.left], slot, m, r.object, depth + 1)

\* write_struct_body_data, then the pointers of the struct.
CopyStruct(b, at, dwords, pwords, m, src, depth) ==
  LET Word(sg, i) == Store(sg, Place(at.seg, at.word + i), GetData(m, src, i, Zero))
      Ptr(acc, k) ==
        LET slot == Place(at.seg, at.word + dwords + k)
        IN  IF k >= src.pwords /\ acc.rc = "ok" THEN [acc EXCEPT !.segs = Store(@, slot, Zero)]
            ELSE CopyRead(acc, slot, m, Getp(m, src, k, acc.left), depth)
  IN  FoldLeft(Ptr, [b EXCEPT !.segs = FoldLeft(Word, @, Numbers(dwords))], Numbers(pwords))

\* The near pointer's offset from `place' to `at'.
Offset(place, at) == at.word - place.word - 1

\* alloc_local, or nothing: a list of no words starts behind its pointer.
AllocList(sg, place, n) ==
  IF n = 0 THEN [segs |-> sg, at |-> Place(place.seg, place.word + 1)] ELSE AllocLocal(sg, n)

\* write_list_to_slot for a list of structs, whose copies go to g and take the
\* words of `size'.
CopyStructs(g, size, place, m, list, depth) ==
  LET step == size.nd + size.np
      head == Store(Store(g.segs, g.at, MakeStruct(list.count, size.nd, size.np)), place,
                    MakeList(Offset(place, g.at), "composite", list.count * step))
      Elem(acc, i) ==
        IF acc.rc # "ok" THEN acc
        ELSE CopyStruct(acc, Place(g.at.seg, g.at.word + 1 + i * step), size.nd, size.np,
                        m, ListGetp(m, list, i, acc.left).object, depth)
  IN  FoldLeft(Elem, Going(head, size.left), Numbers(list.count))

\* write_list_to_slot for a list of pointers
CopyPtrs(g, left, place, m, list, depth) ==
  LET head == Store(g.segs, place, MakeList(Offset(place, g.at), "ptr", list.count))
      Elem(acc, i) ==
        CopyRead(acc, Place(g.at.seg, g.at.word + i), m, ListGetp(m, list, i, acc.left), depth)
  IN  FoldLeft(Elem, Going(head, left), Numbers(list.count))

\* write_list_to_slot for a list of n words of data
CopyData(g, left, place, m, list, n) ==
  LET Word(sg, i) == Store(sg, Place(g.at.seg, g.at.word + i), ListData(m, list)[i + 1])
  IN  Going(Store(FoldLeft(Word, g.segs, Numbers(n)), place,
                  MakeList(Offset(place, g.at), list.esize, list.count)), left)

\* write_list_to_slot
CopyList(b, place, m, list, depth) ==
  LET OfStructs(size) ==
        CopyStructs(AllocLocal(b.segs, 1 + list.count * (size.nd + size.np)), size,
                    place, m, list, depth)
      OfData(n) == CopyData(AllocList(b.segs, place, n), b.left, place, m, list, n)
  IN  CASE list.esize = "composite" -> OfStructs(Largest(m, list, b.left))
        [] list.esize = "ptr" ->
             CopyPtrs(AllocList(b.segs, place, list.count), b.left, place, m, list, depth)
        [] OTHER -> OfData(ListWords(list.esize, list.count))

\* capnp_copy_ptr_to_word for a struct, whose copy takes nd words and ptrs.n pointers.
CopyTrimmed(b, place, m, src, nd, ptrs, depth) ==
  LET Put(g) ==
        CopyStruct(Going(Store(g.segs, place, MakeStruct(Offset(place, g.at), nd, ptrs.n)),
                         ptrs.left),
                   g.at, nd, ptrs.n, m, src, depth)
  IN  IF nd + ptrs.n = 0
      THEN Going(Store(b.segs, place, MakeStruct(-1, 0, 0)), ptrs.left)
      ELSE Put(AllocLocal(b.segs, nd + ptrs.n))

\* capnp_copy_ptr_to_word.  The pointer that is written is a near one.
CopyPtr(b, place, m, src, depth) ==
  CASE depth > MaxCopyDepth -> [b EXCEPT !.rc = "depth"]
    [] depth <= MaxCopyDepth /\ src.kind = "null" -> [b EXCEPT !.segs = Store(@, place, Zero)]
    [] depth <= MaxCopyDepth /\ src.kind = "cap" -> [b EXCEPT !.rc = "kind"]
    [] depth <= MaxCopyDepth /\ src.kind = "list" -> CopyList(b, place, m, src, depth)
    [] depth <= MaxCopyDepth /\ src.kind = "struct" ->
         CopyTrimmed(b, place, m, src, TrimmedData(m, src), TrimmedPtrs(m, src, b.left), depth)

\* capnp_canonicalize: the root copied into a fresh segment.
Canonicalize(m) ==
  LET fresh     == AllocLocal(<<[words |-> <<>>, cap |-> 1]>>, 1).segs
      Words(r)  == IF r.rc # "ok" THEN <<>> ELSE <<r.segs[1].words>>
      From(root) ==
        IF root.rc # "ok" THEN <<>>
        ELSE Words(CopyPtr(Going(fresh, root.left), Place(0, 0), m, root.object, 0))
  IN  From(GetRoot(m, TraversalLimit))

-----------------------------------------------------------------------------
(* What a message says, whatever its layout *)

RECURSIVE Tree(_, _)
\* The tree of an object: what it is, how many elements it has, the words of its
\* data and the pointers in it by their index, those that are zero left out.
Tree(m, r) ==
  LET o == r.object
      Words(n, Get(_)) == {<<i, Get(i)>> : i \in {j \in 0 .. (n - 1) : Get(j) # Zero}}
      Kids(n, Get(_)) ==
        {<<i, Tree(m, Get(i))>> :
           i \in {j \in 0 .. (n - 1) : Get(j).rc # "ok" \/ Get(j).object.kind # "null"}}
  IN  CASE r.rc # "ok" -> <<"error", 0, {}, {}>>
        [] r.rc = "ok" /\ o.kind \in {"null", "cap"} -> <<o.kind, o.count, {}, {}>>
        [] r.rc = "ok" /\ o.kind = "struct" ->
             <<"struct", 0, Words(o.dwords, LAMBDA i : GetData(m, o, i, Zero)),
               Kids(o.pwords, LAMBDA i : Getp(m, o, i, TraversalLimit))>>
        [] r.rc = "ok" /\ o.kind = "list" /\ o.esize \in {"ptr", "composite"} ->
             <<o.esize, o.count, {}, Kids(o.count, LAMBDA i : ListGetp(m, o, i, TraversalLimit))>>
        [] OTHER ->
             <<o.esize, o.count,
               Words(ListWords(o.esize, o.count), LAMBDA i : ListData(m, o)[i + 1]), {}>>

-----------------------------------------------------------------------------
(* Copying within a run of the builder *)

\* capnp_builder_copy_ptr, of an object of the message as it is now.
Copy(place, from) ==
  LET m      == Received
      src    == ResolvePtr(m, from, TraversalLimit)
      Now(sg) == ResolvePtr([i \in DOMAIN sg |-> sg[i].words], place, TraversalLimit).object
      Done(r) ==
        /\ segs' = r.segs
        /\ built' = [built EXCEPT ![place] = Now(r.segs)]
        /\ copies' = [x \in DOMAIN copies \cup {place} |->
                        IF x = place
                        THEN [rc |-> r.rc, tree |-> Tree(m, src), object |-> built'[place]]
                        ELSE copies[x]]
  IN  /\ Len(segs) <= MaxSegments
      /\ CopyAnywhere \/ place.seg = Len(segs) - 1
      /\ Done(CopyPtr(Going(segs, src.left), place, m, src.object, 0))
      /\ UNCHANGED <<maxSeg, single, vals>>

CopyInit == Init /\ copies = [x \in {} |-> Zero]

CopyNext ==
  \/ Next /\ UNCHANGED copies
  \/ /\ DOMAIN copies = {}
     /\ \E place, from \in DOMAIN built : Copy(place, from)

CopySpec == CopyInit /\ [][CopyNext]_<<vars, copies>>

-----------------------------------------------------------------------------
(* Properties *)

\* Canonical form says what the message said, is one segment, and is its own
\* canonical form, however the message was laid out.
CanonicalFaithful ==
  LET Faithful(m, c) ==
        c # <<>> => Tree(c, GetRoot(c, TraversalLimit)) = Tree(m, GetRoot(m, TraversalLimit)) /\ Canonicalize(c) = c
  IN  Len(segs) <= MaxSegments /\ Place(0, 0) \in DOMAIN built =>
        Faithful(Received, Canonicalize(Received))

\* The slots that still hold a copy.
Copied == {x \in DOMAIN copies : built[x] = copies[x].object}

\* No segment uses more words than it has, grown by alloc_local too, and short of
\* alloc_local, which asks for no limit, it stays within the ceiling or a limit
\* that was set; every object the application built has words of the arena to
\* itself, whatever was allocated or copied since.
ArenaHolds ==
  /\ WordsAllocated
  /\ DOMAIN copies = {} => CapsAllowed
  /\ ObjectsApart(DOMAIN built \ Copied)

\* Near, far or double far, whatever was allocated or copied into the last segment
\* since: a reader of the serialized message finds every object the application
\* built where it was put last, with the data that was written to it last.
ReadBack == ReadsBack(DOMAIN built \ Copied)

\* What capnp_builder_copy_ptr copied into a slot reads back as it was.  That slot
\* is any if CopyAnywhere, and else one of the last segment.
CopyReadsBack ==
  LET m == Received
  IN  Len(segs) <= MaxSegments =>
        \A x \in Copied :
          copies[x].rc = "ok" => Tree(m, ResolvePtr(m, x, TraversalLimit)) = copies[x].tree
=============================================================================
