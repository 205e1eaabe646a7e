-------------------------------- MODULE Packed --------------------------------
(***************************************************************************)
(* The packed codec (capnp_packed.c).  A flat message is packed, a prefix  *)
(* of the packed bytes reaches the other side, and is unpacked there.      *)
(*                                                                         *)
(* A flat message is a sequence of bytes, words of WordBytes bytes; words   *)
(* count from 0.  One action is one iteration of the `while' loop of        *)
(* capnp_pack or capnp_unpack, together with what the iteration does to     *)
(* the capacity of the buffer it writes to.                                 *)
(***************************************************************************)
EXTENDS Integers, Sequences, FiniteSets, SequencesExt

CONSTANTS
  WordBytes,   \* 8
  MaxRun,      \* 255, the longest run a count byte can state
  Slack,       \* 64, the spare bytes capnp_unpack allocates
  TagByte,     \* the byte whose bits are a given set of positions of a word
  Inputs       \* flat messages

ASSUME PackedAssumption ==
  /\ WordBytes \in Nat \ {0}
  /\ MaxRun \in Nat
  /\ Slack \in Nat \ {0}
  /\ TagByte \in [SUBSET (1 .. WordBytes) -> Nat]
  /\ \A S, T \in SUBSET (1 .. WordBytes) : TagByte[S] = TagByte[T] => S = T
  /\ TagByte[{}] = 0
  /\ Inputs \subseteq Seq(Nat)
  /\ \A in \in Inputs : Len(in) % WordBytes = 0


VARIABLES
  phase,    \* "pack", "unpack", "done" or "error" (CAPNP_ERR_PACKED)
  input,    \* the flat message
  w,        \* words packed so far
  packed,   \* the bytes written by capnp_pack, then those that arrived
  cut,      \* ghost: the end of the packed bytes did not arrive
  ipos,     \* packed bytes read so far
  out,      \* the bytes written by capnp_unpack
  cap       \* capacity of the buffer that is being written

vars == <<phase, input, w, packed, cut, ipos, out, cap>>

-----------------------------------------------------------------------------
(* Words, tags and runs *)

Words == Len(input) \div WordBytes

Word(n) == SubSeq(input, n * WordBytes + 1, (n + 1) * WordBytes)

\* Mutant: the first byte is not looked at.
WordZeroTail(word) == \A k \in 2 .. WordBytes : word[k] = 0

\* A word that stays in a run of zero words.
WordAllZero(word) == \A k \in 1 .. WordBytes : word[k] = 0

\* A word that stays in a verbatim run.
WordFewerThanTwoZeros(word) ==
  Cardinality({k \in 1 .. WordBytes : word[k] = 0}) < 2

\* The positions of the bytes that are written behind the tag.
NonZero(word) == {k \in 1 .. WordBytes : word[k] # 0}

Tag(word) == TagByte[NonZero(word)]

FullTag == TagByte[1 .. WordBytes]

\* The positions whose bits are set in a tag.
Bits(tag) == CHOOSE S \in SUBSET (1 .. WordBytes) : TagByte[S] = tag

\* How many of the positions up to k are in S, and the one that is number j.
Rank(S, k) == Cardinality({i \in 1 .. k : i \in S})

Nth(S, j) == CHOOSE k \in S : Rank(S, k) = j

NonZeroBytes(word) ==
  [j \in 1 .. Cardinality(NonZero(word)) |-> word[Nth(NonZero(word), j)]]

\* How many words from word n on may join a run, up to MaxRun; `fitting' holds
\* the numbers of those that may.
Run(n, fitting) == Max({r \in 0 .. MaxRun : n .. (n + r - 1) \subseteq fitting})

ZeroRun(n) == Run(n, {i \in 0 .. (Words - 1) : WordAllZero(Word(i))})

FullRun(n) == Run(n, {i \in 0 .. (Words - 1) : WordFewerThanTwoZeros(Word(i))})

\* Mutant: the buffer does not grow.
NoGrowth(size, need) == size

\* The growth of a buffer that may not hold what is about to be written.
Grow(size, need) == IF need > size THEN size * 2 + WordBytes * (MaxRun + 1) ELSE size

-----------------------------------------------------------------------------
(* capnp_pack *)

Init ==
  /\ phase = "pack"
  /\ input \in Inputs
  /\ w = 0
  /\ packed = <<>>
  /\ cut = FALSE
  /\ ipos = 0
  /\ out = <<>>
  /\ cap = IF Words = 0 THEN 1 ELSE Words * (WordBytes + 2)

\* The bytes one iteration writes for word n and the run that follows it.
Block(n) ==
  LET full == FullRun(n + 1)
  IN  <<Tag(Word(n))>> \o NonZeroBytes(Word(n))
      \o CASE Tag(Word(n)) = 0 -> <<ZeroRun(n + 1)>>
           [] Tag(Word(n)) = FullTag ->
                <<full>> \o SubSeq(input, (n + 1) * WordBytes + 1, (n + 1 + full) * WordBytes)
           [] OTHER -> <<>>

\* Mutant: the word in front of a zero run is counted twice.
TakenTwice(n) == IF Tag(Word(n)) = 0 THEN 2 + ZeroRun(n + 1) ELSE 1

\* The words that one iteration consumes.
Taken(n) ==
  CASE Tag(Word(n)) = 0 -> 1 + ZeroRun(n + 1)
    [] Tag(Word(n)) = FullTag -> 1 + FullRun(n + 1)
    [] OTHER -> 1

PackWord ==
  /\ phase = "pack"
  /\ w < Words
  /\ cap' = Grow(cap, Len(packed) + WordBytes + 2 + WordBytes * MaxRun)
  /\ packed' = packed \o Block(w)
  /\ w' = w + Taken(w)
  /\ UNCHANGED <<phase, input, cut, ipos, out>>

\* The packed message, or a prefix of it, arrives; capnp_unpack allocates.
Arrive(n) ==
  /\ phase = "pack"
  /\ w = Words
  /\ packed' = SubSeq(packed, 1, n)
  /\ cut' = (n < Len(packed))
  /\ phase' = "unpack"
  /\ cap' = n * 4 + Slack
  /\ UNCHANGED <<input, w, ipos, out>>

-----------------------------------------------------------------------------
(* capnp_unpack *)

\* The bytes a tag says follow it.
Stated(tag) == Cardinality(Bits(tag))

\* Mutant: the read position does not advance within a word.
UnpackedStuck(p) ==
  [k \in 1 .. WordBytes |-> IF k \in Bits(packed[p]) THEN packed[p + 1] ELSE 0]

\* The word that the tag at position p and the bytes after it stand for.
Unpacked(p) ==
  LET bits == Bits(packed[p])
  IN  [k \in 1 .. WordBytes |-> IF k \in bits THEN packed[p + Rank(bits, k)] ELSE 0]

\* One iteration: the tag is at p, the count, if there is one, at c, and the run
\* it counts is `run' once unpacked.
UnpackWord ==
  LET p     == ipos + 1
      tag   == packed[p]
      c     == p + Stated(tag) + 1
      runs  == tag = 0 \/ tag = FullTag
      count == packed[c]
      next  == IF tag = FullTag THEN c + count * WordBytes
               ELSE IF runs THEN c ELSE c - 1
      short == \/ c - 1 > Len(packed)
               \/ runs /\ c > Len(packed)
               \/ tag = FullTag /\ next > Len(packed)
      run   == IF tag = FullTag THEN SubSeq(packed, c + 1, next)
               ELSE [i \in 1 .. (count * WordBytes) |-> 0]
      grown == Grow(cap, Len(out) + WordBytes + MaxRun * WordBytes)
      end   == Len(out) + WordBytes + count * WordBytes
  IN  /\ phase = "unpack"
      /\ ipos < Len(packed)
      /\ IF short
         THEN phase' = "error" /\ UNCHANGED <<ipos, out, cap>>
         ELSE /\ out' = out \o Unpacked(p) \o (IF runs THEN run ELSE <<>>)
              /\ ipos' = next
              /\ cap' = IF runs /\ end > grown THEN end + Slack ELSE grown
              /\ UNCHANGED phase
      /\ UNCHANGED <<input, w, packed, cut>>

UnpackDone ==
  /\ phase = "unpack"
  /\ ipos = Len(packed)
  /\ phase' = IF Len(out) % WordBytes # 0 THEN "error" ELSE "done"
  /\ UNCHANGED <<input, w, packed, cut, ipos, out, cap>>

Next ==
  \/ PackWord
  \/ \E n \in 0 .. Len(packed) : Arrive(n)
  \/ UnpackWord
  \/ UnpackDone

Spec == Init /\ [][Next]_vars

-----------------------------------------------------------------------------
(* Properties *)

TypeOK ==
  /\ phase \in {"pack", "unpack", "done", "error"}
  /\ input \in Seq(Nat) /\ Len(input) % WordBytes = 0
  /\ w \in 0 .. Words
  /\ packed \in Seq(Nat)
  /\ cut \in BOOLEAN
  /\ ipos \in 0 .. Len(packed)
  /\ out \in Seq(Nat)
  /\ cap \in Nat

\* Unpacking inverts packing: a packed message that arrives whole is accepted,
\* and what capnp_unpack returns is what capnp_pack was given, byte for byte,
\* whatever runs the message has and wherever they are split at their limit.
UnpackInvertsPack ==
  ~cut => /\ phase # "error"
          /\ phase = "done" => out = input

\* A packed message that is cut short is refused, or yields the first words of
\* the message: capnp_unpack never returns a word that was not sent.
CutYieldsPrefix ==
  phase = "done" => IsPrefix(out, input)

\* Neither loop writes past the buffer it allocated, whatever the estimates in
\* front of the loops and the growth inside them are.
BufferHolds ==
  IF phase = "pack" THEN Len(packed) <= cap ELSE Len(out) <= cap
=============================================================================
