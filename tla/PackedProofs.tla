---------------------------- MODULE PackedProofs ----------------------------
(***************************************************************************)
(* What Packed keeps, for every message, every size of a word, every limit  *)
(* of a run and every numbering of the tags.                                *)
(*                                                                         *)
(* The argument: the packed bytes are blocks laid end to end, one for each   *)
(* iteration of capnp_pack (Layout), and capnp_unpack stands at the start    *)
(* of a block, with the words before that block behind it (PackedInv).       *)
(***************************************************************************)
EXTENDS Packed, FiniteSetTheorems, WellFoundedInduction, TLAPS

-----------------------------------------------------------------------------
(* Numbers *)

\* Products with the size of a word.
LEMMA Products ==
  ASSUME NEW a \in Nat, NEW b \in Nat
  PROVE  /\ a * WordBytes \in Nat
         /\ (a + b) * WordBytes = a * WordBytes + b * WordBytes
         /\ (a + 1) * WordBytes = a * WordBytes + WordBytes
         /\ a < b => a * WordBytes + WordBytes <= b * WordBytes
         /\ a <= b => a * WordBytes <= b * WordBytes
         /\ (a * WordBytes) % WordBytes = 0
         /\ (a * WordBytes) \div WordBytes = a
BY PackedAssumption

\* A position of a message lies in one word of it.
LEMMA Positions ==
  ASSUME NEW i \in Nat
  PROVE  /\ i \div WordBytes \in Nat
         /\ i % WordBytes \in 0 .. (WordBytes - 1)
         /\ i = (i \div WordBytes) * WordBytes + (i % WordBytes)
<1> WordBytes \in Nat /\ WordBytes > 0  BY PackedAssumption
<1>1. i \div WordBytes \in Int /\ i % WordBytes \in 0 .. (WordBytes - 1)
      /\ i = WordBytes * (i \div WordBytes) + (i % WordBytes)
  BY ONLY i \in Nat, WordBytes \in Nat, WordBytes > 0, Z3
<1>2. WordBytes * (i \div WordBytes) = (i \div WordBytes) * WordBytes  BY <1>1
<1>3. i \div WordBytes >= 0
  BY ONLY i \in Nat, WordBytes \in Nat, WordBytes > 0, Z3
<1> QED BY <1>1, <1>2, <1>3

\* The word a position lies in is between the words that bound the position.
LEMMA PositionBounds ==
  ASSUME NEW i \in Nat, NEW a \in Nat, NEW b \in Nat,
         a * WordBytes <= i, i < b * WordBytes
  PROVE  a <= i \div WordBytes /\ i \div WordBytes < b
<1> DEFINE d == i \div WordBytes
<1>1. /\ d \in Nat /\ i % WordBytes \in 0 .. (WordBytes - 1)
      /\ i = d * WordBytes + (i % WordBytes)
  BY Positions
<1>2. ~(d < a)
  <2>1. d < a => d * WordBytes + WordBytes <= a * WordBytes  BY <1>1, Products
  <2>2. d * WordBytes \in Nat /\ a * WordBytes \in Nat /\ WordBytes \in Nat
    BY <1>1, Products, PackedAssumption
  <2> QED BY ONLY <1>1, <2>1, <2>2, i \in Nat, a * WordBytes <= i
<1>3. ~(b <= d)
  <2>1. b <= d => b * WordBytes <= d * WordBytes  BY <1>1, Products
  <2>2. d * WordBytes \in Nat /\ b * WordBytes \in Nat /\ WordBytes \in Nat
    BY <1>1, Products, PackedAssumption
  <2> QED BY ONLY <1>1, <2>1, <2>2, i \in Nat, i < b * WordBytes
<1> QED BY ONLY <1>1, <1>2, <1>3, a \in Nat, b \in Nat

\* A set of naturals that is not empty has a least element.
LEMMA Least ==
  ASSUME NEW T, T \subseteq Nat, T # {}
  PROVE  \E n \in T : \A m \in T : n <= m
<1>1. \A m, n \in Nat : <<m, n>> \in OpToRel(<, Nat) <=> m < n
  BY DEF OpToRel
<1>2. SUFFICES ASSUME NEW R, IsWellFoundedOn(R, Nat),
                      \A m, n \in Nat : <<m, n>> \in R <=> m < n
               PROVE  \E n \in T : \A m \in T : n <= m
  BY <1>1, NatLessThanWellFounded, Zenon
<1>3. \E n \in T : \A m \in T : ~(<<m, n>> \in R)
  BY ONLY IsWellFoundedOn(R, Nat), T \subseteq Nat, T # {}, WFMin, Zenon
<1>4. PICK n \in T : \A m \in T : ~(<<m, n>> \in R)
  BY <1>3, Zenon
<1>5. ASSUME NEW m \in T PROVE n <= m
  <2>1. ~(m < n)  BY <1>2, <1>4, Zenon
  <2>2. m \in Nat /\ n \in Nat  BY Zenon
  <2> QED BY ONLY <2>1, <2>2
<1> QED BY <1>5

\* A bounded one has a greatest.
LEMMA Greatest ==
  ASSUME NEW T, T \subseteq Nat, T # {}, NEW b \in Nat, \A t \in T : t <= b
  PROVE  Max(T) \in T
<1> DEFINE U == {b - t : t \in T}
<1>1. U \subseteq Nat /\ U # {}
  <2>1. \A t \in T : b - t \in Nat  OBVIOUS
  <2> QED BY <2>1, Zenon
<1>2. PICK u \in U : \A v \in U : u <= v  BY <1>1, Least
<1>3. PICK t \in T : u = b - t  BY <1>2
<1>4. ASSUME NEW s \in T PROVE t >= s
  <2>1. b - s \in U  OBVIOUS
  <2>2. u <= b - s  BY <2>1, <1>2
  <2>3. s \in Nat /\ t \in Nat  BY <1>3
  <2> QED BY ONLY <2>2, <2>3, <1>3, b \in Nat
<1> QED BY <1>3, <1>4 DEF Max

-----------------------------------------------------------------------------
(* Sequences *)

LEMMA ConcatFacts ==
  ASSUME NEW X, NEW s \in Seq(X), NEW t \in Seq(X)
  PROVE  /\ s \o t \in Seq(X)
         /\ Len(s \o t) = Len(s) + Len(t)
         /\ \A i \in 1 .. Len(s) : (s \o t)[i] = s[i]
         /\ \A i \in 1 .. Len(t) : (s \o t)[Len(s) + i] = t[i]
OBVIOUS

LEMMA PartFacts ==
  ASSUME NEW X, NEW s \in Seq(X), NEW a \in Nat, NEW b \in Nat, a <= b, b <= Len(s)
  PROVE  /\ SubSeq(s, a + 1, b) \in Seq(X)
         /\ Len(SubSeq(s, a + 1, b)) = b - a
         /\ \A i \in 1 .. (b - a) : SubSeq(s, a + 1, b)[i] = s[a + i]
OBVIOUS

\* A prefix followed by the bytes that come next is a longer prefix.
LEMMA PrefixGrows ==
  ASSUME NEW X, NEW s \in Seq(X), NEW a \in Nat, NEW b \in Nat, a <= b, b <= Len(s),
         NEW t \in Seq(X), Len(t) = b - a, \A i \in 1 .. (b - a) : t[i] = s[a + i]
  PROVE  SubSeq(s, 1, a) \o t = SubSeq(s, 1, b)
OBVIOUS

-----------------------------------------------------------------------------
(* Ranks: the place of a position among the positions of a set *)

\* What is known of a set of positions of a word.
LEMMA RankRange ==
  ASSUME NEW S \in SUBSET (1 .. WordBytes)
  PROVE  /\ IsFiniteSet(S)
         /\ Cardinality(S) \in 0 .. WordBytes
         /\ Cardinality(S) = WordBytes => S = 1 .. WordBytes
         /\ \A k \in 1 .. WordBytes : Rank(S, k) \in 0 .. Cardinality(S)
<1>0. WordBytes \in Nat /\ WordBytes > 0  BY PackedAssumption
<1>1. IsFiniteSet(1 .. WordBytes) /\ Cardinality(1 .. WordBytes) = WordBytes
  BY <1>0, FS_Interval
<1>2. /\ IsFiniteSet(S) /\ Cardinality(S) <= WordBytes
      /\ Cardinality(S) = WordBytes => S = 1 .. WordBytes
  BY <1>1, FS_Subset
<1>3. Cardinality(S) \in Nat  BY <1>2, FS_CardinalityType
<1>4. ASSUME NEW k \in 1 .. WordBytes PROVE Rank(S, k) \in 0 .. Cardinality(S)
  <2> DEFINE U == {i \in 1 .. k : i \in S}
  <2>1. U \in SUBSET S  OBVIOUS
  <2>2. IsFiniteSet(U) /\ Cardinality(U) <= Cardinality(S)
    BY <1>2, <2>1, FS_Subset
  <2>3. Cardinality(U) \in Nat  BY <2>2, FS_CardinalityType
  <2> QED BY <2>2, <2>3, <1>3 DEF Rank
<1> QED BY <1>0, <1>2, <1>3, <1>4

\* Ranks grow along the set.
LEMMA RankGrows ==
  ASSUME NEW S \in SUBSET (1 .. WordBytes), NEW k \in 1 .. WordBytes, NEW l \in S, k < l
  PROVE  Rank(S, k) < Rank(S, l)
<1> DEFINE U == {i \in 1 .. k : i \in S}
           V == {i \in 1 .. l : i \in S}
<1>0. WordBytes \in Nat  BY PackedAssumption
<1>1. U \in SUBSET V /\ l \in V /\ l \notin U
  BY <1>0
<1>2. V \in SUBSET S  OBVIOUS
<1>3. IsFiniteSet(V)  BY <1>2, RankRange, FS_Subset
<1>4. /\ IsFiniteSet(U) /\ Cardinality(U) <= Cardinality(V)
      /\ Cardinality(V) = Cardinality(U) => V = U
  BY <1>1, <1>3, FS_Subset
<1>5. Cardinality(U) \in Nat /\ Cardinality(V) \in Nat
  BY <1>3, <1>4, FS_CardinalityType
<1>6. Cardinality(U) # Cardinality(V)  BY <1>1, <1>4
<1>7. Cardinality(U) < Cardinality(V)
  BY ONLY <1>4, <1>5, <1>6
<1> QED BY <1>7 DEF Rank

\* Every number up to the size of the set is the rank of one member.
LEMMA NthFacts ==
  ASSUME NEW S \in SUBSET (1 .. WordBytes)
  PROVE  /\ \A k \in S : Rank(S, k) \in 1 .. Cardinality(S) /\ Nth(S, Rank(S, k)) = k
         /\ \A j \in 1 .. Cardinality(S) : Nth(S, j) \in S
<1>0. WordBytes \in Nat  BY PackedAssumption
<1>1. ASSUME NEW k \in S PROVE Rank(S, k) \in 1 .. Cardinality(S)
  <2>0. k \in 1 .. WordBytes  OBVIOUS
  <2>1. Rank(S, k) \in 0 .. Cardinality(S) /\ Cardinality(S) \in Nat
    BY <2>0, RankRange
  <2>2. Rank(S, k) # 0
    <3> DEFINE U == {i \in 1 .. k : i \in S}
    <3>1. U \in SUBSET S /\ k \in U  BY <2>0, <1>0
    <3>2. IsFiniteSet(U)  BY <3>1, RankRange, FS_Subset
    <3>3. Cardinality(U) # 0  BY <3>1, <3>2, FS_EmptySet
    <3> QED BY <3>3 DEF Rank
  <2> QED BY ONLY <2>1, <2>2
<1>2. ASSUME NEW k \in S, NEW l \in S, Rank(S, k) = Rank(S, l) PROVE k = l
  <2>1. k \in 1 .. WordBytes /\ l \in 1 .. WordBytes  OBVIOUS
  <2>2. ~(k < l)
    <3>1. k < l => Rank(S, k) < Rank(S, l)  BY <2>1, RankGrows
    <3>2. Rank(S, k) \in Int /\ Rank(S, l) \in Int  BY <1>1
    <3> QED BY ONLY <3>1, <3>2, <1>2
  <2>3. ~(l < k)
    <3>1. l < k => Rank(S, l) < Rank(S, k)  BY <2>1, RankGrows
    <3>2. Rank(S, k) \in Int /\ Rank(S, l) \in Int  BY <1>1
    <3> QED BY ONLY <3>1, <3>2, <1>2
  <2> QED BY ONLY <2>1, <2>2, <2>3, <1>0
<1> DEFINE f == [k \in S |-> Rank(S, k)]
           T == 1 .. Cardinality(S)
<1>3. f \in [S -> T]  BY <1>1
<1>4. f \in Injection(S, T)
  <2>1. \A k, l \in S : f[k] = f[l] => k = l  BY <1>2
  <2>2. DOMAIN f = S  OBVIOUS
  <2> HIDE DEF f
  <2> QED BY <1>3, <2>1, <2>2 DEF Injection, IsInjective
<1>5. IsFiniteSet(T) /\ Cardinality(T) = Cardinality(S)
  <2>1. Cardinality(S) \in Nat  BY <1>0, RankRange
  <2>2. /\ IsFiniteSet(1 .. Cardinality(S))
        /\ Cardinality(1 .. Cardinality(S)) = IF 1 > Cardinality(S) THEN 0 ELSE Cardinality(S) - 1 + 1
    BY <2>1, FS_Interval
  <2> QED BY <2>1, <2>2
<1>6. f \in Surjection(S, T)
  BY <1>4, <1>5, FS_Injection
<1>7. \A j \in T : \E k \in S : Rank(S, k) = j
  BY <1>6, Zenon DEF Surjection
<1>8. ASSUME NEW j \in T PROVE Nth(S, j) \in S /\ Rank(S, Nth(S, j)) = j
  BY <1>7, Zenon DEF Nth
<1>9. ASSUME NEW k \in S PROVE Nth(S, Rank(S, k)) = k
  BY <1>1, <1>2, <1>8
<1> QED BY <1>1, <1>8, <1>9

-----------------------------------------------------------------------------
(* Words, tags and runs *)

InputOK == input \in Seq(Nat) /\ Len(input) % WordBytes = 0

\* A message is a whole number of words.
LEMMA WordsFacts ==
  ASSUME InputOK
  PROVE  Words \in Nat /\ Words * WordBytes = Len(input)
<1>1. Len(input) \in Nat  BY DEF InputOK
<1>2. Len(input) = (Len(input) \div WordBytes) * WordBytes + (Len(input) % WordBytes)
      /\ Len(input) \div WordBytes \in Nat
  BY <1>1, Positions
<1>3. (Len(input) \div WordBytes) * WordBytes \in Nat  BY <1>2, Products
<1> QED BY <1>2, <1>3 DEF InputOK, Words

\* The bytes of a word, in the message.
LEMMA WordFacts ==
  ASSUME InputOK, NEW n \in 0 .. (Words - 1)
  PROVE  /\ Word(n) \in Seq(Nat)
         /\ Len(Word(n)) = WordBytes
         /\ \A k \in 1 .. WordBytes : Word(n)[k] = input[n * WordBytes + k] /\ Word(n)[k] \in Nat
<1>0. WordBytes \in Nat  BY PackedAssumption
<1>1. Words \in Nat /\ Words * WordBytes = Len(input)  BY WordsFacts
<1>2. n \in Nat /\ n < Words  BY <1>1
<1>3. /\ n * WordBytes \in Nat /\ (n + 1) * WordBytes = n * WordBytes + WordBytes
      /\ n * WordBytes + WordBytes <= Len(input)
  BY <1>1, <1>2, Products
<1>4. /\ Word(n) \in Seq(Nat) /\ Len(Word(n)) = WordBytes
      /\ \A k \in 1 .. WordBytes : Word(n)[k] = input[n * WordBytes + k]
  <2> DEFINE a == n * WordBytes
             b == n * WordBytes + WordBytes
  <2>1. input \in Seq(Nat) /\ a \in Nat /\ b \in Nat /\ a <= b /\ b <= Len(input) /\ b - a = WordBytes
    BY <1>0, <1>3 DEF InputOK
  <2>2. Word(n) = SubSeq(input, a + 1, b)  BY <1>3 DEF Word
  <2> HIDE DEF a, b
  <2>3. /\ SubSeq(input, a + 1, b) \in Seq(Nat)
        /\ Len(SubSeq(input, a + 1, b)) = b - a
        /\ \A i \in 1 .. (b - a) : SubSeq(input, a + 1, b)[i] = input[a + i]
    BY <2>1, PartFacts
  <2>4. /\ Word(n) \in Seq(Nat) /\ Len(Word(n)) = WordBytes
        /\ \A k \in 1 .. WordBytes : Word(n)[k] = input[a + k]
    BY <2>1, <2>2, <2>3
  <2> QED BY <2>4 DEF a
<1>5. \A k \in 1 .. WordBytes : Word(n)[k] \in Nat
  BY <1>4, <1>0
<1> QED BY <1>4, <1>5

\* A run joins at most MaxRun words, all of which may join it.
LEMMA RunFacts ==
  ASSUME NEW n \in Nat, NEW fitting
  PROVE  /\ Run(n, fitting) \in 0 .. MaxRun
         /\ \A i \in n .. (n + Run(n, fitting) - 1) : i \in fitting
<1> DEFINE T == {r \in 0 .. MaxRun : n .. (n + r - 1) \subseteq fitting}
<1>0. MaxRun \in Nat  BY PackedAssumption
<1>1. T \subseteq Nat /\ \A t \in T : t <= MaxRun  BY <1>0
<1>2. 0 \in T
  <2>1. n .. (n + 0 - 1) = {}  OBVIOUS
  <2>2. 0 \in 0 .. MaxRun  BY <1>0
  <2> QED BY <2>1, <2>2
<1>3. Max(T) \in T  BY <1>0, <1>1, <1>2, Greatest
<1> QED BY <1>3 DEF Run

\* Nor does it leave the message.
LEMMA RunStays ==
  ASSUME InputOK, NEW n \in 0 .. Words, NEW fitting \in SUBSET (0 .. (Words - 1))
  PROVE  n + Run(n, fitting) <= Words
<1> DEFINE r == Run(n, fitting)
<1>0. Words \in Nat /\ MaxRun \in Nat /\ n \in Nat  BY WordsFacts, PackedAssumption
<1>1. r \in 0 .. MaxRun /\ \A i \in n .. (n + r - 1) : i \in fitting
  BY <1>0, RunFacts
<1> SUFFICES n + r <= Words  OBVIOUS
<1> HIDE DEF r
<1>2. CASE r = 0  BY <1>0, <1>2
<1>3. CASE r > 0
  <2>1. n + r - 1 \in n .. (n + r - 1)  BY <1>0, <1>1, <1>3
  <2>2. n + r - 1 \in 0 .. (Words - 1)  BY <2>1, <1>1
  <2> QED BY <2>2, <1>0, <1>1
<1> QED BY <1>1, <1>2, <1>3

\* The runs behind a word.
LEMMA RunsFacts ==
  ASSUME InputOK, NEW n \in 0 .. Words
  PROVE  /\ ZeroRun(n) \in 0 .. MaxRun /\ n + ZeroRun(n) <= Words
         /\ \A i \in n .. (n + ZeroRun(n) - 1) : i \in 0 .. (Words - 1) /\ WordAllZero(Word(i))
         /\ FullRun(n) \in 0 .. MaxRun /\ n + FullRun(n) <= Words
<1> DEFINE Z == {i \in 0 .. (Words - 1) : WordAllZero(Word(i))}
           F == {i \in 0 .. (Words - 1) : WordFewerThanTwoZeros(Word(i))}
<1>1. n \in Nat  BY WordsFacts
<1>2. Z \in SUBSET (0 .. (Words - 1)) /\ F \in SUBSET (0 .. (Words - 1))  OBVIOUS
<1>3. ZeroRun(n) = Run(n, Z) /\ FullRun(n) = Run(n, F)
  BY DEF ZeroRun, FullRun
<1>4. \A i \in Z : i \in 0 .. (Words - 1) /\ WordAllZero(Word(i))  OBVIOUS
<1> HIDE DEF Z, F
<1>5. /\ Run(n, Z) \in 0 .. MaxRun /\ Run(n, F) \in 0 .. MaxRun
      /\ \A i \in n .. (n + Run(n, Z) - 1) : i \in Z
  BY <1>1, RunFacts
<1>6. n + Run(n, Z) <= Words /\ n + Run(n, F) <= Words
  BY <1>2, RunStays
<1> QED BY <1>3, <1>4, <1>5, <1>6

\* A tag names the bytes that are not zero.
LEMMA TagFacts ==
  ASSUME NEW word
  PROVE  /\ NonZero(word) \in SUBSET (1 .. WordBytes)
         /\ Tag(word) \in Nat
         /\ Bits(Tag(word)) = NonZero(word)
         /\ Tag(word) = 0 <=> NonZero(word) = {}
         /\ Tag(word) = FullTag <=> NonZero(word) = 1 .. WordBytes
         /\ FullTag # 0
<1> DEFINE P == SUBSET (1 .. WordBytes)
<1>1. /\ TagByte \in [P -> Nat] /\ TagByte[{}] = 0
      /\ \A S, T \in P : TagByte[S] = TagByte[T] => S = T
  BY PackedAssumption
<1>2. NonZero(word) \in P  BY DEF NonZero
<1>3. {} \in P /\ 1 .. WordBytes \in P  OBVIOUS
<1>4. {} # 1 .. WordBytes
  <2>1. 1 \in 1 .. WordBytes  BY PackedAssumption
  <2> QED BY <2>1
<1>5. Tag(word) \in Nat  BY <1>1, <1>2 DEF Tag
<1>6. Bits(Tag(word)) = NonZero(word)
  <2> HIDE DEF P
  <2> DEFINE B == CHOOSE S \in P : TagByte[S] = TagByte[NonZero(word)]
  <2>1. B \in P /\ TagByte[B] = TagByte[NonZero(word)]  BY <1>2, Zenon
  <2>2. B = NonZero(word)  BY <2>1, <1>1, <1>2, Zenon
  <2> QED BY <2>2 DEF Bits, Tag, P
<1>7. Tag(word) = 0 <=> NonZero(word) = {}
  BY <1>1, <1>2, <1>3, Zenon DEF Tag
<1>8. Tag(word) = FullTag <=> NonZero(word) = 1 .. WordBytes
  BY <1>1, <1>2, <1>3, Zenon DEF Tag, FullTag
<1>9. FullTag # 0
  BY <1>1, <1>3, <1>4, Zenon DEF FullTag
<1> QED BY <1>2, <1>5, <1>6, <1>7, <1>8, <1>9

\* The bytes behind a tag, and which byte of the word each of them is.
LEMMA BytesFacts ==
  ASSUME InputOK, NEW n \in 0 .. (Words - 1)
  PROVE  /\ NonZeroBytes(Word(n)) \in Seq(Nat)
         /\ Len(NonZeroBytes(Word(n))) = Cardinality(NonZero(Word(n)))
         /\ \A k \in NonZero(Word(n)) :
              /\ Rank(NonZero(Word(n)), k) \in 1 .. Cardinality(NonZero(Word(n)))
              /\ NonZeroBytes(Word(n))[Rank(NonZero(Word(n)), k)] = Word(n)[k]
<1> DEFINE word == Word(n)
           Z == NonZero(word)
           c == Cardinality(Z)
<1>1. Z \in SUBSET (1 .. WordBytes)  BY TagFacts
<1>2. \A k \in 1 .. WordBytes : word[k] \in Nat  BY WordFacts
<1>3. c \in Nat  BY <1>1, RankRange
<1>4. /\ \A k \in Z : Rank(Z, k) \in 1 .. c /\ Nth(Z, Rank(Z, k)) = k
      /\ \A j \in 1 .. c : Nth(Z, j) \in Z
  BY <1>1, NthFacts
<1>5. NonZeroBytes(word) = [j \in 1 .. c |-> word[Nth(Z, j)]]
  BY DEF NonZeroBytes
<1> HIDE DEF Z, c, word
<1>6. \A j \in 1 .. c : word[Nth(Z, j)] \in Nat
  BY <1>1, <1>2, <1>4
<1>7. NonZeroBytes(word) \in Seq(Nat) /\ Len(NonZeroBytes(word)) = c
  BY <1>3, <1>5, <1>6
<1>8. \A k \in Z : NonZeroBytes(word)[Rank(Z, k)] = word[k]
  BY <1>4, <1>5
<1> QED BY <1>4, <1>7, <1>8 DEF Z, c, word

-----------------------------------------------------------------------------
(* A block: what one iteration of capnp_pack writes *)

\* The bytes behind the tag and the bytes of the word.
Rest(n) ==
  CASE Tag(Word(n)) = 0 -> <<ZeroRun(n + 1)>>
    [] Tag(Word(n)) = FullTag ->
         <<FullRun(n + 1)>>
         \o SubSeq(input, (n + 1) * WordBytes + 1, (n + 1 + FullRun(n + 1)) * WordBytes)
    [] OTHER -> <<>>

\* The words of a verbatim run, in the message.
LEMMA FullRunBytes ==
  ASSUME InputOK, NEW n \in 0 .. (Words - 1), NEW r \in Nat, n + 1 + r <= Words
  PROVE  LET run == SubSeq(input, (n + 1) * WordBytes + 1, (n + 1 + r) * WordBytes)
         IN  /\ run \in Seq(Nat)
             /\ Len(run) = r * WordBytes
             /\ \A i \in 1 .. (r * WordBytes) : run[i] = input[(n + 1) * WordBytes + i]
<1> DEFINE a == (n + 1) * WordBytes
           b == (n + 1 + r) * WordBytes
<1>1. Words \in Nat /\ Words * WordBytes = Len(input)  BY WordsFacts
<1>2. n + 1 \in Nat /\ n + 1 + r \in Nat  BY <1>1
<1>3. /\ a \in Nat /\ b \in Nat /\ r * WordBytes \in Nat
      /\ b = a + r * WordBytes /\ b <= Len(input)
  <2>1. PICK u \in Nat : u = n + 1  BY <1>2
  <2>2. u * WordBytes \in Nat /\ (u + r) * WordBytes = u * WordBytes + r * WordBytes
    BY Products
  <2>3. r * WordBytes \in Nat  BY Products
  <2>4. PICK v \in Nat : v = u + r  OBVIOUS
  <2>5. v <= Words  BY <2>1, <2>4
  <2>6. v * WordBytes \in Nat /\ v * WordBytes <= Words * WordBytes
    BY <2>5, <1>1, Products
  <2>7. a = u * WordBytes /\ b = (u + r) * WordBytes  BY ONLY <2>1
  <2>8. b = v * WordBytes  BY ONLY <2>4, <2>7
  <2> HIDE DEF a, b
  <2>9. a \in Nat /\ b \in Nat  BY ONLY <2>2, <2>6, <2>7, <2>8
  <2>10. b = a + r * WordBytes  BY ONLY <2>2, <2>7
  <2>11. b <= Len(input)  BY ONLY <2>6, <2>8, <1>1
  <2> QED BY ONLY <2>3, <2>9, <2>10, <2>11
<1> HIDE DEF a, b
<1>4. a <= b /\ b - a = r * WordBytes
  BY ONLY <1>3
<1>5. input \in Seq(Nat)  BY DEF InputOK
<1>6. /\ SubSeq(input, a + 1, b) \in Seq(Nat)
      /\ Len(SubSeq(input, a + 1, b)) = b - a
      /\ \A i \in 1 .. (b - a) : SubSeq(input, a + 1, b)[i] = input[a + i]
  <2>1. a \in Nat /\ b \in Nat /\ a <= b /\ b <= Len(input)
    BY ONLY <1>3, <1>4
  <2> QED BY ONLY <2>1, <1>5, PartFacts, Zenon
<1>7. LET run == SubSeq(input, a + 1, b)
      IN  /\ run \in Seq(Nat)
          /\ Len(run) = r * WordBytes
          /\ \A i \in 1 .. (r * WordBytes) : run[i] = input[a + i]
  BY ONLY <1>4, <1>6
<1> QED BY ONLY <1>7, Zenon DEF a, b

\* The three forms of a block.
LEMMA RestFacts ==
  ASSUME InputOK, NEW n \in 0 .. (Words - 1)
  PROVE  /\ Rest(n) \in Seq(Nat)
         /\ Taken(n) \in Nat /\ Taken(n) >= 1 /\ n + Taken(n) <= Words
         /\ Tag(Word(n)) = 0 =>
              /\ Rest(n) = <<ZeroRun(n + 1)>>
              /\ Taken(n) = 1 + ZeroRun(n + 1)
         /\ Tag(Word(n)) = FullTag =>
              /\ Len(Rest(n)) = 1 + FullRun(n + 1) * WordBytes
              /\ Rest(n)[1] = FullRun(n + 1)
              /\ \A i \in 1 .. (FullRun(n + 1) * WordBytes) :
                   Rest(n)[1 + i] = input[(n + 1) * WordBytes + i]
              /\ Taken(n) = 1 + FullRun(n + 1)
         /\ Tag(Word(n)) \notin {0, FullTag} => Rest(n) = <<>> /\ Taken(n) = 1
<1> DEFINE z == ZeroRun(n + 1)
           f == FullRun(n + 1)
           tag == Tag(Word(n))
           run == SubSeq(input, (n + 1) * WordBytes + 1, (n + 1 + f) * WordBytes)
<1>0. Words \in Nat /\ MaxRun \in Nat  BY WordsFacts, PackedAssumption
<1>1. n + 1 \in 0 .. Words /\ n \in Nat  BY <1>0
<1>2. z \in 0 .. MaxRun /\ n + 1 + z <= Words /\ f \in 0 .. MaxRun /\ n + 1 + f <= Words
  BY <1>1, RunsFacts
<1>3. z \in Nat /\ f \in Nat  BY <1>0, <1>2
<1>4. /\ run \in Seq(Nat) /\ Len(run) = f * WordBytes
      /\ \A i \in 1 .. (f * WordBytes) : run[i] = input[(n + 1) * WordBytes + i]
  BY <1>2, <1>3, FullRunBytes
<1>5. FullTag # 0  BY TagFacts
<1>6. /\ tag = 0 => Rest(n) = <<z>> /\ Taken(n) = 1 + z
      /\ tag = FullTag => Rest(n) = <<f>> \o run /\ Taken(n) = 1 + f
      /\ tag \notin {0, FullTag} => Rest(n) = <<>> /\ Taken(n) = 1
  BY <1>5 DEF Rest, Taken
<1> HIDE DEF z, f, tag, run
<1>7. <<f>> \in Seq(Nat) /\ Len(<<f>>) = 1 /\ <<f>>[1] = f  BY <1>3
<1>8. /\ <<f>> \o run \in Seq(Nat) /\ Len(<<f>> \o run) = 1 + Len(run)
      /\ (<<f>> \o run)[1] = f
      /\ \A i \in 1 .. Len(run) : (<<f>> \o run)[1 + i] = run[i]
  BY <1>3, <1>4, <1>7, ConcatFacts
<1>9. Rest(n) \in Seq(Nat)
  <2>1. <<z>> \in Seq(Nat) /\ <<>> \in Seq(Nat)  BY <1>3
  <2> QED BY ONLY <1>6, <1>8, <2>1, Zenon
<1>10. Taken(n) \in Nat /\ Taken(n) >= 1 /\ n + Taken(n) <= Words
  BY <1>0, <1>1, <1>2, <1>3, <1>6
<1>11. tag = FullTag =>
         /\ Len(Rest(n)) = 1 + f * WordBytes /\ Rest(n)[1] = f
         /\ \A i \in 1 .. (f * WordBytes) : Rest(n)[1 + i] = input[(n + 1) * WordBytes + i]
  BY <1>4, <1>6, <1>8
<1> QED BY <1>6, <1>9, <1>10, <1>11 DEF z, f, tag

\* A block is a tag, the bytes it names and the rest.
LEMMA BlockFacts ==
  ASSUME InputOK, NEW n \in 0 .. (Words - 1)
  PROVE  LET c == Cardinality(NonZero(Word(n)))
         IN  /\ c \in 0 .. WordBytes
             /\ Block(n) \in Seq(Nat)
             /\ Len(Block(n)) = 1 + c + Len(Rest(n))
             /\ Block(n)[1] = Tag(Word(n))
             /\ \A j \in 1 .. c : Block(n)[1 + j] = NonZeroBytes(Word(n))[j]
             /\ \A j \in 1 .. Len(Rest(n)) : Block(n)[1 + c + j] = Rest(n)[j]
<1> DEFINE tag == Tag(Word(n))
           bytes == NonZeroBytes(Word(n))
           c == Cardinality(NonZero(Word(n)))
           rest == Rest(n)
           head == <<tag>> \o bytes
<1>1. tag \in Nat /\ NonZero(Word(n)) \in SUBSET (1 .. WordBytes)  BY TagFacts
<1>2. c \in 0 .. WordBytes  BY <1>1, RankRange
<1>3. bytes \in Seq(Nat) /\ Len(bytes) = c  BY BytesFacts
<1>4. rest \in Seq(Nat)  BY RestFacts
<1>5. Block(n) = head \o rest  BY DEF Block, Rest
<1> HIDE DEF tag, bytes, c, rest
<1>6. <<tag>> \in Seq(Nat) /\ Len(<<tag>>) = 1 /\ <<tag>>[1] = tag  BY <1>1
<1>7. /\ head \in Seq(Nat) /\ Len(head) = 1 + c /\ head[1] = tag
      /\ \A j \in 1 .. c : head[1 + j] = bytes[j]
  BY <1>3, <1>6, ConcatFacts
<1> HIDE DEF head
<1>8. /\ head \o rest \in Seq(Nat) /\ Len(head \o rest) = Len(head) + Len(rest)
      /\ \A i \in 1 .. Len(head) : (head \o rest)[i] = head[i]
      /\ \A i \in 1 .. Len(rest) : (head \o rest)[Len(head) + i] = rest[i]
  <2>1. head \in Seq(Nat)  BY <1>7
  <2> QED BY ONLY <1>4, <2>1, ConcatFacts
<1>9. c \in Nat  BY <1>2
<1>10. /\ Len(Block(n)) = 1 + c + Len(rest)
       /\ Block(n)[1] = tag
       /\ \A j \in 1 .. c : Block(n)[1 + j] = bytes[j]
       /\ \A j \in 1 .. Len(rest) : Block(n)[1 + c + j] = rest[j]
  <2>1. 1 \in 1 .. (1 + c) /\ \A j \in 1 .. c : 1 + j \in 1 .. (1 + c)  BY <1>9
  <2>2. Len(head) = 1 + c  BY <1>7
  <2>3. \A i \in 1 .. (1 + c) : (head \o rest)[i] = head[i]  BY <1>8, <2>2
  <2>4. Len(Block(n)) = 1 + c + Len(rest)  BY ONLY <1>5, <1>8, <2>2
  <2>5. Block(n)[1] = tag  BY ONLY <1>5, <1>7, <2>1, <2>3
  <2>6. \A j \in 1 .. c : Block(n)[1 + j] = bytes[j]  BY ONLY <1>5, <1>7, <2>1, <2>3
  <2>7. \A j \in 1 .. Len(rest) : Block(n)[1 + c + j] = rest[j]  BY ONLY <1>5, <1>8, <2>2
  <2> QED BY ONLY <2>4, <2>5, <2>6, <2>7
<1> QED BY <1>2, <1>5, <1>8, <1>10 DEF tag, bytes, c, rest

\* Its length, at most.
LEMMA BlockLength ==
  ASSUME InputOK, NEW n \in 0 .. (Words - 1)
  PROVE  /\ Len(Block(n)) \in Nat /\ Len(Block(n)) >= 1
         /\ Len(Block(n)) <= WordBytes + 2 + WordBytes * MaxRun
<1> DEFINE c == Cardinality(NonZero(Word(n)))
           f == FullRun(n + 1)
<1>0. WordBytes \in Nat /\ MaxRun \in Nat /\ Words \in Nat  BY WordsFacts, PackedAssumption
<1>1. /\ c \in 0 .. WordBytes /\ Block(n) \in Seq(Nat)
      /\ Len(Block(n)) = 1 + c + Len(Rest(n))
  BY BlockFacts
<1>2. n + 1 \in 0 .. Words  BY <1>0
<1>3. f \in 0 .. MaxRun  BY <1>2, RunsFacts
<1>4. WordBytes * MaxRun = MaxRun * WordBytes /\ f \in Nat  BY <1>0, <1>3
<1>5. f * WordBytes \in Nat /\ MaxRun * WordBytes \in Nat /\ f * WordBytes <= MaxRun * WordBytes
  BY <1>0, <1>3, <1>4, Products
<1>6. /\ Rest(n) \in Seq(Nat)
      /\ Len(Rest(n)) \in {0, 1} \/ Len(Rest(n)) = 1 + f * WordBytes
  BY RestFacts
<1>7. Len(Rest(n)) \in Nat /\ Len(Rest(n)) <= 1 + MaxRun * WordBytes
  <2> DEFINE l == Len(Rest(n))
             x == f * WordBytes
             y == MaxRun * WordBytes
  <2>1. l \in Nat  BY <1>6
  <2>2. l \in {0, 1} \/ l = 1 + x  BY <1>6
  <2> HIDE DEF l, x, y
  <2>3. l <= 1 + y  BY ONLY <1>5, <2>1, <2>2 DEF x, y
  <2> QED BY <2>1, <2>3 DEF l, y
<1> HIDE DEF c, f
<1>8. Len(Block(n)) \in Nat  BY <1>1
<1> QED BY ONLY <1>0, <1>1, <1>4, <1>5, <1>7, <1>8

-----------------------------------------------------------------------------
(* Reading a block *)

\* The packed bytes from p on, as far as they arrived, are the block of word n.
BlockHere(p, n) ==
  \A j \in 1 .. Len(Block(n)) : p + j <= Len(packed) => packed[p + j] = Block(n)[j]

\* The tag of a block and the bytes it names stand for the word.
LEMMA WordRead ==
  ASSUME InputOK, NEW n \in 0 .. (Words - 1), packed \in Seq(Nat),
         NEW p \in Nat, p < Len(packed), BlockHere(p, n)
  PROVE  /\ packed[p + 1] = Tag(Word(n))
         /\ Stated(packed[p + 1]) = Cardinality(NonZero(Word(n)))
         /\ p + 1 + Cardinality(NonZero(Word(n))) <= Len(packed) => Unpacked(p + 1) = Word(n)
<1> DEFINE Z == NonZero(Word(n))
           c == Cardinality(Z)
<1>1. /\ c \in 0 .. WordBytes /\ Len(Block(n)) = 1 + c + Len(Rest(n))
      /\ Block(n)[1] = Tag(Word(n))
      /\ \A j \in 1 .. c : Block(n)[1 + j] = NonZeroBytes(Word(n))[j]
  BY BlockFacts
<1>2. Rest(n) \in Seq(Nat)  BY RestFacts
<1>3. c \in Nat /\ Len(Rest(n)) \in Nat /\ Len(packed) \in Nat
      /\ Len(Block(n)) \in Nat /\ Len(Block(n)) >= 1 + c
  <2>1. c \in Nat /\ Len(Rest(n)) \in Nat /\ Len(packed) \in Nat  BY <1>1, <1>2
  <2> QED BY <1>1, <2>1
<1>4. packed[p + 1] = Tag(Word(n))
  <2>1. 1 \in 1 .. Len(Block(n)) /\ p + 1 <= Len(packed)  BY <1>3
  <2> QED BY <2>1, <1>1 DEF BlockHere
<1>5. Z \in SUBSET (1 .. WordBytes) /\ Bits(packed[p + 1]) = Z  BY <1>4, TagFacts
<1>6. Stated(packed[p + 1]) = c  BY <1>5 DEF Stated
<1>7. ASSUME p + 1 + c <= Len(packed) PROVE Unpacked(p + 1) = Word(n)
  <2>1. ASSUME NEW k \in Z
        PROVE  packed[p + 1 + Rank(Z, k)] = Word(n)[k]
    <3>1. /\ Rank(Z, k) \in 1 .. c
          /\ NonZeroBytes(Word(n))[Rank(Z, k)] = Word(n)[k]
      BY BytesFacts
    <3> DEFINE r == Rank(Z, k)
    <3> HIDE DEF r, Z, c
    <3>2. r \in 1 .. c /\ r \in Nat  BY <3>1, <1>3 DEF r
    <3>3. 1 + r \in 1 .. Len(Block(n)) /\ p + (1 + r) <= Len(packed) /\ p + (1 + r) = p + 1 + r
      BY <3>2, <1>3, <1>7
    <3>4. packed[p + (1 + r)] = Block(n)[1 + r]  BY <3>3 DEF BlockHere
    <3>5. Block(n)[1 + r] = Word(n)[k]  BY <3>1, <3>2, <1>1 DEF r
    <3>6. packed[p + 1 + r] = Word(n)[k]  BY <3>3, <3>4, <3>5
    <3> QED BY <3>6 DEF r
  <2>2. /\ Word(n) \in Seq(Nat) /\ Len(Word(n)) = WordBytes  BY WordFacts
  <2>3. \A k \in 1 .. WordBytes : k \notin Z => Word(n)[k] = 0  BY DEF NonZero
  <2>4. Unpacked(p + 1) =
          [k \in 1 .. WordBytes |-> IF k \in Z THEN packed[p + 1 + Rank(Z, k)] ELSE 0]
    BY <1>5 DEF Unpacked
  <2> HIDE DEF Z
  <2>5. Word(n) = [k \in 1 .. WordBytes |-> Word(n)[k]]  BY <2>2
  <2>6. \A k \in 1 .. WordBytes :
          (IF k \in Z THEN packed[p + 1 + Rank(Z, k)] ELSE 0) = Word(n)[k]
    BY <2>1, <2>3
  <2> QED BY <2>4, <2>5, <2>6
<1> QED BY <1>4, <1>6, <1>7

\* What stands behind them.
LEMMA RestRead ==
  ASSUME InputOK, NEW n \in 0 .. (Words - 1), packed \in Seq(Nat),
         NEW p \in Nat, BlockHere(p, n)
  PROVE  /\ Tag(Word(n)) = 0 =>
              /\ Cardinality(NonZero(Word(n))) = 0
              /\ Len(Block(n)) = 2
              /\ p + 2 <= Len(packed) => packed[p + 2] = ZeroRun(n + 1)
         /\ Tag(Word(n)) = FullTag =>
              /\ Cardinality(NonZero(Word(n))) = WordBytes
              /\ Len(Block(n)) = 2 + WordBytes + FullRun(n + 1) * WordBytes
              /\ p + 2 + WordBytes <= Len(packed) =>
                   packed[p + 2 + WordBytes] = FullRun(n + 1)
              /\ \A i \in 1 .. (FullRun(n + 1) * WordBytes) :
                   p + 2 + WordBytes + i <= Len(packed) =>
                     packed[p + 2 + WordBytes + i] = input[(n + 1) * WordBytes + i]
         /\ Tag(Word(n)) \notin {0, FullTag} =>
              Len(Block(n)) = 1 + Cardinality(NonZero(Word(n)))
<1> DEFINE c == Cardinality(NonZero(Word(n)))
           rest == Rest(n)
<1>0. WordBytes \in Nat /\ Words \in Nat  BY WordsFacts, PackedAssumption
<1>1. /\ c \in 0 .. WordBytes /\ Len(Block(n)) = 1 + c + Len(rest)
      /\ \A j \in 1 .. Len(rest) : Block(n)[1 + c + j] = rest[j]
  BY BlockFacts
<1>2. /\ rest \in Seq(Nat)
      /\ Tag(Word(n)) = 0 => rest = <<ZeroRun(n + 1)>>
      /\ Tag(Word(n)) = FullTag =>
           /\ Len(rest) = 1 + FullRun(n + 1) * WordBytes /\ rest[1] = FullRun(n + 1)
           /\ \A i \in 1 .. (FullRun(n + 1) * WordBytes) : rest[1 + i] = input[(n + 1) * WordBytes + i]
      /\ Tag(Word(n)) \notin {0, FullTag} => rest = <<>>
  BY RestFacts
<1>3. /\ Tag(Word(n)) = 0 => NonZero(Word(n)) = {}
      /\ Tag(Word(n)) = FullTag => NonZero(Word(n)) = 1 .. WordBytes
  BY TagFacts
<1>4. Cardinality({}) = 0 /\ Cardinality(1 .. WordBytes) = WordBytes
  BY <1>0, FS_EmptySet, FS_Interval, PackedAssumption
<1> HIDE DEF rest
<1>5. ASSUME NEW j \in 1 .. Len(rest), p + 1 + c + j <= Len(packed)
      PROVE  packed[p + 1 + c + j] = rest[j]
  <2>1. c \in Nat /\ j \in Nat /\ Len(rest) \in Nat  BY <1>1, <1>2
  <2>0. Len(Block(n)) = 1 + c + Len(rest)  BY <1>1
  <2> HIDE DEF c
  <2>2. 1 + c + j \in 1 .. Len(Block(n)) /\ p + 1 + c + j = p + (1 + c + j)
    BY <2>0, <2>1
  <2>3. packed[p + (1 + c + j)] = Block(n)[1 + c + j]  BY <2>2, <1>5 DEF BlockHere
  <2> QED BY <2>2, <2>3, <1>1
<1>6. ASSUME Tag(Word(n)) = 0
      PROVE  /\ c = 0 /\ Len(Block(n)) = 2
             /\ p + 2 <= Len(packed) => packed[p + 2] = ZeroRun(n + 1)
  <2>1. c = 0 /\ rest = <<ZeroRun(n + 1)>>  BY <1>2, <1>3, <1>4, <1>6
  <2> HIDE DEF c
  <2>2. Len(rest) = 1 /\ rest[1] = ZeroRun(n + 1)  BY <2>1
  <2>3. 1 \in 1 .. Len(rest) /\ p + 1 + c + 1 = p + 2  BY <2>1, <2>2
  <2>4. p + 2 <= Len(packed) => packed[p + 2] = ZeroRun(n + 1)  BY <2>2, <2>3, <1>5
  <2> QED BY <1>1, <2>1, <2>2, <2>4
<1>7. ASSUME Tag(Word(n)) = FullTag
      PROVE  /\ c = WordBytes
             /\ Len(Block(n)) = 2 + WordBytes + FullRun(n + 1) * WordBytes
             /\ p + 2 + WordBytes <= Len(packed) => packed[p + 2 + WordBytes] = FullRun(n + 1)
             /\ \A i \in 1 .. (FullRun(n + 1) * WordBytes) :
                  p + 2 + WordBytes + i <= Len(packed) =>
                    packed[p + 2 + WordBytes + i] = input[(n + 1) * WordBytes + i]
  <2> DEFINE x == FullRun(n + 1) * WordBytes
  <2>1. c = WordBytes  BY <1>3, <1>4, <1>7
  <2>2. /\ Len(rest) = 1 + x /\ rest[1] = FullRun(n + 1)
        /\ \A i \in 1 .. x : rest[1 + i] = input[(n + 1) * WordBytes + i]
    BY <1>2, <1>7
  <2>3. x \in Nat
    <3>1. n + 1 \in 0 .. Words  BY <1>0
    <3>2. FullRun(n + 1) \in 0 .. MaxRun /\ MaxRun \in Nat  BY <3>1, RunsFacts, PackedAssumption
    <3>3. FullRun(n + 1) \in Nat  BY <3>2
    <3> QED BY <3>3, Products
  <2> HIDE DEF c, x
  <2>4. Len(Block(n)) = 2 + WordBytes + x
    BY ONLY <1>0, <1>1, <2>1, <2>2, <2>3
  <2>5. p + 2 + WordBytes <= Len(packed) => packed[p + 2 + WordBytes] = FullRun(n + 1)
    <3>1. 1 \in 1 .. Len(rest) /\ p + 1 + c + 1 = p + 2 + WordBytes
      BY ONLY <2>1, <2>2, <2>3, <1>0, p \in Nat
    <3> QED BY <3>1, <2>2, <1>5
  <2>6. ASSUME NEW i \in 1 .. x, p + 2 + WordBytes + i <= Len(packed)
        PROVE  packed[p + 2 + WordBytes + i] = input[(n + 1) * WordBytes + i]
    <3>1. 1 + i \in 1 .. Len(rest) /\ p + 1 + c + (1 + i) = p + 2 + WordBytes + i
      BY ONLY <2>1, <2>2, <2>3, <1>0, p \in Nat, i \in 1 .. x
    <3>2. packed[p + 1 + c + (1 + i)] = rest[1 + i]  BY <3>1, <2>6, <1>5
    <3> QED BY <3>1, <3>2, <2>2
  <2> QED BY <2>1, <2>4, <2>5, <2>6 DEF c, x
<1>8. ASSUME Tag(Word(n)) \notin {0, FullTag} PROVE Len(Block(n)) = 1 + c
  <2>1. Len(rest) = 0  BY <1>2, <1>8
  <2> QED BY <1>1, <2>1
<1> QED BY <1>6, <1>7, <1>8

\* The bytes of a run of zero words are zero in the message.
LEMMA ZeroBytes ==
  ASSUME InputOK, NEW n \in 0 .. Words,
         NEW i \in 1 .. (ZeroRun(n) * WordBytes)
  PROVE  input[n * WordBytes + i] = 0
<1> DEFINE z == ZeroRun(n)
           a == n * WordBytes
           b == z * WordBytes
           pos == a + (i - 1)
           d == pos \div WordBytes
           k == (pos % WordBytes) + 1
<1>0. Words \in Nat /\ WordBytes \in Nat /\ MaxRun \in Nat  BY WordsFacts, PackedAssumption
<1>1. /\ z \in 0 .. MaxRun /\ n + z <= Words
      /\ \A j \in n .. (n + z - 1) : j \in 0 .. (Words - 1) /\ WordAllZero(Word(j))
  BY RunsFacts
<1>2. n \in Nat /\ z \in Nat /\ n + z \in Nat  BY <1>0, <1>1
<1>3. a \in Nat /\ b \in Nat /\ (n + z) * WordBytes = a + b
  BY <1>2, Products
<1>4. i \in 1 .. b  OBVIOUS
<1> HIDE DEF a, b, z
<1>5. /\ i \in Nat /\ pos \in Nat /\ pos = a + (i - 1)
      /\ a <= pos /\ pos < a + b
  BY <1>3, <1>4
<1> HIDE DEF pos
<1>6. n * WordBytes <= pos /\ pos < (n + z) * WordBytes
  BY <1>3, <1>5 DEF a
<1>7. n <= d /\ d < n + z  BY <1>2, <1>5, <1>6, PositionBounds
<1>8. /\ d \in Nat /\ pos % WordBytes \in 0 .. (WordBytes - 1)
      /\ pos = d * WordBytes + (pos % WordBytes)
  BY <1>5, Positions
<1>9. d \in n .. (n + z - 1)  BY <1>2, <1>7, <1>8
<1> HIDE DEF d
<1>10. k \in 1 .. WordBytes  BY <1>0, <1>8
<1>11. d \in 0 .. (Words - 1) /\ WordAllZero(Word(d))  BY <1>1, <1>9
<1>12. Word(d)[k] = 0  BY <1>10, <1>11 DEF WordAllZero
<1>13. Word(d)[k] = input[d * WordBytes + k]  BY <1>10, <1>11, WordFacts
<1>14. d * WordBytes \in Nat  BY <1>8, Products
<1>15. d * WordBytes + k = a + i
  BY <1>3, <1>5, <1>8, <1>14, <1>0
<1> QED BY <1>12, <1>13, <1>15 DEF a

\* One more word and the run behind it continue what was unpacked.
LEMMA OutGrows ==
  ASSUME InputOK, NEW n \in 0 .. (Words - 1), out = SubSeq(input, 1, n * WordBytes),
         NEW r \in Nat, n + 1 + r <= Words,
         NEW run \in Seq(Nat), Len(run) = r * WordBytes,
         \A i \in 1 .. (r * WordBytes) : run[i] = input[(n + 1) * WordBytes + i]
  PROVE  /\ Len(out) = n * WordBytes
         /\ out \o Word(n) \o run = SubSeq(input, 1, (n + 1 + r) * WordBytes)
         /\ SubSeq(input, 1, (n + 1 + r) * WordBytes) \in Seq(Nat)
         /\ Len(SubSeq(input, 1, (n + 1 + r) * WordBytes)) = n * WordBytes + WordBytes + r * WordBytes
<1> DEFINE a == n * WordBytes
           b == (n + 1) * WordBytes
           x == r * WordBytes
           e == (n + 1 + r) * WordBytes
<1>0. WordBytes \in Nat /\ Words \in Nat /\ Words * WordBytes = Len(input)
  BY WordsFacts, PackedAssumption
<1>1. n \in Nat /\ n + 1 \in Nat /\ n + 1 + r \in Nat  BY <1>0
<1>2. /\ a \in Nat /\ b \in Nat /\ x \in Nat /\ e \in Nat
      /\ b = a + WordBytes /\ e = b + x /\ e <= Len(input)
  <2>1. a \in Nat /\ b \in Nat /\ x \in Nat /\ e \in Nat  BY <1>1, Products
  <2>2. b = a + WordBytes  BY <1>1, Products
  <2>3. e = b + x  BY <1>1, Products
  <2>4. e <= Words * WordBytes  BY <1>0, <1>1, Products
  <2> QED BY <1>0, <2>1, <2>2, <2>3, <2>4
<1>3. /\ Word(n) \in Seq(Nat) /\ Len(Word(n)) = WordBytes
      /\ \A k \in 1 .. WordBytes : Word(n)[k] = input[a + k]
  BY WordFacts
<1>4. input \in Seq(Nat)  BY DEF InputOK
<1>5. Len(run) = x /\ \A i \in 1 .. x : run[i] = input[b + i]  OBVIOUS
<1>6. out = SubSeq(input, 1, a)  OBVIOUS
<1> HIDE DEF a, b, x, e
<1>7. /\ a <= b /\ b <= e /\ b <= Len(input) /\ b - a = WordBytes /\ e - b = x
      /\ a <= Len(input) /\ e = a + WordBytes + x
  BY ONLY <1>0, <1>2, <1>4
<1>8. out \o Word(n) = SubSeq(input, 1, b)
  <2>1. Word(n) \in Seq(Nat) /\ Len(Word(n)) = b - a  BY <1>3, <1>7
  <2>2. \A i \in 1 .. (b - a) : Word(n)[i] = input[a + i]  BY <1>3, <1>7
  <2>3. a \in Nat /\ b \in Nat /\ a <= b /\ b <= Len(input)  BY <1>2, <1>7
  <2>4. SubSeq(input, 1, a) \o Word(n) = SubSeq(input, 1, b)
    BY ONLY <2>1, <2>2, <2>3, <1>4, PrefixGrows, ZenonT(40)
  <2> QED BY <2>4, <1>6
<1>9. SubSeq(input, 1, b) \o run = SubSeq(input, 1, e)
  <2>1. run \in Seq(Nat) /\ Len(run) = e - b  BY <1>5, <1>7
  <2>2. \A i \in 1 .. (e - b) : run[i] = input[b + i]  BY <1>5, <1>7
  <2>3. b \in Nat /\ e \in Nat /\ b <= e /\ e <= Len(input)  BY <1>2, <1>7
  <2> QED BY ONLY <2>1, <2>2, <2>3, <1>4, PrefixGrows, ZenonT(40)
<1>10. SubSeq(input, 1, e) \in Seq(Nat) /\ Len(SubSeq(input, 1, e)) = e
  BY ONLY <1>2, <1>4
<1>11. Len(out) = a  BY ONLY <1>2, <1>4, <1>6, <1>7
<1>12. out \o Word(n) \o run = SubSeq(input, 1, e)
  BY <1>8, <1>9
<1> QED BY <1>7, <1>10, <1>11, <1>12 DEF a, e, x

\* What capnp_unpack does with the block it stands at: it takes all of it, or
\* refuses because not all of it is there.
LEMMA BlockUnpacked ==
  ASSUME InputOK, NEW n \in 0 .. (Words - 1), packed \in Seq(Nat),
         ipos \in Nat, ipos < Len(packed), BlockHere(ipos, n),
         out = SubSeq(input, 1, n * WordBytes), cap \in Nat, Len(out) <= cap,
         UnpackWord
  PROVE  \/ /\ phase' = "error" /\ UNCHANGED <<ipos, out, cap>>
            /\ Len(packed) < ipos + Len(Block(n))
         \/ /\ phase' = "unpack"
            /\ ipos' = ipos + Len(Block(n)) /\ ipos' <= Len(packed)
            /\ out' = SubSeq(input, 1, (n + Taken(n)) * WordBytes)
            /\ out' \in Seq(Nat) /\ cap' \in Nat /\ Len(out') <= cap'
<1> DEFINE p     == ipos + 1
           tag   == packed[p]
           c     == p + Stated(tag) + 1
           runs  == tag = 0 \/ tag = FullTag
           count == packed[c]
           next  == IF tag = FullTag THEN c + count * WordBytes
                    ELSE IF runs THEN c ELSE c - 1
           short == \/ c - 1 > Len(packed)
                    \/ runs /\ c > Len(packed)
                    \/ tag = FullTag /\ next > Len(packed)
           run   == IF tag = FullTag THEN SubSeq(packed, c + 1, next)
                    ELSE [i \in 1 .. (count * WordBytes) |-> 0]
           grown == Grow(cap, Len(out) + WordBytes + MaxRun * WordBytes)
           end   == Len(out) + WordBytes + count * WordBytes
           z     == Cardinality(NonZero(Word(n)))
           zeros == ZeroRun(n + 1)
           full  == FullRun(n + 1)
<1>0. WordBytes \in Nat /\ MaxRun \in Nat /\ Slack \in Nat /\ Words \in Nat
  BY WordsFacts, PackedAssumption
<1>1. IF short
      THEN phase' = "error" /\ UNCHANGED <<ipos, out, cap>>
      ELSE /\ out' = out \o Unpacked(p) \o (IF runs THEN run ELSE <<>>)
           /\ ipos' = next
           /\ cap' = IF runs /\ end > grown THEN end + Slack ELSE grown
           /\ phase' = "unpack"
  BY DEF UnpackWord
<1>2. /\ tag = Tag(Word(n)) /\ Stated(tag) = z
      /\ p + z <= Len(packed) => Unpacked(p) = Word(n)
  BY WordRead
<1>3. /\ tag = 0 => z = 0 /\ Len(Block(n)) = 2 /\ (ipos + 2 <= Len(packed) => packed[ipos + 2] = zeros)
      /\ tag = FullTag =>
           /\ z = WordBytes /\ Len(Block(n)) = 2 + WordBytes + full * WordBytes
           /\ ipos + 2 + WordBytes <= Len(packed) => packed[ipos + 2 + WordBytes] = full
           /\ \A i \in 1 .. (full * WordBytes) :
                ipos + 2 + WordBytes + i <= Len(packed) =>
                  packed[ipos + 2 + WordBytes + i] = input[(n + 1) * WordBytes + i]
      /\ tag \notin {0, FullTag} => Len(Block(n)) = 1 + z
  BY <1>2, RestRead
<1>4. /\ tag = 0 => Taken(n) = 1 + zeros
      /\ tag = FullTag => Taken(n) = 1 + full
      /\ tag \notin {0, FullTag} => Taken(n) = 1
  BY <1>2, RestFacts
<1>5. n + 1 \in 0 .. Words /\ n \in Nat  BY <1>0
<1>6. /\ zeros \in 0 .. MaxRun /\ n + 1 + zeros <= Words
      /\ full \in 0 .. MaxRun /\ n + 1 + full <= Words
  BY <1>5, RunsFacts
<1>7. zeros \in Nat /\ full \in Nat  BY <1>0, <1>6
<1>8. z \in 0 .. WordBytes  BY BlockFacts
<1>9. z \in Nat /\ Len(packed) \in Nat /\ c = ipos + 2 + z
  <2>1. z \in Nat /\ Len(packed) \in Nat  BY <1>0, <1>8
  <2>2. c = ipos + 1 + z + 1  BY <1>2
  <2> HIDE DEF z, c
  <2> QED BY <2>1, <2>2
<1>10. FullTag # 0  BY TagFacts
<1>11. MaxRun * WordBytes \in Nat /\ WordBytes * (MaxRun + 1) = MaxRun * WordBytes + WordBytes
  BY <1>0, Products
<1>12. Len(out) \in Nat /\ Len(out) = n * WordBytes
  <2>1. <<>> \in Seq(Nat) /\ Len(<<>>) = 0 * WordBytes /\ 0 \in Nat /\ n + 1 + 0 <= Words
    BY <1>0
  <2>2. \A i \in 1 .. (0 * WordBytes) : <<>>[i] = input[(n + 1) * WordBytes + i]  BY <1>0
  <2>3. Len(out) = n * WordBytes  BY <2>1, <2>2, OutGrows
  <2> QED BY <2>3, <1>5, Products
<1>13. grown \in Nat /\ Len(out) + WordBytes <= grown
  <2>1. grown = IF Len(out) + WordBytes + MaxRun * WordBytes > cap
                THEN cap * 2 + WordBytes * (MaxRun + 1) ELSE cap
    BY DEF Grow
  <2> DEFINE m == MaxRun * WordBytes
             o == Len(out)
             g == grown
  <2>2. /\ m \in Nat /\ o \in Nat /\ o <= cap
        /\ g = IF o + WordBytes + m > cap THEN cap * 2 + (m + WordBytes) ELSE cap
    BY <1>11, <1>12, <2>1
  <2> HIDE DEF m, o, g
  <2>3. g \in Nat /\ o + WordBytes <= g  BY ONLY <2>2, <1>0, cap \in Nat
  <2> QED BY <2>3 DEF g, o
\* In each case: how long the block is, whether it is short, what is unpacked.
<1> DEFINE Refused == Len(packed) < ipos + Len(Block(n))
           Unpacks(r) ==
             /\ r \in Nat /\ n + 1 + r <= Words /\ Taken(n) = 1 + r
             /\ next = ipos + Len(Block(n)) /\ next <= Len(packed)
             /\ p + z <= Len(packed)
             /\ \E tail \in Seq(Nat) :
                  /\ tail = IF runs THEN run ELSE <<>>
                  /\ Len(tail) = r * WordBytes
                  /\ \A i \in 1 .. (r * WordBytes) : tail[i] = input[(n + 1) * WordBytes + i]
             /\ IF runs THEN count = r ELSE r = 0
<1>14. ASSUME tag = 0 PROVE IF short THEN Refused ELSE Unpacks(zeros)
  <2>1. /\ z = 0 /\ c = ipos + 2 /\ Len(Block(n)) = 2 /\ runs /\ tag # FullTag /\ next = c
    BY <1>3, <1>9, <1>10, <1>14
  <2> HIDE DEF z, c
  <2>2. ASSUME short PROVE Refused
    BY <2>1, <2>2, <1>9
  <2>3. ASSUME ~short PROVE Unpacks(zeros)
    <3>1. c <= Len(packed) /\ p + z <= Len(packed)  BY <2>1, <2>3, <1>9
    <3>2. count = zeros  BY <1>3, <1>14, <2>1, <3>1
    <3>3. run = [i \in 1 .. (zeros * WordBytes) |-> 0]
      <4> HIDE DEF tag, count, zeros
      <4> QED BY <2>1, <3>2
    <3>4. zeros * WordBytes \in Nat  BY <1>7, Products
    <3>5. \A i \in 1 .. (zeros * WordBytes) : input[(n + 1) * WordBytes + i] = 0
      BY <1>5, ZeroBytes
    <3>6. /\ run \in Seq(Nat) /\ Len(run) = zeros * WordBytes
          /\ \A i \in 1 .. (zeros * WordBytes) : run[i] = input[(n + 1) * WordBytes + i]
      <4> DEFINE x == zeros * WordBytes
      <4> HIDE DEF run, x
      <4>1. run = [i \in 1 .. x |-> 0]  BY <3>3 DEF x
      <4>2. x \in Nat /\ \A i \in 1 .. x : input[(n + 1) * WordBytes + i] = 0
        BY <3>4, <3>5 DEF x
      <4>3. run \in Seq(Nat) /\ Len(run) = x /\ \A i \in 1 .. x : run[i] = 0
        BY ONLY <4>1, <4>2
      <4>4. \A i \in 1 .. x : run[i] = input[(n + 1) * WordBytes + i]
        BY ONLY <4>2, <4>3
      <4> QED BY <4>3, <4>4 DEF x
    <3> HIDE DEF run
    <3>7. \E tail \in Seq(Nat) :
            /\ tail = IF runs THEN run ELSE <<>>
            /\ Len(tail) = zeros * WordBytes
            /\ \A i \in 1 .. (zeros * WordBytes) : tail[i] = input[(n + 1) * WordBytes + i]
      BY <2>1, <3>6
    <3>8. next = ipos + Len(Block(n)) /\ next <= Len(packed)  BY <2>1, <3>1
    <3>9. Taken(n) = 1 + zeros  BY <1>4, <1>14
    <3>10. IF runs THEN count = zeros ELSE zeros = 0  BY <2>1, <3>2
    <3> HIDE DEF next, p, runs, tag, count, zeros
    <3> QED BY <1>6, <1>7, <2>1, <3>1, <3>7, <3>8, <3>9, <3>10
  <2> HIDE DEF short, Refused, Unpacks
  <2> QED BY <2>2, <2>3
<1>15. ASSUME tag = FullTag PROVE IF short THEN Refused ELSE Unpacks(full)
  <2> DEFINE x == full * WordBytes
             b == ipos + 2 + WordBytes
  <2>1. /\ z = WordBytes /\ c = b /\ Len(Block(n)) = 2 + WordBytes + x
        /\ runs /\ next = c + count * WordBytes
    BY <1>3, <1>9, <1>15
  <2>2. x \in Nat /\ b \in Nat  BY <1>0, <1>7, Products
  <2>3. c <= Len(packed) => count = full  BY <1>3, <1>15, <2>1
  <2>4. c <= Len(packed) => next = b + x
    <3> HIDE DEF next, count, full, c, b, tag
    <3> QED BY <2>1, <2>3 DEF x
  <2>5. ipos + Len(Block(n)) = b + x
    <3> HIDE DEF x
    <3> QED BY <2>1, <2>2, <1>0
  <2>6. \A i \in 1 .. x : b + i <= Len(packed) => packed[b + i] = input[(n + 1) * WordBytes + i]
    BY <1>3, <1>15
  <2>7. c - 1 = p + z /\ c \in Nat  BY <1>9, SMTT(30)
  <2>8. ASSUME short PROVE Refused
    <3>1. c > Len(packed) \/ (c <= Len(packed) /\ next > Len(packed))
      <4> HIDE DEF next, count, full, c, b, tag, x
      <4>1. c - 1 > Len(packed) => c > Len(packed)  BY <2>7, <1>9
      <4>2. next > Len(packed) => c > Len(packed) \/ (c <= Len(packed) /\ next > Len(packed))
        BY <2>7, <1>9
      <4> QED BY <2>8, <4>1, <4>2
    <3> HIDE DEF next, count, full, c, b, tag, x
    <3>2. c = b /\ Len(packed) \in Nat  BY <2>1, <1>9
    <3>3. c > Len(packed) => Len(packed) < b + x  BY ONLY <2>2, <3>2
    <3>4. c <= Len(packed) /\ next > Len(packed) => Len(packed) < b + x
      BY ONLY <2>2, <2>4, <3>2
    <3>5. Len(packed) < b + x  BY ONLY <3>1, <3>3, <3>4
    <3> QED BY <3>5, <2>5
  <2>9. ASSUME ~short PROVE Unpacks(full)
    <3> DEFINE tail == SubSeq(packed, b + 1, b + x)
    <3>1. c <= Len(packed) /\ next <= Len(packed)
      <4>1. ~(c > Len(packed)) /\ ~(next > Len(packed))  BY <2>9, <2>1, <1>15
      <4> HIDE DEF c, next, b, x
      <4>2. c <= Len(packed)  BY <4>1, <2>7, <1>9
      <4>3. next \in Nat  BY <4>2, <2>2, <2>4
      <4> QED BY <4>1, <4>2, <4>3, <1>9
    <3>2. p + z <= Len(packed)
      <4> HIDE DEF c, z
      <4> QED BY <3>1, <2>7, <1>9
    <3>3. next = b + x /\ b + x <= Len(packed) /\ count = full
      BY <3>1, <2>3, <2>4
    <3>4. run = tail
      <4> HIDE DEF next, c, b, x, count
      <4> QED BY <1>15, <3>3, <2>1
    <3>5. /\ tail \in Seq(Nat) /\ Len(tail) = x
          /\ \A i \in 1 .. x : tail[i] = input[(n + 1) * WordBytes + i]
      <4> HIDE DEF b, x
      <4>1. b \in Nat /\ b + x \in Nat /\ b <= b + x /\ b + x <= Len(packed) /\ (b + x) - b = x
        BY <2>2, <3>3
      <4>2. /\ tail \in Seq(Nat) /\ Len(tail) = (b + x) - b
            /\ \A i \in 1 .. ((b + x) - b) : tail[i] = packed[b + i]
        <5> HIDE DEF tail
        <5>1. packed \in Seq(Nat)  OBVIOUS
        <5> QED BY ONLY <4>1, <5>1, PartFacts DEF tail
      <4>3. \A i \in 1 .. x : b + i <= Len(packed)  BY <2>2, <4>1, <1>9
      <4> HIDE DEF tail
      <4> QED BY <4>1, <4>2, <4>3, <2>6
    <3> HIDE DEF b, tail, run
    <3>6. \E t \in Seq(Nat) :
            /\ t = IF runs THEN run ELSE <<>>
            /\ Len(t) = full * WordBytes
            /\ \A i \in 1 .. (full * WordBytes) : t[i] = input[(n + 1) * WordBytes + i]
      BY <2>1, <3>4, <3>5
    <3>7. next = ipos + Len(Block(n)) /\ next <= Len(packed)
      BY <2>5, <3>1, <3>3
    <3>8. Taken(n) = 1 + full  BY <1>4, <1>15
    <3>9. IF runs THEN count = full ELSE full = 0  BY <2>1, <3>3
    <3> HIDE DEF next, p, runs, tag, count, full, z
    <3> QED BY <1>6, <1>7, <3>2, <3>6, <3>7, <3>8, <3>9
  <2> HIDE DEF short, Refused, Unpacks
  <2> QED BY <2>8, <2>9
<1>16. ASSUME tag \notin {0, FullTag} PROVE IF short THEN Refused ELSE Unpacks(0)
  <2>1. ~runs /\ next = c - 1 /\ Len(Block(n)) = 1 + z /\ Taken(n) = 1
    BY <1>3, <1>4, <1>16
  <2>2. c - 1 = p + z /\ c - 1 = ipos + Len(Block(n)) /\ c - 1 \in Nat
    <3> HIDE DEF z, c
    <3> QED BY <2>1, <1>9
  <2>3. ASSUME short PROVE Refused
    <3> HIDE DEF c, next
    <3>1. c - 1 > Len(packed)  BY <2>1, <2>3, <1>16
    <3> QED BY <3>1, <2>2, <1>9
  <2>4. ASSUME ~short PROVE Unpacks(0)
    <3>1. c - 1 <= Len(packed)
      <4> HIDE DEF c, next, runs, tag
      <4>1. ~(c - 1 > Len(packed))  BY <2>4
      <4> QED BY <4>1, <2>2, <1>9
    <3>2. 0 * WordBytes = 0  BY <1>0
    <3> HIDE DEF run, tag, next, runs, c, count, z, p
    <3>3. \E t \in Seq(Nat) :
            /\ t = IF runs THEN run ELSE <<>>
            /\ Len(t) = 0 * WordBytes
            /\ \A i \in 1 .. (0 * WordBytes) : t[i] = input[(n + 1) * WordBytes + i]
      <4>1. <<>> \in Seq(Nat) /\ <<>> = (IF runs THEN run ELSE <<>>) /\ Len(<<>>) = 0  BY <2>1
      <4>2. \A i \in 1 .. (0 * WordBytes) : <<>>[i] = input[(n + 1) * WordBytes + i]  BY <3>2
      <4> QED BY <3>2, <4>1, <4>2
    <3>4. 0 \in Nat /\ n + 1 + 0 <= Words  BY <1>0, <1>5
    <3>5. next = ipos + Len(Block(n)) /\ next <= Len(packed) /\ p + z <= Len(packed)
      BY <2>1, <2>2, <3>1
    <3>6. Taken(n) = 1 + 0  BY <2>1
    <3>7. IF runs THEN count = 0 ELSE 0 = 0  BY <2>1
    <3> QED BY <3>3, <3>4, <3>5, <3>6, <3>7
  <2> HIDE DEF short, Refused, Unpacks
  <2> QED BY <2>3, <2>4
<1>17. tag \in {0, FullTag} \/ tag \notin {0, FullTag}  OBVIOUS
<1> HIDE DEF short, Refused
<1>18. (short /\ Refused) \/ (~short /\ \E r \in Nat : Unpacks(r))
  <2>1. ASSUME ~short PROVE \E r \in Nat : Unpacks(r)
    <3>1. \E r : Unpacks(r)
      <4> HIDE DEF Unpacks, tag
      <4> QED BY <2>1, <1>14, <1>15, <1>16
    <3> HIDE DEF tag, next, runs, run, p, z, count
    <3> QED BY <3>1
  <2>2. short => Refused
    <3> HIDE DEF Unpacks, tag
    <3> QED BY <1>14, <1>15, <1>16
  <2> QED BY <2>1, <2>2
<1>19. CASE short /\ Refused
  BY <1>1, <1>19 DEF Refused
<1>20. ASSUME ~short, NEW r \in Nat, Unpacks(r)
       PROVE  /\ phase' = "unpack"
              /\ ipos' = ipos + Len(Block(n)) /\ ipos' <= Len(packed)
              /\ out' = SubSeq(input, 1, (n + Taken(n)) * WordBytes)
              /\ out' \in Seq(Nat) /\ cap' \in Nat /\ Len(out') <= cap'
  <2> DEFINE x == r * WordBytes
             o == Len(out)
             longer == SubSeq(input, 1, (n + 1 + r) * WordBytes)
  <2>1. /\ n + 1 + r <= Words /\ Taken(n) = 1 + r
        /\ next = ipos + Len(Block(n)) /\ next <= Len(packed)
        /\ p + z <= Len(packed)
        /\ IF runs THEN count = r ELSE r = 0
    BY <1>20
  <2>2. PICK tail \in Seq(Nat) :
          /\ tail = IF runs THEN run ELSE <<>>
          /\ Len(tail) = x
          /\ \A i \in 1 .. x : tail[i] = input[(n + 1) * WordBytes + i]
    BY <1>20
  <2>3. /\ out' = out \o Unpacked(p) \o (IF runs THEN run ELSE <<>>)
        /\ ipos' = next
        /\ cap' = IF runs /\ end > grown THEN end + Slack ELSE grown
        /\ phase' = "unpack"
    BY <1>1, <1>20
  <2>4. Unpacked(p) = Word(n)  BY <1>2, <2>1
  <2>5. /\ out \o Word(n) \o tail = longer
        /\ longer \in Seq(Nat) /\ Len(longer) = n * WordBytes + WordBytes + x
    <3>1. /\ tail \in Seq(Nat) /\ Len(tail) = r * WordBytes
          /\ \A i \in 1 .. (r * WordBytes) : tail[i] = input[(n + 1) * WordBytes + i]
      BY <2>2
    <3>2. out = SubSeq(input, 1, n * WordBytes) /\ InputOK /\ n + 1 + r <= Words
      BY <2>1
    <3> QED BY ONLY <3>1, <3>2, n \in 0 .. (Words - 1), r \in Nat, OutGrows
  <2> HIDE DEF run, runs, Unpacks, p, z, grown, longer, tag, next
  <2>6. out' = longer
    BY ONLY <2>2, <2>3, <2>4, <2>5
  <2>7. n + Taken(n) = n + 1 + r  BY <2>1, <1>5
  <2>8. x \in Nat  BY Products
  <2>9. end = o + WordBytes + count * WordBytes  OBVIOUS
  <2>10. runs => end = o + WordBytes + x
    <3> HIDE DEF count, end
    <3> QED BY <2>1, <2>9
  <2>11. ~runs => x = 0  BY <2>1, <1>0
  <2>12. Len(out') = o + WordBytes + x
    BY <2>5, <2>6, <1>12
  <2> HIDE DEF end, x, o
  <2>13. o \in Nat /\ grown \in Nat /\ o + WordBytes <= grown  BY <1>12, <1>13 DEF o
  <2>14. cap' = IF runs /\ end > grown THEN end + Slack ELSE grown  BY <2>3
  <2>15. cap' \in Nat /\ Len(out') <= cap'
    BY ONLY <2>8, <2>10, <2>11, <2>12, <2>13, <2>14, <1>0
  <2>16. out' = SubSeq(input, 1, (n + Taken(n)) * WordBytes)
    BY <2>6, <2>7 DEF longer
  <2> QED BY <2>1, <2>3, <2>5, <2>6, <2>15, <2>16
<1>21. CASE ~short /\ \E r \in Nat : Unpacks(r)
  <2> PICK r \in Nat : Unpacks(r)  BY <1>21
  <2> HIDE DEF Unpacks
  <2> QED BY <1>20, <1>21
<1> QED BY <1>18, <1>19, <1>21

-----------------------------------------------------------------------------
(* The invariant *)

\* Block n of q is where S says, and the next block follows it.
BlockAt(S, q, n) ==
  /\ n < Words
  /\ n + Taken(n) \in DOMAIN S
  /\ S[n + Taken(n)] = S[n] + Len(Block(n))
  /\ \A j \in 1 .. Len(Block(n)) : q[S[n] + j] = Block(n)[j]

\* q is laid out in blocks for the first u words: S maps the words that begin a
\* block to the bytes in front of it.
Layout(S, q, u) ==
  /\ q \in Seq(Nat)
  /\ S \in [DOMAIN S -> 0 .. Len(q)]
  /\ DOMAIN S \subseteq 0 .. u
  /\ 0 \in DOMAIN S /\ S[0] = 0
  /\ u \in DOMAIN S /\ S[u] = Len(q)
  /\ \A n \in DOMAIN S : n # u => BlockAt(S, q, n)

\* What arrived is a prefix of what was packed.
Received(q) ==
  /\ Len(packed) <= Len(q)
  /\ \A i \in 1 .. Len(packed) : packed[i] = q[i]
  /\ cut <=> Len(packed) < Len(q)
  /\ phase = "pack" => packed = q

\* capnp_unpack stands at a block and has unpacked the words in front of it.
ReadTo(S) ==
  \E n \in DOMAIN S : S[n] = ipos /\ out = SubSeq(input, 1, n * WordBytes)

InPhase ==
  /\ phase = "pack" => ipos = 0 /\ out = <<>> /\ (Words > 0 => cap >= 2)
  /\ phase # "pack" => w = Words
  /\ phase = "error" => cut
  /\ phase = "done" => ipos = Len(packed)

LaidOut ==
  \E S, q, u : u = w /\ Layout(S, q, u) /\ Received(q) /\ (phase # "pack" => ReadTo(S))

PackedInv == TypeOK /\ BufferHolds /\ InPhase /\ LaidOut

\* The message does not change, nor do its blocks.
LEMMA InputKept ==
  ASSUME UNCHANGED input
  PROVE  /\ Words' = Words
         /\ \A S, q, u : Layout(S, q, u)' <=> Layout(S, q, u)
<1>1. Words' = Words  BY DEF Words
<1>2. ASSUME NEW n PROVE Word(n)' = Word(n)  BY DEF Word
<1>3. ASSUME NEW n PROVE ZeroRun(n)' = ZeroRun(n) /\ FullRun(n)' = FullRun(n)
  BY <1>1, <1>2 DEF ZeroRun, FullRun
<1>4. ASSUME NEW n PROVE Block(n)' = Block(n)
  BY <1>2, <1>3 DEF Block
<1>5. ASSUME NEW n PROVE Taken(n)' = Taken(n)
  BY <1>2, <1>3 DEF Taken
<1>6. ASSUME NEW S, NEW q, NEW n PROVE BlockAt(S, q, n)' <=> BlockAt(S, q, n)
  BY <1>1, <1>4, <1>5 DEF BlockAt
<1>7. ASSUME NEW S, NEW q, NEW u PROVE Layout(S, q, u)' <=> Layout(S, q, u)
  BY <1>6 DEF Layout
<1> QED BY <1>1, <1>7

\* The length of what was unpacked.
LEMMA PrefixLength ==
  ASSUME InputOK, NEW n \in 0 .. Words
  PROVE  /\ SubSeq(input, 1, n * WordBytes) \in Seq(Nat)
         /\ Len(SubSeq(input, 1, n * WordBytes)) = n * WordBytes
         /\ n * WordBytes \in Nat
<1>1. Words \in Nat /\ Words * WordBytes = Len(input)  BY WordsFacts
<1>2. n \in Nat /\ n <= Words  BY <1>1
<1>3. n * WordBytes \in Nat /\ n * WordBytes <= Len(input)
  <2>1. n * WordBytes \in Nat  BY ONLY <1>2, Products, Zenon
  <2>2. n * WordBytes <= Words * WordBytes  BY ONLY <1>1, <1>2, Products, Zenon
  <2> QED BY ONLY <2>1, <2>2, <1>1, Zenon
<1>4. input \in Seq(Nat)  BY DEF InputOK
<1> DEFINE a == n * WordBytes
<1> HIDE DEF a
<1>5. a \in Nat /\ a <= Len(input)  BY <1>3 DEF a
<1>6. SubSeq(input, 1, a) \in Seq(Nat) /\ Len(SubSeq(input, 1, a)) = a
  BY ONLY <1>4, <1>5
<1> QED BY <1>3, <1>6 DEF a

LEMMA PackedInit == Init => PackedInv
<1> SUFFICES ASSUME Init PROVE PackedInv  OBVIOUS
<1>1. InputOK  BY PackedAssumption DEF Init, InputOK
<1>2. Words \in Nat /\ WordBytes \in Nat  BY <1>1, WordsFacts, PackedAssumption
<1>3. <<>> \in Seq(Nat) /\ Len(<<>>) = 0  OBVIOUS
<1>4. Words > 0 => Words * (WordBytes + 2) >= 2 /\ Words * (WordBytes + 2) \in Nat
  <2>1. Words * (WordBytes + 2) = Words * WordBytes + Words * 2  BY <1>2
  <2>2. Words * WordBytes \in Nat  BY <1>2, Products
  <2> QED BY <1>2, <2>1, <2>2
<1>5. cap \in Nat /\ (Words > 0 => cap >= 2) /\ cap >= 0
  BY <1>2, <1>4 DEF Init
<1>6. TypeOK
  <2>1. input \in Seq(Nat) /\ Len(input) % WordBytes = 0  BY <1>1 DEF InputOK
  <2>2. /\ phase = "pack" /\ w = 0 /\ packed = <<>> /\ cut = FALSE /\ ipos = 0
        /\ out = <<>>
    BY DEF Init
  <2>3. w \in 0 .. Words /\ packed \in Seq(Nat) /\ ipos \in 0 .. Len(packed) /\ out \in Seq(Nat)
    BY <1>2, <1>3, <2>2
  <2>4. phase \in {"pack", "unpack", "done", "error"} /\ cut \in BOOLEAN  BY <2>2
  <2> QED BY ONLY <1>5, <2>1, <2>3, <2>4, Zenon DEF TypeOK
<1>7. BufferHolds /\ InPhase  BY <1>3, <1>5 DEF Init, BufferHolds, InPhase
<1>8. LaidOut
  <2> DEFINE S == [n \in {0} |-> 0]
  <2>1. Layout(S, <<>>, 0)  BY <1>3 DEF Layout
  <2>2. Received(<<>>)  BY <1>3 DEF Received, Init
  <2>3. w = 0 /\ phase = "pack"  BY DEF Init
  <2> HIDE DEF S
  <2> QED BY <2>1, <2>2, <2>3 DEF LaidOut
<1> QED BY <1>6, <1>7, <1>8 DEF PackedInv

\* A block that is appended extends the layout.
LEMMA LayoutGrows ==
  ASSUME InputOK, NEW S, NEW q, NEW u \in 0 .. (Words - 1), Layout(S, q, u)
  PROVE  \E T : Layout(T, q \o Block(u), u + Taken(u))
<1> DEFINE b == Block(u)
           r == q \o b
           v == u + Taken(u)
           T == [n \in DOMAIN S \cup {v} |-> IF n = v THEN Len(r) ELSE S[n]]
<1>1. /\ q \in Seq(Nat) /\ S \in [DOMAIN S -> 0 .. Len(q)] /\ DOMAIN S \subseteq 0 .. u
      /\ 0 \in DOMAIN S /\ S[0] = 0 /\ u \in DOMAIN S /\ S[u] = Len(q)
      /\ \A n \in DOMAIN S : n # u => BlockAt(S, q, n)
  BY DEF Layout
<1>2. b \in Seq(Nat)  BY BlockFacts
<1>3. /\ Taken(u) \in Nat /\ Taken(u) >= 1 /\ Words \in Nat
  BY RestFacts, WordsFacts
<1>4. /\ r \in Seq(Nat) /\ Len(r) = Len(q) + Len(b)
      /\ \A i \in 1 .. Len(q) : r[i] = q[i]
      /\ \A i \in 1 .. Len(b) : r[Len(q) + i] = b[i]
  BY ONLY <1>1, <1>2, ConcatFacts
<1>5. Len(q) \in Nat /\ Len(b) \in Nat /\ Len(r) \in Nat  BY <1>1, <1>2, <1>4
<1>6. u \in Nat /\ v \in Nat /\ v > u  BY <1>3
<1> HIDE DEF b, r, v
<1>7. v \notin DOMAIN S  BY <1>1, <1>6
<1>8. DOMAIN T = DOMAIN S \cup {v} /\ \A n \in DOMAIN S : T[n] = S[n]
  BY <1>7
<1>9. T[v] = Len(r)  OBVIOUS
<1>10. T \in [DOMAIN T -> 0 .. Len(r)]
  <2>1. \A n \in DOMAIN S : S[n] \in 0 .. Len(r)  BY <1>1, <1>4, <1>5
  <2>2. Len(r) \in 0 .. Len(r)  BY <1>5
  <2> QED BY <2>1, <2>2
<1> HIDE DEF T
<1>11. DOMAIN T \subseteq 0 .. v  BY <1>1, <1>6, <1>8
<1>12. 0 \in DOMAIN T /\ T[0] = 0 /\ v \in DOMAIN T  BY <1>1, <1>8
<1>13. ASSUME NEW n \in DOMAIN T, n # v PROVE BlockAt(T, r, n)
  <2>0. n \in DOMAIN S /\ T[n] = S[n]  BY <1>8, <1>13
  <2>1. CASE n = u
    <3>1. n < Words /\ n + Taken(n) = v  BY <1>3, <1>6, <2>1 DEF v
    <3>2. T[v] = T[n] + Len(Block(n))  BY <1>1, <1>4, <1>9, <2>0, <2>1 DEF b
    <3>3. \A j \in 1 .. Len(Block(n)) : r[T[n] + j] = Block(n)[j]
      BY <1>1, <1>4, <2>0, <2>1 DEF b
    <3> QED BY <1>12, <3>1, <3>2, <3>3 DEF BlockAt
  <2>2. CASE n # u
    <3>1. BlockAt(S, q, n)  BY <1>1, <2>0, <2>2
    <3> DEFINE m == n + Taken(n)
    <3>2. m \in DOMAIN S /\ S[m] = S[n] + Len(Block(n))  BY <3>1 DEF BlockAt
    <3>3. m \in DOMAIN T /\ T[m] = T[n] + Len(Block(n))  BY <1>8, <2>0, <3>2
    <3>4. ASSUME NEW j \in 1 .. Len(Block(n)) PROVE r[T[n] + j] = Block(n)[j]
      <4>0. n \in 0 .. (Words - 1)
        BY <1>1, <1>3, <2>0, <3>1 DEF BlockAt
      <4>1. Block(n) \in Seq(Nat)  BY <4>0, BlockFacts
      <4>2. Len(Block(n)) \in Nat /\ S[n] \in Nat /\ S[m] \in 0 .. Len(q)
        BY <1>1, <1>5, <2>0, <3>2, <4>1
      <4>3. S[n] + j \in 1 .. Len(q)
        BY ONLY <4>2, <3>2, <1>5, j \in 1 .. Len(Block(n))
      <4>4. q[S[n] + j] = Block(n)[j]  BY <3>1 DEF BlockAt
      <4> QED BY <1>4, <2>0, <4>3, <4>4
    <3> QED BY <3>1, <3>3, <3>4 DEF BlockAt
  <2> QED BY <2>1, <2>2
<1>14. Layout(T, r, v)
  BY <1>4, <1>9, <1>10, <1>11, <1>12, <1>13 DEF Layout
<1> QED BY <1>14 DEF r, v, b

-----------------------------------------------------------------------------
(* Every step keeps it *)

\* The buffer of capnp_pack has room for the block.
LEMMA PackRoom ==
  ASSUME NEW s \in Nat, NEW l \in Nat, l <= s, s >= 2,
         NEW b \in Nat, b <= WordBytes + 2 + WordBytes * MaxRun
  PROVE  LET g == Grow(s, l + WordBytes + 2 + WordBytes * MaxRun)
         IN  g \in Nat /\ l + b <= g /\ g >= 2
<1> DEFINE m == WordBytes * MaxRun
           g == Grow(s, l + WordBytes + 2 + WordBytes * MaxRun)
<1>1. WordBytes \in Nat /\ MaxRun \in Nat  BY PackedAssumption
<1>2. m \in Nat /\ WordBytes * (MaxRun + 1) = m + WordBytes
  <2>1. MaxRun * WordBytes \in Nat /\ (MaxRun + 1) * WordBytes = MaxRun * WordBytes + WordBytes
    BY <1>1, Products
  <2> QED BY <1>1, <2>1
<1>3. g = IF l + WordBytes + 2 + m > s THEN s * 2 + WordBytes * (MaxRun + 1) ELSE s
  BY DEF Grow
<1> HIDE DEF m, g
<1>4. g = IF l + WordBytes + 2 + m > s THEN s * 2 + (m + WordBytes) ELSE s  BY <1>2, <1>3
<1>5. b <= WordBytes + 2 + m  BY DEF m
<1>6. g \in Nat /\ l + b <= g /\ g >= 2
  BY ONLY <1>1, <1>2, <1>4, <1>5, s \in Nat, l \in Nat, b \in Nat, l <= s, s >= 2
<1> QED BY <1>6 DEF g

LEMMA PackWordKeeps == PackedInv /\ PackWord => PackedInv'
<1> SUFFICES ASSUME PackedInv, PackWord PROVE PackedInv'  OBVIOUS
<1>1. /\ TypeOK /\ BufferHolds /\ InPhase /\ LaidOut  BY DEF PackedInv
<1>2. InputOK /\ w \in 0 .. Words /\ packed \in Seq(Nat) /\ cap \in Nat
  BY <1>1 DEF TypeOK, InputOK
<1>3. /\ phase = "pack" /\ w < Words
      /\ cap' = Grow(cap, Len(packed) + WordBytes + 2 + WordBytes * MaxRun)
      /\ packed' = packed \o Block(w) /\ w' = w + Taken(w)
      /\ UNCHANGED <<phase, input, cut, ipos, out>>
  BY DEF PackWord
<1>4. Words \in Nat  BY <1>2, WordsFacts
<1>5. w \in 0 .. (Words - 1) /\ Words > 0  BY <1>2, <1>3, <1>4
<1>6. /\ Len(packed) <= cap /\ cap >= 2 /\ ipos = 0 /\ out = <<>>
  BY <1>1, <1>3, <1>5 DEF BufferHolds, InPhase
<1>7. PICK S, q, u : u = w /\ Layout(S, q, u) /\ Received(q)
  BY <1>1 DEF LaidOut
<1>8. packed = q /\ ~cut
  BY <1>2, <1>3, <1>7 DEF Received
<1>9. Block(w) \in Seq(Nat)  BY <1>2, <1>5, BlockFacts
<1>10. /\ Len(Block(w)) \in Nat /\ Len(Block(w)) <= WordBytes + 2 + WordBytes * MaxRun
  BY <1>2, <1>5, BlockLength
<1>11. /\ packed' \in Seq(Nat) /\ Len(packed') = Len(packed) + Len(Block(w))
  BY <1>2, <1>3, <1>9, ConcatFacts
<1>12. Len(packed) \in Nat  BY <1>2
<1>13. cap' \in Nat /\ Len(packed') <= cap' /\ cap' >= 2
  BY <1>2, <1>3, <1>6, <1>10, <1>11, <1>12, PackRoom
<1>14. w + Taken(w) \in 0 .. Words
  BY <1>2, <1>4, <1>5, RestFacts
<1>15. Words' = Words /\ \A T, r, v : Layout(T, r, v)' <=> Layout(T, r, v)
  BY <1>3, InputKept
<1>16. TypeOK'
  <2>1. ipos' \in 0 .. Len(packed')  BY <1>3, <1>6, <1>11
  <2>2. w' \in 0 .. Words'  BY <1>3, <1>14, <1>15
  <2> QED BY <1>1, <1>3, <1>11, <1>13, <2>1, <2>2 DEF TypeOK
<1>17. BufferHolds' /\ InPhase'
  BY <1>3, <1>6, <1>13 DEF BufferHolds, InPhase
<1>18. LaidOut'
  <2>1. PICK T : Layout(T, q \o Block(u), u + Taken(u))
    BY <1>2, <1>5, <1>7, LayoutGrows
  <2>2. PICK r, v : r = packed' /\ v = w'  OBVIOUS
  <2>3. Layout(T, r, v)  BY <1>3, <1>7, <1>8, <2>1, <2>2
  <2>4. Layout(T, r, v)'  BY <1>15, <2>3
  <2>5. Received(r)'  BY <1>3, <1>8, <1>11, <2>2 DEF Received
  <2> QED BY <1>3, <2>2, <2>4, <2>5 DEF LaidOut
<1> QED BY <1>16, <1>17, <1>18 DEF PackedInv

LEMMA ArriveKeeps == ASSUME NEW n \in 0 .. Len(packed) PROVE PackedInv /\ Arrive(n) => PackedInv'
<1> SUFFICES ASSUME PackedInv, Arrive(n) PROVE PackedInv'  OBVIOUS
<1>1. /\ TypeOK /\ BufferHolds /\ InPhase /\ LaidOut  BY DEF PackedInv
<1>2. InputOK /\ w \in 0 .. Words /\ packed \in Seq(Nat) /\ Slack \in Nat
  BY <1>1, PackedAssumption DEF TypeOK, InputOK
<1>3. /\ phase = "pack" /\ w = Words /\ packed' = SubSeq(packed, 1, n)
      /\ cut' = (n < Len(packed)) /\ phase' = "unpack" /\ cap' = n * 4 + Slack
      /\ UNCHANGED <<input, w, ipos, out>>
  BY DEF Arrive
<1>4. ipos = 0 /\ out = <<>>  BY <1>1, <1>3 DEF InPhase
<1>5. n \in Nat /\ n <= Len(packed) /\ Len(packed) \in Nat  BY <1>2
<1>6. /\ packed' \in Seq(Nat) /\ Len(packed') = n
      /\ \A i \in 1 .. n : packed'[i] = packed[i]
  BY ONLY <1>2, <1>3, <1>5
<1>7. cap' \in Nat  BY <1>2, <1>3, <1>5
<1>8. Words' = Words /\ \A T, r, v : Layout(T, r, v)' <=> Layout(T, r, v)
  BY <1>3, InputKept
<1>9. TypeOK'
  <2>1. ipos' \in 0 .. Len(packed')  BY <1>3, <1>4, <1>5, <1>6
  <2>2. w' \in 0 .. Words'  BY <1>2, <1>3, <1>8
  <2>3. cut' \in BOOLEAN  BY <1>3
  <2> QED BY <1>1, <1>3, <1>6, <1>7, <2>1, <2>2, <2>3 DEF TypeOK
<1>10. BufferHolds' /\ InPhase'
  <2>1. Len(out') = 0  BY <1>3, <1>4
  <2> QED BY <1>3, <1>7, <1>8, <2>1 DEF BufferHolds, InPhase
<1>11. LaidOut'
  <2>1. PICK S, q, u : u = w /\ Layout(S, q, u) /\ Received(q)
    BY <1>1 DEF LaidOut
  <2>2. packed = q  BY <1>3, <2>1 DEF Received
  <2>3. Layout(S, q, u)'  BY <1>8, <2>1
  <2>4. Received(q)'  BY <1>3, <1>5, <1>6, <2>2 DEF Received
  <2>5. 0 \in DOMAIN S /\ S[0] = 0  BY <2>1 DEF Layout
  <2>6. SubSeq(input, 1, 0 * WordBytes) = <<>>
    <3>1. 0 * WordBytes = 0  BY PackedAssumption
    <3> QED BY <3>1, <1>2 DEF InputOK
  <2>7. ReadTo(S)'  BY <1>3, <1>4, <2>5, <2>6 DEF ReadTo
  <2> QED BY <1>3, <2>1, <2>3, <2>4, <2>7 DEF LaidOut
<1> QED BY <1>9, <1>10, <1>11 DEF PackedInv

LEMMA UnpackWordKeeps == PackedInv /\ UnpackWord => PackedInv'
<1> SUFFICES ASSUME PackedInv, UnpackWord PROVE PackedInv'  OBVIOUS
<1>1. /\ TypeOK /\ BufferHolds /\ InPhase /\ LaidOut  BY DEF PackedInv
<1>2. /\ InputOK /\ w \in 0 .. Words /\ packed \in Seq(Nat) /\ cap \in Nat
      /\ ipos \in 0 .. Len(packed)
  BY <1>1 DEF TypeOK, InputOK
<1>3. phase = "unpack" /\ ipos < Len(packed) /\ UNCHANGED <<input, w, packed, cut>>
  BY DEF UnpackWord
<1>4. w = Words /\ Len(out) <= cap  BY <1>1, <1>3 DEF InPhase, BufferHolds
<1>5. PICK S, q, u : u = w /\ Layout(S, q, u) /\ Received(q) /\ ReadTo(S)
  BY <1>1, <1>3 DEF LaidOut
<1>6. PICK n \in DOMAIN S : S[n] = ipos /\ out = SubSeq(input, 1, n * WordBytes)
  BY <1>5 DEF ReadTo
<1>7. /\ q \in Seq(Nat) /\ DOMAIN S \subseteq 0 .. u /\ S[u] = Len(q)
      /\ n # u => BlockAt(S, q, n)
      /\ \A m \in DOMAIN S : S[m] <= Len(q)
  BY <1>5 DEF Layout
<1>8. /\ Len(packed) <= Len(q) /\ \A i \in 1 .. Len(packed) : packed[i] = q[i]
      /\ cut <=> Len(packed) < Len(q)
  BY <1>5 DEF Received
<1>9. Len(packed) \in Nat /\ Len(q) \in Nat /\ ipos \in Nat /\ Words \in Nat
  BY <1>2, <1>7, WordsFacts
<1>10. n # u  BY <1>3, <1>6, <1>7, <1>8, <1>9
<1>11. /\ n < Words /\ n + Taken(n) \in DOMAIN S
       /\ S[n + Taken(n)] = ipos + Len(Block(n))
       /\ \A j \in 1 .. Len(Block(n)) : q[ipos + j] = Block(n)[j]
  BY <1>6, <1>7, <1>10 DEF BlockAt
<1>12. n \in 0 .. (Words - 1)
  <2>1. n \in 0 .. u  BY <1>7
  <2> QED BY <1>4, <1>5, <1>9, <1>11, <2>1
<1>13. BlockHere(ipos, n)
  <2>1. ASSUME NEW j \in 1 .. Len(Block(n)), ipos + j <= Len(packed)
        PROVE  packed[ipos + j] = Block(n)[j]
    <3>1. ipos + j \in 1 .. Len(packed)
      BY ONLY <2>1, <1>9, j \in 1 .. Len(Block(n))
    <3> QED BY <1>8, <1>11, <3>1
  <2> QED BY <2>1 DEF BlockHere
<1>14. ipos + Len(Block(n)) <= Len(q)  BY <1>7, <1>11
<1>15. \/ /\ phase' = "error" /\ UNCHANGED <<ipos, out, cap>>
          /\ Len(packed) < ipos + Len(Block(n))
       \/ /\ phase' = "unpack"
          /\ ipos' = ipos + Len(Block(n)) /\ ipos' <= Len(packed)
          /\ out' = SubSeq(input, 1, (n + Taken(n)) * WordBytes)
          /\ out' \in Seq(Nat) /\ cap' \in Nat /\ Len(out') <= cap'
  BY <1>2, <1>3, <1>4, <1>6, <1>9, <1>12, <1>13, BlockUnpacked
<1>16. Words' = Words /\ \A T, r, v : Layout(T, r, v)' <=> Layout(T, r, v)
  BY <1>3, InputKept
<1>17. Len(Block(n)) \in Nat  BY <1>2, <1>12, BlockLength
<1>18. Layout(S, q, u)'  BY <1>5, <1>16
<1>19. u = w'  BY <1>3, <1>5
<1>20. CASE /\ phase' = "error" /\ UNCHANGED <<ipos, out, cap>>
            /\ Len(packed) < ipos + Len(Block(n))
  <2>1. cut  BY <1>8, <1>9, <1>14, <1>17, <1>20
  <2>2. TypeOK'  BY <1>1, <1>3, <1>16, <1>20 DEF TypeOK
  <2>3. BufferHolds' /\ InPhase'
    BY <1>3, <1>4, <1>16, <1>20, <2>1 DEF BufferHolds, InPhase
  <2>4. Received(q)'  BY <1>3, <1>8, <1>20 DEF Received
  <2>5. ReadTo(S)'  BY <1>3, <1>6, <1>20 DEF ReadTo
  <2>6. LaidOut'  BY <1>18, <1>19, <2>4, <2>5 DEF LaidOut
  <2> QED BY <2>2, <2>3, <2>6 DEF PackedInv
<1>21. CASE /\ phase' = "unpack"
            /\ ipos' = ipos + Len(Block(n)) /\ ipos' <= Len(packed)
            /\ out' = SubSeq(input, 1, (n + Taken(n)) * WordBytes)
            /\ out' \in Seq(Nat) /\ cap' \in Nat /\ Len(out') <= cap'
  <2>1. ipos' \in 0 .. Len(packed')  BY <1>3, <1>9, <1>17, <1>21
  <2>2. TypeOK'
    <3>1. w' \in 0 .. Words' /\ packed' \in Seq(Nat) /\ cut' \in BOOLEAN
          /\ input' \in Seq(Nat) /\ Len(input') % WordBytes = 0
      BY <1>1, <1>3, <1>16 DEF TypeOK
    <3> QED BY <1>21, <2>1, <3>1 DEF TypeOK
  <2>3. BufferHolds' /\ InPhase'
    BY <1>3, <1>4, <1>16, <1>21 DEF BufferHolds, InPhase
  <2>4. Received(q)'  BY <1>3, <1>8, <1>21 DEF Received
  <2>5. ReadTo(S)'
    <3>1. PICK m : m = n + Taken(n)  OBVIOUS
    <3>2. /\ m \in DOMAIN S /\ S[m] = ipos'
          /\ out' = SubSeq(input', 1, m * WordBytes)
      BY <1>3, <1>11, <1>21, <3>1
    <3> QED BY <3>2 DEF ReadTo
  <2>6. LaidOut'  BY <1>18, <1>19, <2>4, <2>5 DEF LaidOut
  <2> QED BY <2>2, <2>3, <2>6 DEF PackedInv
<1> QED BY <1>15, <1>20, <1>21

LEMMA UnpackDoneKeeps == PackedInv /\ UnpackDone => PackedInv'
<1> SUFFICES ASSUME PackedInv, UnpackDone PROVE PackedInv'  OBVIOUS
<1>1. /\ TypeOK /\ BufferHolds /\ InPhase /\ LaidOut  BY DEF PackedInv
<1>2. InputOK  BY <1>1 DEF TypeOK, InputOK
<1>3. /\ phase = "unpack" /\ ipos = Len(packed)
      /\ phase' = IF Len(out) % WordBytes # 0 THEN "error" ELSE "done"
      /\ UNCHANGED <<input, w, packed, cut, ipos, out, cap>>
  BY DEF UnpackDone
<1>4. w = Words /\ Len(out) <= cap  BY <1>1, <1>3 DEF InPhase, BufferHolds
<1>5. PICK S, q, u : u = w /\ Layout(S, q, u) /\ Received(q) /\ ReadTo(S)
  BY <1>1, <1>3 DEF LaidOut
<1>6. PICK n \in DOMAIN S : S[n] = ipos /\ out = SubSeq(input, 1, n * WordBytes)
  BY <1>5 DEF ReadTo
<1>7. n \in 0 .. Words  BY <1>4, <1>5 DEF Layout
<1>8. Len(out) = n * WordBytes  BY <1>2, <1>6, <1>7, PrefixLength
<1>9. n \in Nat  BY <1>2, <1>7, WordsFacts
<1>10. phase' = "done"  BY <1>3, <1>8, <1>9, Products
<1>11. Words' = Words /\ \A T, r, v : Layout(T, r, v)' <=> Layout(T, r, v)
  BY <1>3, InputKept
<1>12. TypeOK'  BY <1>1, <1>3, <1>10, <1>11 DEF TypeOK
<1>13. BufferHolds' /\ InPhase'
  BY <1>3, <1>4, <1>10, <1>11 DEF BufferHolds, InPhase
<1>14. LaidOut'
  <2>1. Received(q)'  BY <1>3, <1>5, <1>10 DEF Received
  <2>2. ReadTo(S)'  BY <1>3, <1>5 DEF ReadTo
  <2>3. Layout(S, q, u)' /\ u = w'  BY <1>3, <1>5, <1>11
  <2> QED BY <2>1, <2>2, <2>3 DEF LaidOut
<1> QED BY <1>12, <1>13, <1>14 DEF PackedInv

LEMMA PackedStutters == PackedInv /\ UNCHANGED vars => PackedInv'
<1> SUFFICES ASSUME PackedInv, UNCHANGED vars PROVE PackedInv'  OBVIOUS
<1>1. /\ TypeOK /\ BufferHolds /\ InPhase /\ LaidOut  BY DEF PackedInv
<1>2. UNCHANGED <<phase, input, w, packed, cut, ipos, out, cap>>  BY DEF vars
<1>3. Words' = Words /\ \A T, r, v : Layout(T, r, v)' <=> Layout(T, r, v)
  BY <1>2, InputKept
<1>4. TypeOK' /\ BufferHolds' /\ InPhase'
  BY <1>1, <1>2, <1>3 DEF TypeOK, BufferHolds, InPhase
<1>5. LaidOut'
  <2>1. PICK S, q, u : u = w /\ Layout(S, q, u) /\ Received(q) /\ (phase # "pack" => ReadTo(S))
    BY <1>1 DEF LaidOut
  <2>2. Received(q)' /\ (phase' # "pack" => ReadTo(S)')
    BY <1>2, <2>1 DEF Received, ReadTo
  <2>3. Layout(S, q, u)' /\ u = w'  BY <1>2, <1>3, <2>1
  <2> QED BY <2>2, <2>3 DEF LaidOut
<1> QED BY <1>4, <1>5 DEF PackedInv

LEMMA PackedStep == PackedInv /\ [Next]_vars => PackedInv'
<1>1. PackedInv /\ Next => PackedInv'
  BY PackWordKeeps, ArriveKeeps, UnpackWordKeeps, UnpackDoneKeeps DEF Next
<1> QED BY <1>1, PackedStutters

-----------------------------------------------------------------------------
(* The theorems *)

LEMMA PackedAlways == Spec => []PackedInv
BY PackedInit, PackedStep, PTL DEF Spec

\* The loops of capnp_pack and capnp_unpack stay inside the message and inside
\* the packed bytes, and write bytes.
THEOREM PackedTypeCorrect == Spec => []TypeOK
<1>1. PackedInv => TypeOK  BY DEF PackedInv
<1> QED BY <1>1, PackedAlways, PTL

\* The growth test in front of each iteration (opos + 10 + 8 * 255 > cap,
\* opos + 8 + 255 * 8 > cap) and the one in front of a run keep every write
\* inside the buffer.
THEOREM BuffersHold == Spec => []BufferHolds
<1>1. PackedInv => BufferHolds  BY DEF PackedInv
<1> QED BY <1>1, PackedAlways, PTL

\* What was unpacked is always made of the first words of the message.
LEMMA PrefixUnpacked == PackedInv => CutYieldsPrefix
<1> SUFFICES ASSUME PackedInv, phase = "done" PROVE IsPrefix(out, input)
  BY DEF CutYieldsPrefix
<1>1. InputOK /\ w = Words  BY DEF PackedInv, TypeOK, InputOK, InPhase
<1>2. PICK S, q, u : u = w /\ Layout(S, q, u) /\ ReadTo(S)
  BY DEF PackedInv, LaidOut
<1>3. PICK n \in DOMAIN S : out = SubSeq(input, 1, n * WordBytes)
  BY <1>2 DEF ReadTo
<1>4. n \in 0 .. Words  BY <1>1, <1>2 DEF Layout
<1> DEFINE a == n * WordBytes
<1>5. a \in Nat /\ Len(out) = a /\ out \in Seq(Nat)  BY <1>1, <1>3, <1>4, PrefixLength
<1>6. a <= Len(input)
  <2>1. Words \in Nat /\ Words * WordBytes = Len(input) /\ n \in Nat /\ n <= Words
    BY <1>1, <1>4, WordsFacts
  <2> QED BY <2>1, Products
<1>7. SubSeq(out, 1, Len(out)) = out  BY <1>5
<1>8. out = SubSeq(input, 1, Len(out))  BY <1>3, <1>5
<1> QED BY <1>5, <1>6, <1>7, <1>8 DEF IsPrefix

\* A packed message cut anywhere is refused or yields its first words: no tag,
\* count or run is taken for another.
THEOREM CutPackedYieldsPrefix == Spec => []CutYieldsPrefix
BY PrefixUnpacked, PackedAlways, PTL

\* At the end of packed bytes that arrived whole, all words were unpacked.
LEMMA AllUnpacked == PackedInv => UnpackInvertsPack
<1> SUFFICES ASSUME PackedInv, ~cut
             PROVE  phase # "error" /\ (phase = "done" => out = input)
  BY DEF UnpackInvertsPack
<1>1. InputOK /\ packed \in Seq(Nat)  BY DEF PackedInv, TypeOK, InputOK
<1>2. phase # "error"  BY DEF PackedInv, InPhase
<1>3. ASSUME phase = "done" PROVE out = input
  <2>1. w = Words /\ ipos = Len(packed)  BY <1>3 DEF PackedInv, InPhase
  <2>2. PICK S, q, u : u = w /\ Layout(S, q, u) /\ Received(q) /\ ReadTo(S)
    BY <1>3 DEF PackedInv, LaidOut
  <2>3. PICK n \in DOMAIN S : S[n] = ipos /\ out = SubSeq(input, 1, n * WordBytes)
    BY <2>2 DEF ReadTo
  <2>4. /\ q \in Seq(Nat) /\ n \in 0 .. u
        /\ n # u => BlockAt(S, q, n)
        /\ \A m \in DOMAIN S : S[m] <= Len(q)
    BY <2>2 DEF Layout
  <2>5. Len(packed) <= Len(q) /\ ~(Len(packed) < Len(q))  BY <2>2 DEF Received
  <2>6. Len(packed) = Len(q) /\ Len(q) \in Nat  BY <1>1, <2>4, <2>5
  <2>7. n = u
    <3> SUFFICES ASSUME n # u PROVE FALSE  OBVIOUS
    <3>1. /\ n < Words /\ n + Taken(n) \in DOMAIN S
          /\ S[n + Taken(n)] = S[n] + Len(Block(n))
      BY <2>4 DEF BlockAt
    <3>2. n \in 0 .. (Words - 1)  BY <1>1, <2>1, <2>2, <2>4, <3>1, WordsFacts
    <3>3. Len(Block(n)) \in Nat /\ Len(Block(n)) >= 1  BY <1>1, <3>2, BlockLength
    <3>4. Len(q) + Len(Block(n)) <= Len(q)  BY <2>1, <2>3, <2>4, <2>6, <3>1
    <3> QED BY ONLY <2>6, <3>3, <3>4
  <2>8. out = SubSeq(input, 1, Words * WordBytes)  BY <2>1, <2>2, <2>3, <2>7
  <2>9. Words * WordBytes = Len(input) /\ input \in Seq(Nat)
    BY <1>1, WordsFacts DEF InputOK
  <2> QED BY <2>8, <2>9
<1> QED BY <1>2, <1>3

\* What capnp_unpack makes of what capnp_pack wrote is the message, byte for
\* byte, whatever the words and wherever a run is split at its limit.
THEOREM UnpackInverts == Spec => []UnpackInvertsPack
BY AllUnpacked, PackedAlways, PTL
=============================================================================
