---------------------------- MODULE BuilderProofs ----------------------------
(***************************************************************************)
(* What the arena of a message builder keeps, for every size of segment,   *)
(* every limit and everything an application builds.                       *)
(*                                                                         *)
(* The argument: each operation is a composition of helpers that keep the  *)
(* segments good (GoodSegs) and let them only grow (Grows); the words it   *)
(* hands out are new ones of the arena, so no other object has them.       *)
(***************************************************************************)
EXTENDS Builder, SequenceTheorems, WellFoundedInduction, TLAPS

-----------------------------------------------------------------------------
(* Numbers *)

\* A set of naturals that is not empty has a least element.
LEMMA Least ==
  ASSUME NEW T, T \subseteq Nat, T # {}
  PROVE  \E n \in T : \A m \in T : n <= m
<1>1. \A m, n \in Nat : <<m, n>> \in OpToRel(<, Nat) <=> m < n
  BY DEF OpToRel
<1>2. SUFFICES ASSUME NEW R, IsWellFoundedOn(R, Nat),
                      \A m, n \in Nat : <<m, n>> \in R <=> m < n
               PROVE  \E n \in T : \A m \in T : n <= m
  BY <1>1, NatLessThanWellFounded, Zenon
<1>3. \E n \in T : \A m \in T : ~(<<m, n>> \in R)
  BY ONLY IsWellFoundedOn(R, Nat), T \subseteq Nat, T # {}, WFMin, Zenon
<1>4. PICK n \in T : \A m \in T : ~(<<m, n>> \in R)
  BY <1>3, Zenon
<1>5. ASSUME NEW m \in T PROVE n <= m
  <2>1. ~(m < n)  BY <1>2, <1>4, Zenon
  <2>2. m \in Nat /\ n \in Nat  BY Zenon
  <2> QED BY ONLY <2>1, <2>2
<1> QED BY <1>5

\* Induction on naturals, as a fact about sets of them.
LEMMA Climb ==
  ASSUME NEW S, 0 \in S, \A n \in Nat : n \in S => n + 1 \in S
  PROVE  Nat \subseteq S
<1> SUFFICES ASSUME ~(Nat \subseteq S) PROVE FALSE  OBVIOUS
<1> DEFINE T == Nat \ S
<1>1. PICK n \in T : \A m \in T : n <= m
  BY Least
<1>2. n # 0 /\ n \in Nat  OBVIOUS
<1>3. n - 1 \in Nat /\ n - 1 \notin T  BY <1>1, <1>2
<1> QED BY <1>2, <1>3, <1>1

\* Products of naturals are natural and grow with their factors.
LEMMA Products ==
  ASSUME NEW a \in Nat, NEW b \in Nat, NEW s \in Nat
  PROVE  /\ a * s \in Nat
         /\ a < b => a * s + s <= b * s
<1>1. a * s \in Nat  OBVIOUS
<1>2. ASSUME a < b PROVE a * s + s <= b * s
  <2>1. PICK k \in Nat : b = a + 1 + k
    <3>1. b - a - 1 \in Nat /\ b = a + 1 + (b - a - 1)  BY <1>2
    <3> QED BY <3>1
  <2>2. b * s = a * s + s + k * s  BY <2>1
  <2>3. k * s \in Nat  OBVIOUS
  <2>4. b * s \in Nat  OBVIOUS
  <2> QED BY ONLY <2>2, <2>3, <1>1, s \in Nat
<1> QED BY <1>1, <1>2

\* How many words the elements of a list take.
LEMMA ListWordsNat ==
  ASSUME NEW esize \in DOMAIN Bits, NEW count \in Nat
  PROVE  ListWords(esize, count) \in Nat
<1>1. ByteBits \in Nat \ {0}  BY WordsAssumption
<1>2. WordBits \in Nat /\ WordBits > 0  BY <1>1 DEF WordBits, WordBytes
<1>3. Bits[esize] \in Nat  BY <1>1, <1>2 DEF Bits
<1>4. Bits[esize] * count \in Nat  BY <1>3
<1>5. Bits[esize] * count + WordBits - 1 \in Nat  BY <1>2, <1>4
<1>6. \A x \in Nat : x \div WordBits \in Nat  BY <1>2
<1> QED BY <1>5, <1>6 DEF ListWords

-----------------------------------------------------------------------------
(* Segments *)

Segment == [words : Seq(WireWord), cap : Nat \ {0}]

\* A segment that keeps to what was allocated for it, and to some limit.
Within(g) == Len(g.words) <= g.cap /\ Allowed(g.cap)

GoodSegs(sg) ==
  /\ sg \in Seq(Segment)
  /\ Len(sg) > 0
  /\ \A i \in 1 .. Len(sg) : Within(sg[i])

\* The words of sg are words of h too.
Grows(sg, h) ==
  /\ Len(sg) <= Len(h)
  /\ \A i \in 1 .. Len(sg) : Len(sg[i].words) <= Len(h[i].words)

\* The limit of a segment is one.
LimitOK == LimWords \in Nat /\ LimWords > 0 /\ Allowed(LimWords)

\* Less room than is allowed is allowed.
LEMMA AllowedBelow ==
  ASSUME NEW c \in Nat, NEW d \in Nat, c <= d, Allowed(d)
  PROVE  Allowed(c)
<1>1. Ceiling \in Nat /\ Limits \subseteq Nat  BY BuilderAssumption
<1>2. CASE d <= Ceiling  BY <1>1, <1>2 DEF Allowed
<1>3. ASSUME NEW l \in Limits, d <= l PROVE Allowed(c)
  <2>1. c <= l  BY <1>1, <1>3
  <2> QED BY <2>1 DEF Allowed
<1> QED BY <1>2, <1>3 DEF Allowed

Places == [seg : Nat, word : Nat]

\* What a word of good segments is.
LEMMA SegAt ==
  ASSUME NEW sg, GoodSegs(sg), NEW i \in 1 .. Len(sg)
  PROVE  /\ sg[i] \in Segment
         /\ sg[i].words \in Seq(WireWord)
         /\ Len(sg[i].words) \in Nat
         /\ sg[i].cap \in Nat \ {0}
         /\ Within(sg[i])
<1>1. sg[i] \in Segment  BY ElementOfSeq DEF GoodSegs
<1>2. sg[i].words \in Seq(WireWord) /\ sg[i].cap \in Nat \ {0}  BY <1>1 DEF Segment
<1>3. Len(sg[i].words) \in Nat  BY <1>2, LenProperties
<1> QED BY <1>1, <1>2, <1>3 DEF GoodSegs

\* How many segments there are.
LEMMA SegCount ==
  ASSUME NEW sg, GoodSegs(sg)
  PROVE  Len(sg) \in Nat /\ Len(sg) > 0 /\ DOMAIN sg = 1 .. Len(sg)
BY LenProperties DEF GoodSegs

\* Growing is reflexive and transitive.
LEMMA GrowsSelf ==
  ASSUME NEW sg, GoodSegs(sg)
  PROVE  Grows(sg, sg)
BY SegAt, SegCount DEF Grows

LEMMA GrowsTrans ==
  ASSUME NEW f, NEW g, NEW h, GoodSegs(f), GoodSegs(g), GoodSegs(h), Grows(f, g), Grows(g, h)
  PROVE  Grows(f, h)
<1>1. /\ Len(f) \in Nat /\ Len(g) \in Nat /\ Len(h) \in Nat
  BY SegCount
<1>2. ASSUME NEW i \in 1 .. Len(f) PROVE Len(f[i].words) <= Len(h[i].words)
  <2>1. i \in 1 .. Len(g) /\ i \in 1 .. Len(h)  BY <1>1 DEF Grows
  <2>2. /\ Len(f[i].words) \in Nat /\ Len(g[i].words) \in Nat /\ Len(h[i].words) \in Nat
    BY <2>1, SegAt
  <2> QED BY <2>1, <2>2 DEF Grows
<1> QED BY <1>1, <1>2 DEF Grows

\* A word of the arena stays one.
LEMMA InArenaGrows ==
  ASSUME NEW sg, NEW h, GoodSegs(sg), GoodSegs(h), Grows(sg, h), NEW x, InArena(sg, x)
  PROVE  InArena(h, x)
<1>1. x \in Places /\ x.seg < Len(sg) /\ x.word < Len(sg[x.seg + 1].words)
  BY DEF InArena, Used, Places
<1>2. x.seg \in Nat /\ x.word \in Nat  BY <1>1 DEF Places
<1>3. Len(sg) \in Nat /\ Len(h) \in Nat /\ Len(sg) <= Len(h)  BY SegCount DEF Grows
<1>4. x.seg + 1 \in 1 .. Len(sg) /\ x.seg + 1 \in 1 .. Len(h) /\ x.seg < Len(h)  BY <1>1, <1>2, <1>3
<1>5. /\ Len(sg[x.seg + 1].words) \in Nat /\ Len(h[x.seg + 1].words) \in Nat
      /\ Len(sg[x.seg + 1].words) <= Len(h[x.seg + 1].words)
  BY <1>4, SegAt DEF Grows
<1>6. x.word < Len(h[x.seg + 1].words)  BY <1>1, <1>2, <1>5, SMTT(30)
<1> QED BY <1>1, <1>4, <1>6 DEF InArena, Used, Places

\* One segment replaced by a longer one.
LEMMA ReplaceSeg ==
  ASSUME NEW sg, GoodSegs(sg), NEW i \in 1 .. Len(sg), NEW g \in Segment, Within(g),
         Len(sg[i].words) <= Len(g.words)
  PROVE  /\ GoodSegs([sg EXCEPT ![i] = g])
         /\ Grows(sg, [sg EXCEPT ![i] = g])
         /\ Len([sg EXCEPT ![i] = g]) = Len(sg)
         /\ [sg EXCEPT ![i] = g][i] = g
<1> DEFINE h == [sg EXCEPT ![i] = g]
<1>1. /\ h \in Seq(Segment) /\ Len(h) = Len(sg)
      /\ \A j \in 1 .. Len(sg) : h[j] = IF j = i THEN g ELSE sg[j]
  BY ExceptSeq DEF GoodSegs
<1> HIDE DEF h
<1>2. Len(sg) \in Nat /\ Len(sg) > 0  BY SegCount
<1>3. \A j \in 1 .. Len(sg) : Within(h[j])  BY <1>1, SegAt
<1>4. \A j \in 1 .. Len(sg) : Len(sg[j].words) <= Len(h[j].words)  BY <1>1, SegAt
<1>5. GoodSegs(h)  BY <1>1, <1>2, <1>3 DEF GoodSegs
<1>6. Grows(sg, h)  BY <1>1, <1>2, <1>4 DEF Grows
<1> QED BY <1>1, <1>5, <1>6 DEF h

\* One segment more.
LEMMA AppendSeg ==
  ASSUME NEW sg, GoodSegs(sg), NEW g \in Segment, Within(g)
  PROVE  /\ GoodSegs(Append(sg, g))
         /\ Grows(sg, Append(sg, g))
         /\ Len(Append(sg, g)) = Len(sg) + 1
         /\ Append(sg, g)[Len(sg) + 1] = g
<1> DEFINE h == Append(sg, g)
<1>1. /\ h \in Seq(Segment) /\ Len(h) = Len(sg) + 1
      /\ \A j \in 1 .. Len(sg) : h[j] = sg[j]
      /\ h[Len(sg) + 1] = g
  BY AppendProperties DEF GoodSegs
<1> HIDE DEF h
<1>2. Len(sg) \in Nat /\ Len(sg) > 0  BY SegCount
<1>3. ASSUME NEW j \in 1 .. Len(h) PROVE Within(h[j])
  <2>1. j \in 1 .. Len(sg) \/ j = Len(sg) + 1  BY <1>1, <1>2
  <2> QED BY <2>1, <1>1, SegAt
<1>4. \A j \in 1 .. Len(sg) : Len(sg[j].words) <= Len(h[j].words)  BY <1>1, SegAt
<1>5. GoodSegs(h)  BY <1>1, <1>2, <1>3 DEF GoodSegs
<1>6. Grows(sg, h)  BY <1>1, <1>2, <1>4 DEF Grows
<1> QED BY <1>1, <1>5, <1>6 DEF h

-----------------------------------------------------------------------------
(* Words *)

\* The words the builder writes.
LEMMA WordsTyped ==
  /\ Zero \in WireWord
  /\ \A off \in Int, d, p \in Nat :
       /\ MakeStruct(off, d, p) \in WireWord
       /\ \A o \in Int : [MakeStruct(off, d, p) EXCEPT !.off = o] \in WireWord
  /\ \A off \in Int, e \in DOMAIN Bits \cup {"composite"}, n \in Nat :
       \A o \in Int : [MakeList(off, e, n) EXCEPT !.off = o] \in WireWord
  /\ \A two \in BOOLEAN, off \in Nat, seg \in Nat : MakeFar(two, off, seg) \in WireWord
  /\ \A n \in Nat : MakeCap(n) \in WireWord
  /\ \A v \in Payloads : Data(v) \in WireWord
<1>1. \A off \in Int, d, p \in Nat : MakeStruct(off, d, p) \in WireWord
  BY DEF MakeStruct, WireWord
<1>2. Zero \in WireWord  BY <1>1 DEF Zero
<1>3. \A off \in Int, d, p \in Nat, o \in Int :
        [MakeStruct(off, d, p) EXCEPT !.off = o] = MakeStruct(o, d, p)
  BY DEF MakeStruct

<1>5. \A e \in DOMAIN Bits \cup {"composite"}, n \in Nat, o \in Int : MakeList(o, e, n) \in WireWord
  BY DEF MakeList, WireWord
<1>6. \A two \in BOOLEAN, off \in Nat, seg \in Nat : MakeFar(two, off, seg) \in WireWord
  BY DEF MakeFar, WireWord
<1>7. \A n \in Nat : MakeCap(n) \in WireWord  BY DEF MakeCap, WireWord
<1>8. \A v \in Payloads : Data(v) \in WireWord  BY DEF WireWord
<1>9. ASSUME NEW off \in Int, NEW d \in Nat, NEW p \in Nat, NEW o \in Int
      PROVE  [MakeStruct(off, d, p) EXCEPT !.off = o] \in WireWord
  <2>1. [MakeStruct(off, d, p) EXCEPT !.off = o] = MakeStruct(o, d, p)  BY <1>3
  <2>2. MakeStruct(o, d, p) \in WireWord  BY <1>1
  <2> QED BY <2>1, <2>2
<1>10. ASSUME NEW off \in Int, NEW e \in DOMAIN Bits \cup {"composite"}, NEW n \in Nat, NEW o \in Int
       PROVE  [MakeList(off, e, n) EXCEPT !.off = o] \in WireWord
  <2>1. [MakeList(off, e, n) EXCEPT !.off = o] = MakeList(o, e, n)  BY DEF MakeList
  <2>2. MakeList(o, e, n) \in WireWord  BY <1>5
  <2> QED BY <2>1, <2>2
<1> QED BY ONLY <1>1, <1>2, <1>6, <1>7, <1>8, <1>9, <1>10, Zenon

\* n times the same word.
LEMMA CopiesTyped ==
  ASSUME NEW n \in Nat, NEW w \in WireWord
  PROVE  Copies(n, w) \in Seq(WireWord) /\ Len(Copies(n, w)) = n
<1> DEFINE s == [i \in 1 .. n |-> w]
<1>1. \A i \in 1 .. n : s[i] \in WireWord  OBVIOUS
<1> HIDE DEF s
<1>2. SubSeq(s, 1, n) \in Seq(WireWord) /\ Len(SubSeq(s, 1, n)) = IF 1 <= n THEN n - 1 + 1 ELSE 0
  BY <1>1, SubSeqProperties
<1>3. Copies(n, w) = SubSeq(s, 1, n)  BY DEF Copies, s
<1> QED BY <1>2, <1>3

LEMMA ZerosTyped ==
  ASSUME NEW n \in Nat
  PROVE  Zeros(n) \in Seq(WireWord) /\ Len(Zeros(n)) = n
BY CopiesTyped, WordsTyped DEF Zeros

-----------------------------------------------------------------------------
(* The arena *)

\* The capacities seg_ensure tries.
Doubles(f, cap, n) == f = [k \in 0 .. n |-> IF k = 0 THEN cap ELSE 2 * f[k - 1]]

\* There are such.
LEMMA DoublesExist ==
  ASSUME NEW cap, NEW n \in Nat
  PROVE  \E f : Doubles(f, cap, n)
<1> DEFINE S == {k \in Nat : \E f : Doubles(f, cap, k)}
<1>1. 0 \in S
  <2> DEFINE f == [i \in 0 .. 0 |-> cap]
  <2>1. Doubles(f, cap, 0)  BY DEF Doubles
  <2> QED BY <2>1
<1>2. ASSUME NEW k \in Nat, k \in S PROVE k + 1 \in S
  <2>1. PICK f : Doubles(f, cap, k)  BY <1>2
  <2> DEFINE h == [i \in 0 .. (k + 1) |-> IF i <= k THEN f[i] ELSE 2 * f[k]]
  <2>2. DOMAIN f = 0 .. k /\ \A i \in 0 .. k : f[i] = IF i = 0 THEN cap ELSE 2 * f[i - 1]
    BY <2>1, Zenon DEF Doubles
  <2>3. \A i \in 0 .. (k + 1) : h[i] = IF i = 0 THEN cap ELSE 2 * h[i - 1]
    BY <2>2
  <2>4. h = [i \in 0 .. (k + 1) |-> h[i]]  OBVIOUS
  <2> HIDE DEF h
  <2>5. Doubles(h, cap, k + 1)  BY <2>3, <2>4, Zenon DEF Doubles
  <2> QED BY <2>5
<1> QED BY <1>1, <1>2, Climb

\* Each is larger than its number.
LEMMA DoublesGrow ==
  ASSUME NEW cap \in Nat \ {0}, NEW n \in Nat, NEW f, Doubles(f, cap, n)
  PROVE  \A k \in 0 .. n : f[k] \in Nat /\ f[k] > k
<1> DEFINE S == {k \in Nat : k <= n => f[k] \in Nat /\ f[k] > k}
<1>0. \A k \in 0 .. n : f[k] = IF k = 0 THEN cap ELSE 2 * f[k - 1]
  BY Zenon DEF Doubles
<1>1. 0 \in S  BY <1>0
<1>2. ASSUME NEW k \in Nat, k \in S PROVE k + 1 \in S
  <2>1. SUFFICES ASSUME k + 1 <= n PROVE f[k + 1] \in Nat /\ f[k + 1] > k + 1  BY <1>2
  <2>2. f[k] \in Nat /\ f[k] > k  BY <2>1, <1>2
  <2>3. f[k + 1] = 2 * f[(k + 1) - 1] /\ (k + 1) - 1 = k  BY <2>1, <1>0
  <2> QED BY <2>2, <2>3
<1>3. Nat \subseteq S
  <2> HIDE DEF S
  <2> QED BY <1>1, <1>2, Climb
<1> QED BY <1>3

\* seg_ensure finds a capacity for what fits, and keeps to the limit.
LEMMA GrownHolds ==
  ASSUME LimitOK, NEW cap \in Nat \ {0}, NEW need \in Nat, Allowed(cap),
         need <= cap \/ need <= LimWords
  PROVE  /\ Grown(cap, need) \in Nat \ {0}
         /\ need <= Grown(cap, need)
         /\ Allowed(Grown(cap, need))
<1>1. CASE need <= cap  BY <1>1 DEF Grown
<1>2. CASE ~(need <= cap)
  <2> DEFINE f == CHOOSE g : g = [k \in 0 .. need |-> IF k = 0 THEN cap ELSE 2 * g[k - 1]]
             T == {c \in {f[k] : k \in 1 .. need} : c >= need}
  <2>b. \E g : Doubles(g, cap, need)  BY DoublesExist
  <2>c. \E g : g = [k \in 0 .. need |-> IF k = 0 THEN cap ELSE 2 * g[k - 1]]
    BY <2>b, Zenon DEF Doubles
  <2>d. f = [k \in 0 .. need |-> IF k = 0 THEN cap ELSE 2 * f[k - 1]]
    BY ONLY <2>c, Zenon
  <2>1. Doubles(f, cap, need)  BY ONLY <2>d, Zenon DEF Doubles
  <2>a. Grown(cap, need) = IF need <= cap THEN cap ELSE MinOf(Min(T), LimWords)
    BY Zenon DEF Grown
  <2>2. Grown(cap, need) = MinOf(Min(T), LimWords)  BY ONLY <2>a, <1>2, Zenon
  <2> HIDE DEF f
  <2>3. \A k \in 0 .. need : f[k] \in Nat /\ f[k] > k  BY <2>1, DoublesGrow
  <2>4. T \subseteq Nat  BY <2>3
  <2>5. f[need] \in T  BY <2>3, <1>2
  <2>6. \A c \in T : c >= need  OBVIOUS
  <2> HIDE DEF T
  <2>7. \E c \in T : \A d \in T : c <= d  BY <2>4, <2>5, Least
  <2>8. Min(T) \in T  BY <2>7, Zenon DEF Min
  <2>9. Min(T) \in Nat /\ Min(T) >= need  BY <2>4, <2>6, <2>8
  <2>10. /\ Grown(cap, need) \in Nat \ {0} /\ need <= Grown(cap, need)
         /\ Grown(cap, need) <= LimWords
    BY <2>2, <2>9, <1>2 DEF MinOf, LimitOK
  <2>11. Allowed(Grown(cap, need))  BY <2>10, AllowedBelow DEF LimitOK
  <2> QED BY <2>10, <2>11
<1> QED BY <1>1, <1>2

\* More words at the end of a segment.
LEMMA ExtendHolds ==
  ASSUME LimitOK, NEW sg, GoodSegs(sg), NEW s \in Nat, s < Len(sg), NEW n \in Nat,
         \/ Len(sg[s + 1].words) + n <= sg[s + 1].cap
         \/ Len(sg[s + 1].words) + n <= LimWords
  PROVE  /\ GoodSegs(Extend(sg, s, n))
         /\ Grows(sg, Extend(sg, s, n))
         /\ Len(Extend(sg, s, n)) = Len(sg)
         /\ Used(Extend(sg, s, n), s) = Used(sg, s) + n
<1> DEFINE old == sg[s + 1]
           g == [words |-> old.words \o Zeros(n), cap |-> Grown(old.cap, Len(old.words) + n)]
<1>1. s + 1 \in 1 .. Len(sg)  BY SegCount
<1>2. /\ old \in Segment /\ old.words \in Seq(WireWord) /\ Len(old.words) \in Nat
      /\ old.cap \in Nat \ {0} /\ Within(old)
  BY <1>1, SegAt
<1>3. Zeros(n) \in Seq(WireWord) /\ Len(Zeros(n)) = n  BY ZerosTyped
<1>4. /\ old.words \o Zeros(n) \in Seq(WireWord)
      /\ Len(old.words \o Zeros(n)) = Len(old.words) + n
  <2>1. /\ old.words \o Zeros(n) \in Seq(WireWord)
        /\ Len(old.words \o Zeros(n)) = Len(old.words) + Len(Zeros(n))
    BY ONLY <1>2, <1>3, ConcatProperties, Zenon
  <2> QED BY ONLY <2>1, <1>3, Zenon
<1>5. /\ Grown(old.cap, Len(old.words) + n) \in Nat \ {0}
      /\ Len(old.words) + n <= Grown(old.cap, Len(old.words) + n)
      /\ Allowed(Grown(old.cap, Len(old.words) + n))
  <2>1. Len(old.words) + n \in Nat  BY <1>2
  <2>2. Allowed(old.cap)  BY <1>2 DEF Within
  <2>3. Len(old.words) + n <= old.cap \/ Len(old.words) + n <= LimWords  OBVIOUS
  <2> HIDE DEF old
  <2> QED BY <1>2, <2>1, <2>2, <2>3, GrownHolds
<1>6. g \in Segment /\ Within(g) /\ Len(g.words) = Len(old.words) + n
  BY <1>4, <1>5 DEF Segment, Within
<1>7. Extend(sg, s, n) = [sg EXCEPT ![s + 1] = g]  BY <1>1 DEF Extend, GoodSegs
<1>8. Len(old.words) <= Len(g.words)  BY <1>2, <1>6
<1> HIDE DEF g
<1>9. /\ GoodSegs([sg EXCEPT ![s + 1] = g]) /\ Grows(sg, [sg EXCEPT ![s + 1] = g])
      /\ Len([sg EXCEPT ![s + 1] = g]) = Len(sg)
      /\ [sg EXCEPT ![s + 1] = g][s + 1] = g
  BY <1>1, <1>6, <1>8, ReplaceSeg
<1> QED BY <1>6, <1>7, <1>9 DEF Used

\* One word written.
LEMMA StoreHolds ==
  ASSUME NEW sg, GoodSegs(sg), NEW place, InArena(sg, place), NEW w \in WireWord
  PROVE  /\ GoodSegs(Store(sg, place, w))
         /\ Grows(sg, Store(sg, place, w))
         /\ Len(Store(sg, place, w)) = Len(sg)
<1> DEFINE i == place.seg + 1
           old == sg[i]
           ws == [old.words EXCEPT ![place.word + 1] = w]
           g == [old EXCEPT !.words = ws]
<1>1. place.seg \in Nat /\ place.word \in Nat /\ place.seg < Len(sg) /\ place.word < Len(old.words)
  BY DEF InArena, Used
<1>2. i \in 1 .. Len(sg)  BY <1>1, SegCount
<1>3. /\ old \in Segment /\ old.words \in Seq(WireWord) /\ Len(old.words) \in Nat /\ Within(old)
  BY <1>2, SegAt
<1>4. place.word + 1 \in 1 .. Len(old.words)  BY <1>1, <1>3
<1>5. ws \in Seq(WireWord) /\ Len(ws) = Len(old.words)  BY <1>3, <1>4, ExceptSeq
<1>6. Store(sg, place, w) = [sg EXCEPT ![i] = g]
  BY DEF Store
<1> HIDE DEF ws
<1>7. g \in Segment /\ g.words = ws /\ g.cap = old.cap
  BY <1>3, <1>5 DEF Segment
<1>8. Within(g) /\ Len(old.words) <= Len(g.words)  BY <1>3, <1>5, <1>7 DEF Within
<1> HIDE DEF g, i
<1>9. GoodSegs([sg EXCEPT ![i] = g]) /\ Grows(sg, [sg EXCEPT ![i] = g]) /\ Len([sg EXCEPT ![i] = g]) = Len(sg)
  BY <1>2, <1>7, <1>8, ReplaceSeg
<1> QED BY <1>6, <1>9

\* Words written over others.
LEMMA FillHolds ==
  ASSUME NEW sg, GoodSegs(sg), NEW at \in Places, at.seg < Len(sg), NEW ws \in Seq(WireWord),
         at.word + Len(ws) <= Used(sg, at.seg)
  PROVE  /\ GoodSegs(Fill(sg, at, ws))
         /\ Grows(sg, Fill(sg, at, ws))
         /\ Len(Fill(sg, at, ws)) = Len(sg)
<1> DEFINE i == at.seg + 1
           old == sg[i]
           n == Len(old.words)
           before == SubSeq(old.words, 1, at.word)
           behind == SubSeq(old.words, at.word + Len(ws) + 1, n)
           now == before \o ws \o behind
           g == [old EXCEPT !.words = now]
<1>1. at.seg \in Nat /\ at.word \in Nat /\ Len(ws) \in Nat  BY LenProperties DEF Places
<1>2. i \in 1 .. Len(sg)  BY <1>1, SegCount
<1>3. old \in Segment /\ old.words \in Seq(WireWord) /\ n \in Nat /\ Within(old)
  BY <1>2, SegAt
<1>4. at.word + Len(ws) <= n  BY DEF Used
<1>5. \A j \in 1 .. n : old.words[j] \in WireWord  BY <1>3, ElementOfSeq
<1>6. before \in Seq(WireWord) /\ Len(before) = at.word
  <2>1. \A j \in 1 .. at.word : old.words[j] \in WireWord  BY <1>1, <1>3, <1>4, <1>5
  <2>2. before \in Seq(WireWord) /\ Len(before) = IF 1 <= at.word THEN at.word - 1 + 1 ELSE 0
    BY <2>1, <1>1, SubSeqProperties
  <2> QED BY <2>2, <1>1
<1>7. behind \in Seq(WireWord) /\ Len(behind) = n - at.word - Len(ws)
  <2>1. \A j \in (at.word + Len(ws) + 1) .. n : old.words[j] \in WireWord  BY <1>1, <1>3, <1>4, <1>5
  <2>2. /\ behind \in Seq(WireWord)
        /\ Len(behind) = IF at.word + Len(ws) + 1 <= n THEN n - (at.word + Len(ws) + 1) + 1 ELSE 0
    <3>1. at.word + Len(ws) + 1 \in Int /\ n \in Int  BY <1>1, <1>3
    <3> QED BY <2>1, <3>1, SubSeqProperties
  <2> HIDE DEF n, behind
  <2> QED BY ONLY <2>2, <1>1, <1>3, <1>4
<1> HIDE DEF before, behind, n
<1>8. before \o ws \in Seq(WireWord) /\ Len(before \o ws) = at.word + Len(ws)
  BY <1>6, ConcatProperties
<1>9. now \in Seq(WireWord) /\ Len(now) = Len(before \o ws) + Len(behind)
  BY ONLY <1>7, <1>8, ConcatProperties
<1>10. Len(now) = n  BY ONLY <1>7, <1>8, <1>9, <1>1, <1>3, SMTT(30)
<1>11. Fill(sg, at, ws) = [sg EXCEPT ![i] = g]  BY DEF Fill, before, behind, n
<1> HIDE DEF now
<1>12. g \in Segment /\ g.words = now /\ g.cap = old.cap  BY <1>3, <1>9 DEF Segment
<1>13. Within(g) /\ Len(old.words) <= Len(g.words)  BY <1>3, <1>10, <1>12 DEF Within, n
<1> HIDE DEF g, i
<1>14. GoodSegs([sg EXCEPT ![i] = g]) /\ Grows(sg, [sg EXCEPT ![i] = g]) /\ Len([sg EXCEPT ![i] = g]) = Len(sg)
  BY <1>2, <1>12, <1>13, ReplaceSeg
<1> QED BY <1>11, <1>14

\* The words from `at' on are new ones of the arena.
New(sg, h, at, n) ==
  /\ GoodSegs(h)
  /\ Grows(sg, h)
  /\ at \in Places
  /\ at.seg < Len(h)
  /\ at.word + n <= Used(h, at.seg)
  /\ \A x \in Places : x.seg = at.seg /\ x.word >= at.word => ~InArena(sg, x)

\* alloc_words hands out words that nobody has.
LEMMA AllocHolds ==
  ASSUME LimitOK, NEW sg, GoodSegs(sg), NEW n \in Nat, Fits(sg, n)
  PROVE  New(sg, AllocWords(sg, n).segs, AllocWords(sg, n).at, n)
<1> DEFINE s == Len(sg) - 1
           last == sg[Len(sg)]
           need == Len(last.words) + n
           cap == MinOf(MaxOf(2 * last.cap, n), LimWords)
           fresh == [words |-> Zeros(n), cap |-> cap]
<1>1. Len(sg) \in Nat /\ Len(sg) > 0 /\ s \in Nat /\ s + 1 = Len(sg) /\ s < Len(sg)  BY SegCount
<1>2. Len(sg) \in 1 .. Len(sg)  BY <1>1
<1>3. Last(sg) = last /\ Used(sg, s) = Len(last.words)  BY <1>1 DEF Last, Used
<1>4. /\ last \in Segment /\ Len(last.words) \in Nat /\ last.cap \in Nat \ {0} /\ Within(last)
  BY <1>2, SegAt
<1>5. CASE single \/ (need <= last.cap /\ need <= LimWords)
  <2>1. need <= last.cap \/ need <= LimWords
    BY <1>3, <1>4, <1>5 DEF Fits, MaxOf, LimitOK
  <2>2. AllocWords(sg, n) = [segs |-> Extend(sg, s, n), at |-> Place(s, Used(sg, s))]
    BY <1>3, <1>5, Zenon DEF AllocWords
  <2>3. /\ GoodSegs(Extend(sg, s, n)) /\ Grows(sg, Extend(sg, s, n))
        /\ Len(Extend(sg, s, n)) = Len(sg)
        /\ Used(Extend(sg, s, n), s) = Used(sg, s) + n
    <3>1. \/ Len(sg[s + 1].words) + n <= sg[s + 1].cap
          \/ Len(sg[s + 1].words) + n <= LimWords
      BY <2>1, <1>1
    <3> QED BY <3>1, <1>1, ExtendHolds
  <2>4. Place(s, Used(sg, s)) = [seg |-> s, word |-> Len(last.words)]  BY <1>3 DEF Place
  <2>5. ASSUME NEW x \in Places, x.seg = s, x.word >= Len(last.words) PROVE ~InArena(sg, x)
    BY <1>3, <1>4, <2>5 DEF InArena, Places
  <2> QED BY <2>2, <2>3, <2>4, <2>5, <1>1, <1>3, <1>4 DEF New, Places
<1>6. CASE ~(single \/ (need <= last.cap /\ need <= LimWords))
  <2>1. AllocWords(sg, n) = [segs |-> Append(sg, fresh), at |-> Place(s + 1, 0)]
    BY <1>3, <1>6, Zenon DEF AllocWords
  <2>2. n <= LimWords  BY DEF Fits
  <2>3. cap \in Nat \ {0} /\ n <= cap /\ Allowed(cap)
    <3>1. cap \in Nat \ {0} /\ n <= cap /\ cap <= LimWords
      BY <2>2, <1>4, SMTT(30) DEF MinOf, MaxOf, LimitOK
    <3> HIDE DEF cap
    <3> QED BY <3>1, AllowedBelow DEF LimitOK
  <2>4. Zeros(n) \in Seq(WireWord) /\ Len(Zeros(n)) = n  BY ZerosTyped
  <2> HIDE DEF cap
  <2>5. fresh \in Segment /\ Within(fresh) /\ Len(fresh.words) = n
    BY <2>3, <2>4 DEF Segment, Within
  <2> HIDE DEF fresh
  <2>6. /\ GoodSegs(Append(sg, fresh)) /\ Grows(sg, Append(sg, fresh))
        /\ Len(Append(sg, fresh)) = Len(sg) + 1
        /\ Append(sg, fresh)[Len(sg) + 1] = fresh
    BY <2>5, AppendSeg
  <2>7. Place(s + 1, 0) = [seg |-> Len(sg), word |-> 0]  BY <1>1 DEF Place
  <2>8. ASSUME NEW x \in Places, x.seg = Len(sg) PROVE ~InArena(sg, x)
    BY <1>1, <2>8 DEF InArena
  <2>9. Used(Append(sg, fresh), Len(sg)) = n  BY <2>5, <2>6 DEF Used
  <2> QED BY <2>1, <2>6, <2>7, <2>8, <2>9, <1>1 DEF New, Places
<1> QED BY <1>5, <1>6

\* write_struct_ptr and write_list_ptr keep the arena good, near or far.
LEMMA WritePtrHolds ==
  ASSUME LimitOK, NEW sg, GoodSegs(sg), NEW place, InArena(sg, place),
         NEW at \in Places, at.seg < Len(sg), NEW ptr,
         \A off \in Int : [ptr EXCEPT !.off = off] \in WireWord
  PROVE  /\ GoodSegs(WritePtr(sg, place, at, ptr))
         /\ Grows(sg, WritePtr(sg, place, at, ptr))
<1> DEFINE pad == Used(sg, at.seg)
           Make(off) == [ptr EXCEPT !.off = off]
<1>1. at.seg \in Nat /\ at.word \in Nat /\ place \in Places /\ place.seg \in Nat /\ place.word \in Nat
  BY DEF Places, InArena
<1>2. Len(sg) \in Nat /\ Len(sg) > 0 /\ at.seg + 1 \in 1 .. Len(sg)  BY <1>1, SegCount
<1>3. pad \in Nat /\ pad = Len(sg[at.seg + 1].words)  BY <1>2, SegAt DEF Used
<1>4. \A off \in Int : Make(off) \in WireWord  OBVIOUS
<1>5. CASE place.seg = at.seg
  <2>1. WritePtr(sg, place, at, ptr) = Store(sg, place, Make(at.word - place.word - 1))
    BY <1>5, Zenon DEF WritePtr
  <2>2. Make(at.word - place.word - 1) \in WireWord  BY <1>1, <1>4, SMTT(30)
  <2> HIDE DEF Make
  <2> QED BY <2>1, <2>2, StoreHolds
<1>6. CASE place.seg # at.seg /\ pad + 1 <= LimWords
  <2> DEFINE one == Extend(sg, at.seg, 1)
             two == Store(one, Place(at.seg, pad), Make(at.word - pad - 1))
  <2>1. WritePtr(sg, place, at, ptr) = Store(two, place, MakeFar(FALSE, pad, at.seg))
    BY <1>6, Zenon DEF WritePtr
  <2>2. Make(at.word - pad - 1) \in WireWord
    <3>1. at.word - pad - 1 \in Int  BY <1>1, <1>3
    <3> HIDE DEF Make, pad
    <3> QED BY <3>1, <1>4
  <2>3. MakeFar(FALSE, pad, at.seg) \in WireWord  BY <1>1, <1>3, WordsTyped
  <2>4. GoodSegs(one) /\ Grows(sg, one) /\ Len(one) = Len(sg) /\ Used(one, at.seg) = pad + 1
    <3>1. Len(sg[at.seg + 1].words) + 1 <= LimWords  BY <1>3, <1>6
    <3> QED BY <3>1, <1>1, ExtendHolds
  <2> HIDE DEF one, Make
  <2>5. InArena(one, Place(at.seg, pad))  BY <2>4, <1>1, <1>3 DEF InArena, Place
  <2>6. GoodSegs(two) /\ Grows(one, two)  BY <2>2, <2>4, <2>5, StoreHolds
  <2> HIDE DEF two
  <2>7. Grows(sg, two)  BY <2>4, <2>6, GrowsTrans
  <2>8. InArena(two, place)  BY <2>6, <2>7, InArenaGrows
  <2>9. /\ GoodSegs(Store(two, place, MakeFar(FALSE, pad, at.seg)))
        /\ Grows(two, Store(two, place, MakeFar(FALSE, pad, at.seg)))
    BY <2>3, <2>6, <2>8, StoreHolds
  <2>10. Grows(sg, Store(two, place, MakeFar(FALSE, pad, at.seg)))
    BY <2>6, <2>7, <2>9, GrowsTrans
  <2> QED BY <2>1, <2>9, <2>10
<1>7. CASE place.seg # at.seg /\ ~(pad + 1 <= LimWords)
  <2> DEFINE g == [words |-> <<MakeFar(FALSE, at.word, at.seg), Make(0)>>, cap |-> 2]
             one == Append(sg, g)
  <2>1. WritePtr(sg, place, at, ptr) = Store(one, place, MakeFar(TRUE, 0, Len(sg)))
    BY <1>7, Zenon DEF WritePtr
  <2>2. Make(0) \in WireWord  BY <1>4
  <2>3. MakeFar(FALSE, at.word, at.seg) \in WireWord /\ MakeFar(TRUE, 0, Len(sg)) \in WireWord
    BY <1>1, <1>2, WordsTyped
  <2>4. Allowed(2)  BY BuilderAssumption DEF Allowed
  <2> HIDE DEF Make
  <2>5. g \in Segment /\ Within(g)
    <3> DEFINE v == MakeFar(FALSE, at.word, at.seg)
               w == Make(0)
    <3>1. v \in WireWord /\ w \in WireWord  BY <2>2, <2>3
    <3>2. g = [words |-> <<v, w>>, cap |-> 2]  OBVIOUS
    <3> HIDE DEF v, w, g
    <3>3. <<v, w>> \in Seq(WireWord) /\ Len(<<v, w>>) = 2  BY <3>1
    <3>4. g.words = <<v, w>> /\ g.cap = 2  BY <3>2
    <3>5. g \in Segment  BY <3>2, <3>3 DEF Segment
    <3>6. Within(g)  BY <2>4, <3>3, <3>4 DEF Within
    <3> QED BY <3>5, <3>6
  <2> HIDE DEF g
  <2>6. GoodSegs(one) /\ Grows(sg, one)  BY <2>5, AppendSeg
  <2> HIDE DEF one
  <2>7. InArena(one, place)  BY <2>6, InArenaGrows
  <2>8. /\ GoodSegs(Store(one, place, MakeFar(TRUE, 0, Len(sg))))
        /\ Grows(one, Store(one, place, MakeFar(TRUE, 0, Len(sg))))
    BY <2>3, <2>6, <2>7, StoreHolds
  <2>9. Grows(sg, Store(one, place, MakeFar(TRUE, 0, Len(sg))))
    BY <2>6, <2>8, GrowsTrans
  <2> QED BY <2>1, <2>8, <2>9
<1> QED BY <1>5, <1>6, <1>7

-----------------------------------------------------------------------------
(* What the application knows *)

\* A state of the builder, as State is.
IsState(st) == st = [segs |-> st.segs, built |-> st.built, vals |-> st.vals]

\* The arena is good, the words that were given are words of it, each once, and
\* every object has its words to itself.
GoodState(st) ==
  /\ IsState(st)
  /\ GoodSegs(st.segs)
  /\ \A x \in DOMAIN st.built \cup DOMAIN st.vals : InArena(st.segs, x)
  /\ DOMAIN st.built \cap DOMAIN st.vals = {}
  /\ \A x \in DOMAIN st.built : /\ ObjectPtrs(st.built[x]) \subseteq DOMAIN st.built
                                /\ ObjectData(st.built[x]) \subseteq DOMAIN st.vals
  /\ \A x, y \in DOMAIN st.built :
       x # y => ObjectWords(st.built[x]) \cap ObjectWords(st.built[y]) = {}

\* A state where the application knows more, with other segments.
Learned(st, place, obj, ptrs, data, sg) ==
  [Know(st, place, obj, ptrs, data) EXCEPT !.segs = sg]

\* What has no words.
LEMMA EmptyObjects ==
  /\ \A x : ObjectPtrs(NullAt(x)) = {} /\ ObjectData(NullAt(x)) = {}
  /\ \A x, i : ObjectPtrs(CapAt(x, i)) = {} /\ ObjectData(CapAt(x, i)) = {}
  /\ ObjectPtrs(Zero) = {} /\ ObjectData(Zero) = {}
<1>1. ASSUME NEW x, NEW i
      PROVE  /\ ObjectPtrs(NullAt(x)) = {} /\ ObjectData(NullAt(x)) = {}
             /\ ObjectPtrs(CapAt(x, i)) = {} /\ ObjectData(CapAt(x, i)) = {}
  BY DEF ObjectPtrs, ObjectData, NullAt, CapAt, Object
<1>2. ObjectPtrs(Zero) = {} /\ ObjectData(Zero) = {}
  <2>1. Zero.kind = "struct" /\ Zero.dwords = 0 /\ Zero.pwords = 0  BY DEF Zero, MakeStruct
  <2>2. ObjectPtrs(Zero) = PtrPlaces(Zero.at, 0, 0) /\ ObjectData(Zero) = DataPlaces(Zero.at, 0)
    BY <2>1 DEF ObjectPtrs, ObjectData
  <2> QED BY <2>2 DEF PtrPlaces, DataPlaces
<1> QED BY <1>1, <1>2

\* The words of a struct and of lists.
LEMMA StructIs ==
  ASSUME NEW at, NEW d, NEW p
  PROVE  /\ ObjectPtrs(StructAt(at, d, p)) = PtrPlaces(at, d, p)
         /\ ObjectData(StructAt(at, d, p)) = DataPlaces(at, d)
BY DEF ObjectPtrs, ObjectData, StructAt, Object

LEMMA PtrListIs ==
  ASSUME NEW at, NEW n
  PROVE  /\ ObjectPtrs(ListAt(at, "ptr", n)) = PtrPlaces(at, 0, n)
         /\ ObjectData(ListAt(at, "ptr", n)) = {}
BY DEF ObjectPtrs, ObjectData, ListAt, Object

LEMMA DataListIs ==
  ASSUME NEW at, NEW n, NEW e \in DOMAIN Bits \ {"ptr"}
  PROVE  /\ ObjectPtrs(ListAt(at, e, n)) = {}
         /\ ObjectData(ListAt(at, e, n)) = DataPlaces(at, ListWords(e, n))
<1>1. e # "composite" /\ e # "ptr"  BY DEF Bits
<1>2. /\ ListAt(at, e, n).kind = "list" /\ ListAt(at, e, n).esize = e
      /\ ListAt(at, e, n).at = at /\ ListAt(at, e, n).count = n
  BY DEF ListAt, Object
<1> QED BY <1>1, <1>2 DEF ObjectPtrs, ObjectData

LEMMA StructListIs ==
  ASSUME NEW at, NEW d, NEW p, NEW n, NEW list, list = StructsAt(at, n, d, p)
  PROVE  /\ ObjectPtrs(list) = UNION {PtrPlaces(Element(list, i), d, p) : i \in 0 .. (n - 1)}
         /\ ObjectData(list) = UNION {DataPlaces(Element(list, i), d) : i \in 0 .. (n - 1)}
<1>1. /\ list.kind = "list" /\ list.esize = "composite" /\ list.count = n
      /\ list.dwords = d /\ list.pwords = p
  BY DEF StructsAt, Object
<1>2. "composite" \notin DOMAIN Bits  BY DEF Bits
<1> QED BY <1>1, <1>2 DEF ObjectPtrs, ObjectData

\* What Know knows.
LEMMA KnowIs ==
  ASSUME NEW st, IsState(st), NEW place, NEW obj, NEW ptrs, NEW data, NEW sg,
         NEW r, r = Learned(st, place, obj, ptrs, data, sg)
  PROVE  /\ IsState(r)
         /\ r.segs = sg
         /\ DOMAIN r.built = DOMAIN st.built \cup ptrs
         /\ DOMAIN r.vals = DOMAIN st.vals \cup DOMAIN data
         /\ \A x \in DOMAIN r.built :
              r.built[x] = IF x = place THEN obj
                           ELSE IF x \in DOMAIN st.built THEN st.built[x] ELSE NullAt(x)
<1> DEFINE b == [x \in DOMAIN st.built \cup ptrs |->
                   IF x = place THEN obj
                   ELSE IF x \in DOMAIN st.built THEN st.built[x] ELSE NullAt(x)]
           v == [x \in DOMAIN st.vals \cup DOMAIN data |->
                   IF x \in DOMAIN data THEN data[x] ELSE st.vals[x]]
<1>1. Know(st, place, obj, ptrs, data) = [st EXCEPT !.built = b, !.vals = v]
  BY DEF Know
<1>2. /\ DOMAIN b = DOMAIN st.built \cup ptrs /\ DOMAIN v = DOMAIN st.vals \cup DOMAIN data
      /\ \A x \in DOMAIN b :
           b[x] = IF x = place THEN obj ELSE IF x \in DOMAIN st.built THEN st.built[x] ELSE NullAt(x)
  OBVIOUS
<1> HIDE DEF b, v
<1>3. PICK S, B, V : st = [segs |-> S, built |-> B, vals |-> V]  BY DEF IsState
<1>4. r = [segs |-> sg, built |-> b, vals |-> v]
  <2>1. [st EXCEPT !.built = b] = [segs |-> S, built |-> b, vals |-> V]  BY ONLY <1>3
  <2>2. [[segs |-> S, built |-> b, vals |-> V] EXCEPT !.vals = v]
          = [segs |-> S, built |-> b, vals |-> v]
    BY ONLY TRUE
  <2>3. [st EXCEPT !.built = b, !.vals = v] = [[st EXCEPT !.built = b] EXCEPT !.vals = v]
    BY ONLY TRUE
  <2>4. [[segs |-> S, built |-> b, vals |-> v] EXCEPT !.segs = sg]
          = [segs |-> sg, built |-> b, vals |-> v]
    BY ONLY TRUE
  <2>5. Know(st, place, obj, ptrs, data) = [segs |-> S, built |-> b, vals |-> v]
    BY ONLY <1>1, <2>1, <2>2, <2>3
  <2> QED BY <2>4, <2>5 DEF Learned
<1>5. r.segs = sg /\ r.built = b /\ r.vals = v  BY <1>4
<1> QED BY ONLY <1>2, <1>4, <1>5 DEF IsState

\* Knowing more is good when the words that are given are new ones of the arena.
LEMMA KnowHolds ==
  ASSUME NEW st, GoodState(st), NEW place, NEW obj, NEW ptrs, NEW data, NEW sg,
         GoodSegs(sg), Grows(st.segs, sg),
         \A x \in ptrs : InArena(sg, x) /\ x \notin DOMAIN st.vals,
         \A x \in DOMAIN data : InArena(sg, x) /\ x \notin DOMAIN st.built,
         ptrs \cap DOMAIN data = {},
         ObjectPtrs(obj) \subseteq ptrs, ObjectData(obj) \subseteq DOMAIN data,
         \A x \in ObjectWords(obj) : x \notin DOMAIN st.built /\ x \notin DOMAIN st.vals,
         NEW r, r = Learned(st, place, obj, ptrs, data, sg)
  PROVE  /\ GoodState(r)
         /\ r.segs = sg
         /\ DOMAIN r.built = DOMAIN st.built \cup ptrs
<1>0. IsState(st)  BY DEF GoodState
<1>1. /\ IsState(r) /\ r.segs = sg
      /\ DOMAIN r.built = DOMAIN st.built \cup ptrs
      /\ DOMAIN r.vals = DOMAIN st.vals \cup DOMAIN data
      /\ \A x \in DOMAIN r.built :
           r.built[x] = IF x = place THEN obj
                        ELSE IF x \in DOMAIN st.built THEN st.built[x] ELSE NullAt(x)
  <2>1. r = Learned(st, place, obj, ptrs, data, sg)  OBVIOUS
  <2> QED BY ONLY <1>0, <2>1, KnowIs
<1>2. \A x \in DOMAIN st.built \cup DOMAIN st.vals : InArena(sg, x)
  BY InArenaGrows DEF GoodState
<1>3. \A x \in DOMAIN r.built \cup DOMAIN r.vals : InArena(sg, x)
  BY <1>1, <1>2, Zenon
<1>4. DOMAIN st.built \cap DOMAIN st.vals = {}  BY DEF GoodState
<1>5. DOMAIN r.built \cap DOMAIN r.vals = {}  BY <1>1, <1>4
<1>6. ASSUME NEW x \in DOMAIN r.built
      PROVE  /\ ObjectPtrs(r.built[x]) \subseteq DOMAIN r.built
             /\ ObjectData(r.built[x]) \subseteq DOMAIN r.vals
             /\ x # place => \A z \in ObjectWords(r.built[x]) : z \in DOMAIN st.built \cup DOMAIN st.vals
  <2>1. CASE x = place
    <3>1. r.built[x] = obj  BY <1>1, <2>1
    <3> QED BY <1>1, <2>1, <3>1
  <2>2. CASE x # place /\ x \in DOMAIN st.built
    <3>1. r.built[x] = st.built[x]  BY <1>1, <2>2
    <3>2. ObjectPtrs(st.built[x]) \subseteq DOMAIN st.built /\ ObjectData(st.built[x]) \subseteq DOMAIN st.vals
      BY <2>2 DEF GoodState
    <3> QED BY <1>1, <3>1, <3>2 DEF ObjectWords
  <2>3. CASE x # place /\ x \notin DOMAIN st.built
    <3>1. r.built[x] = NullAt(x)  BY <1>1, <2>3
    <3> QED BY <3>1, EmptyObjects DEF ObjectWords
  <2> QED BY <2>1, <2>2, <2>3
<1>7. ASSUME NEW x \in DOMAIN r.built, NEW y \in DOMAIN r.built, x # y
      PROVE  ObjectWords(r.built[x]) \cap ObjectWords(r.built[y]) = {}
  <2>1. CASE x = place
    <3>1. r.built[x] = obj  BY <1>1, <2>1
    <3>2. y # place  BY <1>7, <2>1
    <3> QED BY <1>6, <3>1, <3>2
  <2>2. CASE y = place
    <3>1. r.built[y] = obj  BY <1>1, <2>2
    <3>2. x # place  BY <1>7, <2>2
    <3> QED BY <1>6, <3>1, <3>2
  <2>3. CASE x # place /\ y # place /\ x \in DOMAIN st.built /\ y \in DOMAIN st.built
    <3>1. r.built[x] = st.built[x] /\ r.built[y] = st.built[y]  BY <1>1, <2>3
    <3>2. ObjectWords(st.built[x]) \cap ObjectWords(st.built[y]) = {}  BY <1>7, <2>3 DEF GoodState
    <3> QED BY <3>1, <3>2
  <2>4. CASE x # place /\ x \notin DOMAIN st.built
    <3>1. r.built[x] = NullAt(x)  BY <1>1, <2>4
    <3> QED BY <3>1, EmptyObjects DEF ObjectWords
  <2>5. CASE y # place /\ y \notin DOMAIN st.built
    <3>1. r.built[y] = NullAt(y)  BY <1>1, <2>5
    <3> QED BY <3>1, EmptyObjects DEF ObjectWords
  <2> QED BY <2>1, <2>2, <2>3, <2>4, <2>5
<1>8. GoodState(r)  BY <1>1, <1>3, <1>5, <1>6, <1>7 DEF GoodState
<1> QED BY <1>1, <1>8

\* The words of what was allocated: in the arena, and nobody's.
LEMMA NewWords ==
  ASSUME NEW st, GoodState(st), NEW h, NEW at, NEW n \in Nat, New(st.segs, h, at, n),
         NEW sg, GoodSegs(sg), Grows(h, sg)
  PROVE  /\ Grows(st.segs, sg)
         /\ at \in Places /\ at.seg < Len(sg)
         /\ \A i \in Nat : i < n => InArena(sg, Place(at.seg, at.word + i))
         /\ \A i \in Nat : /\ Place(at.seg, at.word + i) \notin DOMAIN st.built
                           /\ Place(at.seg, at.word + i) \notin DOMAIN st.vals
<1>1. GoodSegs(st.segs) /\ GoodSegs(h) /\ Grows(st.segs, h) /\ at \in Places
  BY DEF GoodState, New
<1>2. Grows(st.segs, sg)  BY <1>1, GrowsTrans
<1>3. at.seg \in Nat /\ at.word \in Nat /\ at.seg < Len(h)  BY <1>1 DEF Places, New
<1>4. at.seg < Len(sg)
  <2>1. Len(h) \in Nat /\ Len(sg) \in Nat /\ Len(h) <= Len(sg)  BY <1>1, SegCount DEF Grows
  <2> QED BY <2>1, <1>3
<1>5. ASSUME NEW i \in Nat
      PROVE  /\ Place(at.seg, at.word + i) \in Places
             /\ Place(at.seg, at.word + i).seg = at.seg
             /\ Place(at.seg, at.word + i).word = at.word + i
  BY <1>3 DEF Place, Places
<1>6. ASSUME NEW i \in Nat, i < n PROVE InArena(sg, Place(at.seg, at.word + i))
  <2>1. Used(h, at.seg) \in Nat
    <3>1. Len(h) \in Nat  BY <1>1, SegCount
    <3>2. at.seg + 1 \in 1 .. Len(h)  BY <3>1, <1>3
    <3> QED BY <3>2, <1>1, SegAt DEF Used
  <2>2. at.word + i < Used(h, at.seg)  BY <2>1, <1>3, <1>6 DEF New
  <2>3. InArena(h, Place(at.seg, at.word + i))  BY <1>3, <1>5, <2>2 DEF InArena, Places
  <2> QED BY <2>3, <1>1, InArenaGrows
<1>7. ASSUME NEW i \in Nat
      PROVE  /\ Place(at.seg, at.word + i) \notin DOMAIN st.built
             /\ Place(at.seg, at.word + i) \notin DOMAIN st.vals
  <2>1. at.word + i >= at.word  BY <1>3
  <2>2. ~InArena(st.segs, Place(at.seg, at.word + i))  BY <1>5, <2>1 DEF New
  <2> QED BY <2>2 DEF GoodState
<1> QED BY <1>1, <1>2, <1>4, <1>6, <1>7

-----------------------------------------------------------------------------
(* Operations *)

\* capnp_builder_root
LEMMA RootHolds ==
  ASSUME LimitOK, NEW st, GoodState(st), Fits(st.segs, 1)
  PROVE  GoodState(RootOn(st))
<1> DEFINE g == AllocWords(st.segs, 1)
<1>1. New(st.segs, g.segs, g.at, 1)  BY AllocHolds DEF GoodState
<1>2. RootOn(st) = Learned(st, g.at, NullAt(g.at), {g.at}, Blank({}), g.segs)
  BY Zenon DEF RootOn, Learned
<1> HIDE DEF g
<1>3. GoodSegs(g.segs) /\ Grows(st.segs, g.segs) /\ g.at \in Places  BY <1>1 DEF New
<1>4. Grows(g.segs, g.segs)  BY <1>3, GrowsSelf
<1>5. g.at = Place(g.at.seg, g.at.word + 0)  BY <1>3 DEF Place, Places
<1>6. InArena(g.segs, g.at) /\ g.at \notin DOMAIN st.vals
  <2>1. 0 \in Nat /\ 0 < 1 /\ 1 \in Nat  OBVIOUS
  <2>2. /\ InArena(g.segs, Place(g.at.seg, g.at.word + 0))
        /\ Place(g.at.seg, g.at.word + 0) \notin DOMAIN st.vals
    BY <2>1, <1>1, <1>3, <1>4, NewWords
  <2> QED BY <2>2, <1>5
<1>7. DOMAIN Blank({}) = {}  BY DEF Blank
<1>8. /\ \A x \in {g.at} : InArena(g.segs, x) /\ x \notin DOMAIN st.vals
      /\ \A x \in DOMAIN Blank({}) : InArena(g.segs, x) /\ x \notin DOMAIN st.built
      /\ {g.at} \cap DOMAIN Blank({}) = {}
      /\ ObjectPtrs(NullAt(g.at)) = {} /\ ObjectData(NullAt(g.at)) = {}
      /\ ObjectWords(NullAt(g.at)) = {}
  BY <1>6, <1>7, EmptyObjects DEF ObjectWords
<1> QED BY <1>2, <1>3, <1>8, KnowHolds

\* capnp_builder_struct
LEMMA StructHolds ==
  ASSUME LimitOK, NEW st, GoodState(st), NEW place \in DOMAIN st.built,
         NEW d \in Nat, NEW p \in Nat, Fits(st.segs, d + p)
  PROVE  GoodState(StructOn(st, place, d, p))
<1> DEFINE g == StructBody(st, place, d, p)
           ptr == MakeStruct(-1, d, p)
           sg == WritePtr(g.segs, place, g.at, ptr)
           ptrs == PtrPlaces(g.at, d, p)
           data == Blank(DataPlaces(g.at, d))
<1>1. StructOn(st, place, d, p)
        = Learned(st, place, StructAt(g.at, d, p), ptrs, data, sg)
  BY Zenon DEF StructOn, Learned
<1>2. \A off \in Int : [ptr EXCEPT !.off = off] \in WireWord
  <2>1. -1 \in Int  OBVIOUS
  <2> QED BY <2>1, WordsTyped, Zenon
<1>3. GoodSegs(st.segs) /\ InArena(st.segs, place)  BY DEF GoodState
<1>4. DOMAIN data = DataPlaces(g.at, d)  BY DEF Blank
<1> DEFINE obj == StructAt(g.at, d, p)
<1>o. ObjectPtrs(obj) = ptrs /\ ObjectData(obj) = DOMAIN data /\ ObjectWords(obj) = ptrs \cup DOMAIN data
  <2> HIDE DEF g
  <2>1. ObjectPtrs(obj) = PtrPlaces(g.at, d, p) /\ ObjectData(obj) = DataPlaces(g.at, d)
    BY StructIs
  <2> HIDE DEF obj
  <2>2. ObjectPtrs(obj) = ptrs /\ ObjectData(obj) = DOMAIN data  BY <2>1, <1>4, Zenon
  <2> QED BY <2>2, Zenon DEF ObjectWords
<1> HIDE DEF obj
<1>5. CASE d + p = 0
  <2>1. d = 0 /\ p = 0  BY <1>5
  <2>2. g = [segs |-> st.segs, at |-> place]  BY <1>5, Zenon DEF StructBody
  <2>3. g.segs = st.segs /\ g.at = place  BY <2>2
  <2>4. place \in Places /\ place.seg < Len(st.segs)  BY <1>3 DEF InArena, Places
  <2> HIDE DEF ptr
  <2>5. GoodSegs(sg) /\ Grows(st.segs, sg)  BY <2>3, <2>4, <1>2, <1>3, WritePtrHolds
  <2>6. ptrs = {} /\ DOMAIN data = {}  BY <2>1, <1>4 DEF PtrPlaces, DataPlaces
  <2> HIDE DEF g, sg, ptrs, data
  <2>7. StructOn(st, place, d, p) = Learned(st, place, obj, ptrs, data, sg)  BY <1>1 DEF obj
  <2>8. /\ ObjectPtrs(obj) \subseteq ptrs /\ ObjectData(obj) \subseteq DOMAIN data
        /\ ObjectWords(obj) = {} /\ ptrs \cap DOMAIN data = {}
        /\ \A x \in ptrs : InArena(sg, x) /\ x \notin DOMAIN st.vals
        /\ \A x \in DOMAIN data : InArena(sg, x) /\ x \notin DOMAIN st.built
        /\ \A x \in ObjectWords(obj) : x \notin DOMAIN st.built /\ x \notin DOMAIN st.vals
    BY <1>o, <2>6
  <2> QED BY <2>5, <2>7, <2>8, KnowHolds
<1>6. CASE d + p # 0
  <2>1. g = AllocWords(st.segs, d + p)  BY <1>6, Zenon DEF StructBody
  <2>2. New(st.segs, g.segs, g.at, d + p)  BY <2>1, <1>3, AllocHolds
  <2> HIDE DEF g, ptr
  <2>3. GoodSegs(g.segs) /\ Grows(st.segs, g.segs) /\ g.at \in Places /\ g.at.seg < Len(g.segs)
    BY <2>2 DEF New
  <2>4. InArena(g.segs, place)  BY <2>3, <1>3, InArenaGrows
  <2>5. GoodSegs(sg) /\ Grows(g.segs, sg)  BY <2>3, <2>4, <1>2, WritePtrHolds
  <2> HIDE DEF sg
  <2>6. /\ Grows(st.segs, sg)
        /\ \A i \in Nat : i < d + p => InArena(sg, Place(g.at.seg, g.at.word + i))
        /\ \A i \in Nat : /\ Place(g.at.seg, g.at.word + i) \notin DOMAIN st.built
                          /\ Place(g.at.seg, g.at.word + i) \notin DOMAIN st.vals
    <3>1. d + p \in Nat  OBVIOUS
    <3> QED BY <3>1, <2>2, <2>5, NewWords
  <2>7. ASSUME NEW x \in ptrs
        PROVE  \E i \in Nat : d <= i /\ i < d + p /\ x = Place(g.at.seg, g.at.word + i)
    <3>1. PICK j \in 0 .. (p - 1) : x = Place(g.at.seg, g.at.word + d + j)  BY DEF PtrPlaces
    <3>2. g.at.word + d + j = g.at.word + (d + j)  BY <2>3 DEF Places
    <3> QED BY <3>1, <3>2
  <2>8. ASSUME NEW x \in DOMAIN data
        PROVE  \E i \in Nat : i < d /\ x = Place(g.at.seg, g.at.word + i)
    BY <1>4 DEF DataPlaces
  <2> HIDE DEF ptrs, data
  <2>9. \A x \in ptrs : InArena(sg, x) /\ x \notin DOMAIN st.vals  BY <2>6, <2>7
  <2>10. \A x \in DOMAIN data : InArena(sg, x) /\ x \notin DOMAIN st.built  BY <2>6, <2>8
  <2>11. ptrs \cap DOMAIN data = {}
    <3>1. SUFFICES ASSUME NEW x \in ptrs, x \in DOMAIN data PROVE FALSE  OBVIOUS
    <3>2. PICK i \in Nat : d <= i /\ x = Place(g.at.seg, g.at.word + i)  BY <2>7
    <3>3. PICK j \in Nat : j < d /\ x = Place(g.at.seg, g.at.word + j)  BY <2>8, <3>1
    <3>4. g.at.word + i = g.at.word + j  BY <3>2, <3>3 DEF Place
    <3> QED BY <3>2, <3>3, <3>4, <2>3 DEF Places
  <2>12. \A x \in ObjectWords(obj) : x \notin DOMAIN st.built /\ x \notin DOMAIN st.vals
    BY <1>o, <2>6, <2>7, <2>8
  <2>13. StructOn(st, place, d, p) = Learned(st, place, obj, ptrs, data, sg)  BY <1>1 DEF obj
  <2>14. ObjectPtrs(obj) \subseteq ptrs /\ ObjectData(obj) \subseteq DOMAIN data  BY <1>o
  <2> QED BY <2>13, <2>5, <2>6, <2>9, <2>10, <2>11, <2>12, <2>14, KnowHolds
<1> QED BY <1>5, <1>6

\* A list of data.
LEMMA PutListHolds ==
  ASSUME LimitOK, NEW st, GoodState(st), NEW place \in DOMAIN st.built,
         NEW esize \in DOMAIN Bits \ {"ptr"}, NEW count \in Nat, NEW ws \in Seq(WireWord),
         Len(ws) = ListWords(esize, count), Fits(st.segs, Len(ws))
  PROVE  /\ GoodState(PutList(st, place, esize, count, ws))
         /\ DOMAIN st.built \subseteq DOMAIN PutList(st, place, esize, count, ws).built
<1> DEFINE g == IF ws = <<>>
                THEN [segs |-> st.segs, at |-> Place(place.seg, place.word + 1)]
                ELSE AllocWords(st.segs, Len(ws))
           ptr == MakeList(0, esize, count)
           data == [x \in DataPlaces(g.at, Len(ws)) |-> ws[x.word - g.at.word + 1]]
           filled == Fill(g.segs, g.at, ws)
           sg == WritePtr(filled, place, g.at, ptr)
<1>1. PutList(st, place, esize, count, ws)
        = Learned(st, place, ListAt(g.at, esize, count), {}, data, sg)
  BY Zenon DEF PutList, Learned
<1>2. \A off \in Int : [ptr EXCEPT !.off = off] \in WireWord
  <2>1. 0 \in Int  OBVIOUS
  <2> QED BY <2>1, WordsTyped, Zenon
<1>3. GoodSegs(st.segs) /\ InArena(st.segs, place)  BY DEF GoodState
<1>4. DOMAIN data = DataPlaces(g.at, Len(ws))  OBVIOUS
<1>5. Len(ws) \in Nat  BY LenProperties
<1>6. /\ GoodSegs(sg) /\ Grows(st.segs, sg)
      /\ \A x \in DOMAIN data : InArena(sg, x) /\ x \notin DOMAIN st.built /\ x \notin DOMAIN st.vals
  <2>1. CASE ws = <<>>
    <3>1. g.segs = st.segs /\ g.at = Place(place.seg, place.word + 1)  BY <2>1
    <3>2. place \in Places /\ place.seg < Len(st.segs) /\ place.word < Used(st.segs, place.seg)
      BY <1>3 DEF InArena, Places
    <3>3. Used(st.segs, place.seg) \in Nat
      <4>1. place.seg + 1 \in 1 .. Len(st.segs)  BY <3>2, <1>3, SegCount DEF Places
      <4> QED BY <4>1, <1>3, SegAt DEF Used
    <3>4. /\ g.at \in Places /\ g.at.seg = place.seg /\ g.at.seg < Len(g.segs)
          /\ g.at.word + Len(ws) <= Used(g.segs, g.at.seg)
      <4>1. Len(ws) = 0  BY <2>1
      <4>2. g.at = [seg |-> place.seg, word |-> place.word + 1]  BY <3>1 DEF Place
      <4> QED BY <4>1, <4>2, <3>1, <3>2, <3>3 DEF Places
    <3>5. Len(ws) = 0  BY <2>1
    <3> HIDE DEF g, ptr
    <3>6. GoodSegs(filled) /\ Grows(g.segs, filled) /\ Len(filled) = Len(g.segs)
      BY <3>1, <3>4, <1>3, FillHolds
    <3> HIDE DEF filled
    <3>7. InArena(filled, place) /\ g.at.seg < Len(filled)
      BY <3>1, <3>4, <3>6, <1>3, InArenaGrows
    <3>8. GoodSegs(sg) /\ Grows(filled, sg)  BY <3>4, <3>6, <3>7, <1>2, WritePtrHolds
    <3>9. Grows(st.segs, sg)  BY <3>1, <3>6, <3>8, <1>3, GrowsTrans
    <3>10. DataPlaces(g.at, 0) = {}  BY DEF DataPlaces
    <3> QED BY <3>5, <3>8, <3>9, <3>10, <1>4
  <2>2. CASE ws # <<>>
    <3>1. g = AllocWords(st.segs, Len(ws))  BY <2>2
    <3>2. New(st.segs, g.segs, g.at, Len(ws))  BY <3>1, <1>3, <1>5, AllocHolds
    <3> HIDE DEF g, ptr
    <3>3. /\ GoodSegs(g.segs) /\ Grows(st.segs, g.segs) /\ g.at \in Places /\ g.at.seg < Len(g.segs)
          /\ g.at.word + Len(ws) <= Used(g.segs, g.at.seg)
      BY <3>2 DEF New
    <3>4. GoodSegs(filled) /\ Grows(g.segs, filled) /\ Len(filled) = Len(g.segs)
      BY <3>3, FillHolds
    <3> HIDE DEF filled
    <3>5. Grows(st.segs, filled)  BY <3>3, <3>4, <1>3, GrowsTrans
    <3>6. InArena(filled, place) /\ g.at.seg < Len(filled)
      BY <3>3, <3>4, <3>5, <1>3, InArenaGrows
    <3>7. GoodSegs(sg) /\ Grows(filled, sg)  BY <3>3, <3>4, <3>6, <1>2, WritePtrHolds
    <3> HIDE DEF sg
    <3>8. Grows(g.segs, sg)  BY <3>3, <3>4, <3>7, GrowsTrans
    <3>9. /\ Grows(st.segs, sg)
          /\ \A i \in Nat : i < Len(ws) => InArena(sg, Place(g.at.seg, g.at.word + i))
          /\ \A i \in Nat : /\ Place(g.at.seg, g.at.word + i) \notin DOMAIN st.built
                            /\ Place(g.at.seg, g.at.word + i) \notin DOMAIN st.vals
      BY <3>2, <3>7, <3>8, <1>5, NewWords
    <3>10. ASSUME NEW x \in DOMAIN data
           PROVE  \E i \in Nat : i < Len(ws) /\ x = Place(g.at.seg, g.at.word + i)
      BY <1>4, <1>5 DEF DataPlaces
    <3> HIDE DEF data
    <3> QED BY <3>7, <3>9, <3>10
  <2> QED BY <2>1, <2>2
<1>7. PICK r : r = PutList(st, place, esize, count, ws)  OBVIOUS
<1> HIDE DEF g, sg, data
<1>o. PICK obj : obj = ListAt(g.at, esize, count)  OBVIOUS
<1>p. ObjectPtrs(obj) = {} /\ ObjectData(obj) = DOMAIN data /\ ObjectWords(obj) = DOMAIN data
  <2>1. ObjectPtrs(obj) = {} /\ ObjectData(obj) = DataPlaces(g.at, ListWords(esize, count))
    BY <1>o, DataListIs
  <2>2. ObjectData(obj) = DOMAIN data  BY <2>1, <1>4
  <2> QED BY <2>1, <2>2 DEF ObjectWords
<1>8. r = Learned(st, place, obj, {}, data, sg)  BY <1>1, <1>7, <1>o
<1>9. GoodState(r) /\ DOMAIN st.built \subseteq DOMAIN r.built
  <2>1. PICK E : E = {}  OBVIOUS
  <2>2. E \cap DOMAIN data = {} /\ \A x \in E : InArena(sg, x) /\ x \notin DOMAIN st.vals
    BY <2>1
  <2>3. r = Learned(st, place, obj, E, data, sg)  BY <1>8, <2>1
  <2>4. /\ ObjectPtrs(obj) \subseteq E /\ ObjectData(obj) \subseteq DOMAIN data
        /\ \A x \in ObjectWords(obj) : x \notin DOMAIN st.built /\ x \notin DOMAIN st.vals
    BY <1>6, <1>p
  <2>5. GoodState(r) /\ DOMAIN r.built = DOMAIN st.built \cup E
    BY <1>6, <2>2, <2>3, <2>4, KnowHolds
  <2> QED BY <2>5
<1> QED BY <1>7, <1>9

\* capnp_builder_set_cap and _clear_ptr, and the setters of data: one word is
\* written, and no word is given.
LEMMA PutWordHolds ==
  ASSUME NEW st, GoodState(st), NEW place, InArena(st.segs, place), NEW w \in WireWord, NEW obj,
         ObjectPtrs(obj) = {}, ObjectData(obj) = {},
         NEW data, DOMAIN data \subseteq DOMAIN st.vals
  PROVE  GoodState(Learned(st, place, obj, {}, data, Store(st.segs, place, w)))
<1> DEFINE sg == Store(st.segs, place, w)
<1>1. GoodSegs(st.segs)  BY DEF GoodState
<1>2. GoodSegs(sg) /\ Grows(st.segs, sg)  BY <1>1, StoreHolds
<1>3. \A x \in DOMAIN data : InArena(sg, x) /\ x \notin DOMAIN st.built
  <2>1. \A x \in DOMAIN data : InArena(st.segs, x) /\ x \notin DOMAIN st.built  BY DEF GoodState
  <2> HIDE DEF sg
  <2> QED BY <2>1, <1>1, <1>2, InArenaGrows
<1> HIDE DEF sg
<1>4. PICK r : r = Learned(st, place, obj, {}, data, sg)  OBVIOUS
<1>5. PICK E : E = {}  OBVIOUS
<1>6. GoodState(r)
  <2>1. E \cap DOMAIN data = {} /\ \A x \in E : InArena(sg, x) /\ x \notin DOMAIN st.vals
    BY <1>5
  <2>2. ObjectPtrs(obj) \subseteq E /\ ObjectData(obj) \subseteq DOMAIN data /\ ObjectWords(obj) = {}
    BY DEF ObjectWords
  <2>3. r = Learned(st, place, obj, E, data, sg)  BY <1>4, <1>5
  <2> QED BY <1>2, <1>3, <2>1, <2>2, <2>3, KnowHolds
<1> QED BY <1>4, <1>6 DEF sg

\* capnp_builder_set_list_struct
LEMMA ListStructHolds ==
  ASSUME LimitOK, NEW st, GoodState(st), NEW place \in DOMAIN st.built,
         NEW n \in Nat, NEW d \in Nat, NEW p \in Nat, Fits(st.segs, 1 + n * (d + p))
  PROVE  GoodState(ListStructOn(st, place, n, d, p))
<1> DEFINE words == n * (d + p)
           g == AllocWords(st.segs, 1 + words)
           first == Place(g.at.seg, g.at.word + 1)
           list == StructsAt(first, n, d, p)
           elems == {Element(list, i) : i \in 0 .. (n - 1)}
           ptr == MakeList(0, "composite", words)
           ptrs == UNION {PtrPlaces(x, d, p) : x \in elems}
           data == Blank(UNION {DataPlaces(x, d) : x \in elems})
           tagged == Store(g.segs, g.at, MakeStruct(n, d, p))
           sg == WritePtr(tagged, place, g.at, ptr)
<1>1. ListStructOn(st, place, n, d, p) = Learned(st, place, list, ptrs, data, sg)
  BY Zenon DEF ListStructOn, Learned
<1>2. words \in Nat  BY Products
<1>3. GoodSegs(st.segs) /\ InArena(st.segs, place)  BY DEF GoodState
<1>4. New(st.segs, g.segs, g.at, 1 + words)
  <2>1. 1 + words \in Nat  BY <1>2
  <2> HIDE DEF words
  <2>2. Fits(st.segs, 1 + words)  BY DEF words
  <2> QED BY <2>1, <2>2, <1>3, AllocHolds
<1>5. /\ GoodSegs(g.segs) /\ Grows(st.segs, g.segs) /\ g.at \in Places /\ g.at.seg < Len(g.segs)
      /\ g.at.word + (1 + words) <= Used(g.segs, g.at.seg)
  BY <1>4 DEF New
<1>6. \A off \in Int : [ptr EXCEPT !.off = off] \in WireWord
  <2>1. 0 \in Int /\ "composite" \in DOMAIN Bits \cup {"composite"}  OBVIOUS
  <2> HIDE DEF words
  <2> QED BY <2>1, <1>2, WordsTyped, Zenon
<1>7. MakeStruct(n, d, p) \in WireWord
  <2>1. n \in Int  OBVIOUS
  <2> QED BY <2>1, WordsTyped, Zenon
<1> HIDE DEF words, g, ptr
<1>8. g.at.seg \in Nat /\ g.at.word \in Nat  BY <1>5 DEF Places
<1>9. GoodSegs(sg) /\ Grows(g.segs, sg)
  <2>1. Grows(g.segs, g.segs)  BY <1>5, GrowsSelf
  <2>2. InArena(g.segs, Place(g.at.seg, g.at.word + 0))
    <3>1. 1 + words \in Nat /\ 0 \in Nat /\ 0 < 1 + words  BY <1>2
    <3> QED BY <3>1, <2>1, <1>4, <1>5, NewWords
  <2>3. g.at = Place(g.at.seg, g.at.word + 0)  BY <1>5 DEF Place, Places
  <2>4. GoodSegs(tagged) /\ Grows(g.segs, tagged) /\ Len(tagged) = Len(g.segs)
    BY <2>2, <2>3, <1>5, <1>7, StoreHolds
  <2> HIDE DEF tagged
  <2>5. Grows(st.segs, tagged)  BY <2>4, <1>3, <1>5, GrowsTrans
  <2>6. InArena(tagged, place)  BY <2>4, <2>5, <1>3, InArenaGrows
  <2>7. GoodSegs(sg) /\ Grows(tagged, sg)  BY <2>4, <2>6, <1>5, <1>6, WritePtrHolds
  <2> QED BY <2>4, <2>7, <1>5, GrowsTrans
<1> HIDE DEF sg
<1>10. /\ Grows(st.segs, sg)
       /\ \A i \in Nat : i < 1 + words => InArena(sg, Place(g.at.seg, g.at.word + i))
       /\ \A i \in Nat : /\ Place(g.at.seg, g.at.word + i) \notin DOMAIN st.built
                         /\ Place(g.at.seg, g.at.word + i) \notin DOMAIN st.vals
  <2>1. 1 + words \in Nat  BY <1>2
  <2> QED BY <2>1, <1>4, <1>9, NewWords
<1>11. ASSUME NEW i \in 0 .. (n - 1)
       PROVE  /\ i * (d + p) \in Nat
              /\ i * (d + p) + (d + p) <= words
              /\ Element(list, i) = Place(g.at.seg, g.at.word + 1 + i * (d + p))
  <2>1. i \in Nat /\ i < n /\ d + p \in Nat  OBVIOUS
  <2>2. i * (d + p) \in Nat /\ i * (d + p) + (d + p) <= n * (d + p)  BY <2>1, Products
  <2>3. list.at = first /\ list.dwords = d /\ list.pwords = p  BY DEF StructsAt, Object
  <2>4. first.seg = g.at.seg /\ first.word = g.at.word + 1  BY DEF Place
  <2> QED BY <2>2, <2>3, <2>4 DEF Element, words
<1>o. /\ ObjectPtrs(list) = UNION {PtrPlaces(Element(list, i), d, p) : i \in 0 .. (n - 1)}
      /\ ObjectData(list) = UNION {DataPlaces(Element(list, i), d) : i \in 0 .. (n - 1)}
  BY StructListIs
<1> HIDE DEF list
<1>12. ASSUME NEW x \in ptrs
       PROVE  \E i \in 0 .. (n - 1), j \in 0 .. (p - 1) :
                x = Place(g.at.seg, g.at.word + (1 + i * (d + p) + d + j))
  <2>1. PICK i \in 0 .. (n - 1) : x \in PtrPlaces(Element(list, i), d, p)  OBVIOUS
  <2>2. PICK m \in Nat : m = i * (d + p) /\ Element(list, i) = Place(g.at.seg, g.at.word + 1 + m)
    BY <1>11
  <2>3. PICK j \in 0 .. (p - 1) : x = Place(g.at.seg, g.at.word + 1 + m + d + j)
    BY <2>1, <2>2 DEF PtrPlaces, Place
  <2>4. g.at.word + 1 + m + d + j = g.at.word + (1 + m + d + j)  BY <1>8
  <2> QED BY <2>2, <2>3, <2>4
<1>13. DOMAIN data = UNION {DataPlaces(x, d) : x \in elems}  BY DEF Blank
<1>14. ASSUME NEW x \in DOMAIN data
       PROVE  \E i \in 0 .. (n - 1), j \in 0 .. (d - 1) :
                x = Place(g.at.seg, g.at.word + (1 + i * (d + p) + j))
  <2>1. PICK i \in 0 .. (n - 1) : x \in DataPlaces(Element(list, i), d)  BY <1>13
  <2>2. PICK m \in Nat : m = i * (d + p) /\ Element(list, i) = Place(g.at.seg, g.at.word + 1 + m)
    BY <1>11
  <2>3. PICK j \in 0 .. (d - 1) : x = Place(g.at.seg, g.at.word + 1 + m + j)
    BY <2>1, <2>2 DEF DataPlaces, Place
  <2>4. g.at.word + 1 + m + j = g.at.word + (1 + m + j)  BY <1>8
  <2> QED BY <2>2, <2>3, <2>4
<1>p. ObjectPtrs(list) = ptrs /\ ObjectData(list) = DOMAIN data
  <2>1. UNION {PtrPlaces(Element(list, i), d, p) : i \in 0 .. (n - 1)} = ptrs  BY Zenon
  <2>2. UNION {DataPlaces(Element(list, i), d) : i \in 0 .. (n - 1)} = DOMAIN data  BY <1>13, Zenon
  <2> HIDE DEF ptrs, data
  <2> QED BY <1>o, <2>1, <2>2
<1> HIDE DEF elems, ptrs, data
<1>15. ASSUME NEW x \in ptrs
       PROVE  InArena(sg, x) /\ x \notin DOMAIN st.vals /\ x \notin DOMAIN st.built
  <2>1. PICK i \in 0 .. (n - 1), j \in 0 .. (p - 1) :
          x = Place(g.at.seg, g.at.word + (1 + i * (d + p) + d + j))
    BY <1>12
  <2>2. PICK m \in Nat : m = i * (d + p) /\ m + (d + p) <= words  BY <1>11
  <2>3. 1 + m + d + j \in Nat /\ 1 + m + d + j < 1 + words  BY <2>2, <1>2
  <2> QED BY <2>1, <2>2, <2>3, <1>10
<1>16. ASSUME NEW x \in DOMAIN data
       PROVE  InArena(sg, x) /\ x \notin DOMAIN st.built /\ x \notin DOMAIN st.vals
  <2>1. PICK i \in 0 .. (n - 1), j \in 0 .. (d - 1) :
          x = Place(g.at.seg, g.at.word + (1 + i * (d + p) + j))
    BY <1>14
  <2>2. PICK m \in Nat : m = i * (d + p) /\ m + (d + p) <= words  BY <1>11
  <2>3. 1 + m + j \in Nat /\ 1 + m + j < 1 + words  BY <2>2, <1>2
  <2> QED BY <2>1, <2>2, <2>3, <1>10
<1>17. ptrs \cap DOMAIN data = {}
  <2>1. SUFFICES ASSUME NEW x \in ptrs, x \in DOMAIN data PROVE FALSE  OBVIOUS
  <2>2. PICK i \in 0 .. (n - 1), j \in 0 .. (p - 1) :
          x = Place(g.at.seg, g.at.word + (1 + i * (d + p) + d + j))
    BY <1>12
  <2>3. PICK k \in 0 .. (n - 1), l \in 0 .. (d - 1) :
          x = Place(g.at.seg, g.at.word + (1 + k * (d + p) + l))
    BY <1>14, <2>1
  <2>4. i \in Nat /\ k \in Nat /\ d + p \in Nat  OBVIOUS
  <2>5. PICK a \in Nat : a = i * (d + p)  BY <1>11
  <2>6. PICK b \in Nat : b = k * (d + p)  BY <1>11
  <2>7. g.at.word + (1 + a + d + j) = g.at.word + (1 + b + l)
    BY <2>2, <2>3, <2>5, <2>6 DEF Place
  <2>8. a + d + j = b + l  BY <2>7, <1>8
  <2>9. i < k => a + (d + p) <= b  BY <2>4, <2>5, <2>6, Products
  <2>10. k < i => b + (d + p) <= a  BY <2>4, <2>5, <2>6, Products
  <2>11. i = k => a = b  BY <2>5, <2>6
  <2>12. i < k \/ k < i \/ i = k  BY <2>4
  <2>13. j \in Nat /\ j < p /\ l \in Nat /\ l < d  OBVIOUS
  <2> QED BY ONLY <2>8, <2>9, <2>10, <2>11, <2>12, <2>13, d \in Nat, p \in Nat, a \in Nat, b \in Nat
<1>18. PICK r : r = Learned(st, place, list, ptrs, data, sg)  OBVIOUS
<1>19. GoodState(r)
  <2>1. /\ ObjectPtrs(list) \subseteq ptrs /\ ObjectData(list) \subseteq DOMAIN data
        /\ \A x \in ObjectWords(list) : x \notin DOMAIN st.built /\ x \notin DOMAIN st.vals
    BY <1>p, <1>15, <1>16 DEF ObjectWords
  <2> QED BY <2>1, <1>9, <1>10, <1>15, <1>16, <1>17, <1>18, KnowHolds
<1> QED BY <1>1, <1>18, <1>19

\* What SetListText takes: the words of a text, which counts its NUL.
IsText(t) ==
  /\ t.length \in Nat
  /\ t.words \in Seq(WireWord)
  /\ Len(t.words) = ListWords("byte", t.length + 1)

\* One text of SetListText: acc is how far it has got.
PutText(acc, at, texts, i) ==
  IF acc.ok /\ Fits(acc.st.segs, Len(texts[i].words))
  THEN [acc EXCEPT !.st = PutList(@, Place(at.seg, at.word + i - 1),
                                  "byte", texts[i].length + 1, texts[i].words)]
  ELSE [acc EXCEPT !.ok = FALSE]

\* How far SetListText gets, text by text.
Stages(f, empty, at, texts) ==
  f = [i \in 0 .. Len(texts) |->
         IF i = 0 THEN [ok |-> TRUE, st |-> empty] ELSE PutText(f[i - 1], at, texts, i)]

\* There are such stages.
LEMMA StagesExist ==
  ASSUME NEW empty, NEW at, NEW texts, Len(texts) \in Nat
  PROVE  \E f : Stages(f, empty, at, texts)
<1> DEFINE Upto(f, n) ==
             f = [i \in 0 .. n |->
                    IF i = 0 THEN [ok |-> TRUE, st |-> empty] ELSE PutText(f[i - 1], at, texts, i)]
           S == {n \in Nat : \E f : Upto(f, n)}
<1>1. 0 \in S
  <2> DEFINE f == [i \in 0 .. 0 |-> [ok |-> TRUE, st |-> empty]]
  <2>1. Upto(f, 0)  OBVIOUS
  <2> QED BY <2>1
<1>2. ASSUME NEW n \in Nat, n \in S PROVE n + 1 \in S
  <2>1. PICK f : Upto(f, n)  BY <1>2
  <2> DEFINE h == [i \in 0 .. (n + 1) |-> IF i <= n THEN f[i] ELSE PutText(f[n], at, texts, n + 1)]
  <2>2. /\ DOMAIN f = 0 .. n
        /\ \A i \in 0 .. n :
             f[i] = IF i = 0 THEN [ok |-> TRUE, st |-> empty] ELSE PutText(f[i - 1], at, texts, i)
    BY <2>1, Zenon
  <2>3. \A i \in 0 .. (n + 1) :
          h[i] = IF i = 0 THEN [ok |-> TRUE, st |-> empty] ELSE PutText(h[i - 1], at, texts, i)
    <3>1. SUFFICES ASSUME NEW i \in 0 .. (n + 1)
                   PROVE  h[i] = IF i = 0 THEN [ok |-> TRUE, st |-> empty]
                                 ELSE PutText(h[i - 1], at, texts, i)
      OBVIOUS
    <3>2. /\ \A j \in 0 .. n : h[j] = f[j]
          /\ h[n + 1] = PutText(f[n], at, texts, n + 1)
      OBVIOUS
    <3> HIDE DEF h
    <3>3. CASE i = n + 1
      <4>1. i # 0 /\ i - 1 = n /\ n \in 0 .. n  BY <3>3
      <4> QED BY <3>2, <3>3, <4>1
    <3>4. CASE i = 0
      <4>1. 0 \in 0 .. n  OBVIOUS
      <4>2. h[0] = f[0] /\ f[0] = [ok |-> TRUE, st |-> empty]  BY <4>1, <2>2, <3>2
      <4> QED BY <3>4, <4>2
    <3>5. CASE i # n + 1 /\ i # 0
      <4>1. i \in 0 .. n /\ i - 1 \in 0 .. n  BY <3>5
      <4>2. f[i] = PutText(f[i - 1], at, texts, i)  BY <4>1, <3>5, <2>2
      <4>3. h[i] = f[i] /\ h[i - 1] = f[i - 1]  BY <4>1, <3>2
      <4> QED BY <4>2, <4>3, <3>5
    <3> QED BY <3>3, <3>4, <3>5
  <2>4. h = [i \in 0 .. (n + 1) |-> h[i]]  OBVIOUS
  <2> HIDE DEF h
  <2>5. Upto(h, n + 1)  BY <2>3, <2>4, Zenon
  <2>6. n + 1 \in Nat  OBVIOUS
  <2> HIDE DEF Upto
  <2> QED BY <2>5, <2>6
<1>3. Nat \subseteq S
  <2> HIDE DEF S
  <2> QED BY <1>1, <1>2, Climb
<1>4. PICK f : Upto(f, Len(texts))  BY <1>3
<1>5. Stages(f, empty, at, texts)  BY <1>4, Zenon DEF Stages
<1> QED BY <1>5

\* Each stage is good, and keeps the words of the list.
LEMMA StagesHold ==
  ASSUME LimitOK, NEW empty, GoodState(empty), NEW at \in Places, NEW texts,
         Len(texts) \in Nat,
         \A i \in 1 .. Len(texts) : IsText(texts[i]),
         \A i \in 1 .. Len(texts) : Place(at.seg, at.word + i - 1) \in DOMAIN empty.built,
         NEW f, Stages(f, empty, at, texts)
  PROVE  GoodState(f[Len(texts)].st)
<1> DEFINE Good(acc) ==
             /\ acc = [ok |-> acc.ok, st |-> acc.st]
             /\ GoodState(acc.st)
             /\ DOMAIN empty.built \subseteq DOMAIN acc.st.built
           S == {n \in Nat : n <= Len(texts) => Good(f[n])}
<1>0. \A i \in 0 .. Len(texts) :
        f[i] = IF i = 0 THEN [ok |-> TRUE, st |-> empty] ELSE PutText(f[i - 1], at, texts, i)
  BY Zenon DEF Stages
<1>1. 0 \in S
  <2>1. f[0] = [ok |-> TRUE, st |-> empty]
    <3>1. 0 \in 0 .. Len(texts)  OBVIOUS
    <3>2. f[0] = IF 0 = 0 THEN [ok |-> TRUE, st |-> empty] ELSE PutText(f[0 - 1], at, texts, 0)
      BY <1>0, <3>1, Zenon
    <3> QED BY ONLY <3>2, Zenon
  <2>2. f[0].ok = TRUE /\ f[0].st = empty  BY <2>1
  <2> QED BY <2>1, <2>2
<1>2. ASSUME NEW n \in Nat, n \in S PROVE n + 1 \in S
  <2>1. SUFFICES ASSUME n + 1 <= Len(texts) PROVE Good(f[n + 1])  BY <1>2
  <2>2. Good(f[n])  BY <1>2, <2>1
  <2>3. f[n + 1] = PutText(f[n], at, texts, n + 1)
    <3>1. n + 1 \in 0 .. Len(texts) /\ n + 1 # 0 /\ (n + 1) - 1 = n  BY <2>1
    <3> QED BY <1>0, <3>1
  <2>4. PICK b, s : f[n] = [ok |-> b, st |-> s]  BY <2>2
  <2>5. f[n].ok = b /\ f[n].st = s /\ GoodState(s) /\ DOMAIN empty.built \subseteq DOMAIN s.built
    BY <2>2, <2>4
  <2>6. CASE ~(f[n].ok /\ Fits(f[n].st.segs, Len(texts[n + 1].words)))
    <3>1. f[n + 1] = [f[n] EXCEPT !.ok = FALSE]  BY <2>3, <2>6, Zenon DEF PutText
    <3>2. PICK w : w = FALSE  OBVIOUS
    <3>3. f[n + 1] = [ok |-> w, st |-> s] /\ f[n + 1].ok = w /\ f[n + 1].st = s
      <4>1. f[n + 1] = [f[n] EXCEPT !.ok = w]  BY ONLY <3>1, <3>2, Zenon
      <4>2. f[n + 1] = [ok |-> w, st |-> s]  BY ONLY <4>1, <2>4
      <4> QED BY ONLY <4>2
    <3> QED BY <2>5, <3>3
  <2>7. CASE f[n].ok /\ Fits(f[n].st.segs, Len(texts[n + 1].words))
    <3> DEFINE p == Place(at.seg, at.word + (n + 1) - 1)
               q == PutList(s, p, "byte", texts[n + 1].length + 1, texts[n + 1].words)
    <3>1. f[n + 1] = [f[n] EXCEPT !.st = PutList(@, p, "byte", texts[n + 1].length + 1, texts[n + 1].words)]
      BY <2>3, <2>7, Zenon DEF PutText
    <3>2. f[n + 1] = [ok |-> b, st |-> q]  BY ONLY <3>1, <2>4
    <3>3. f[n + 1].ok = b /\ f[n + 1].st = q  BY <3>2
    <3>4. n + 1 \in 1 .. Len(texts)  BY <2>1
    <3>5. /\ texts[n + 1].length + 1 \in Nat /\ texts[n + 1].words \in Seq(WireWord)
          /\ Len(texts[n + 1].words) = ListWords("byte", texts[n + 1].length + 1)
      BY <3>4 DEF IsText
    <3>6. p \in DOMAIN s.built  BY <3>4, <2>5
    <3>7. "byte" \in DOMAIN Bits \ {"ptr"}  BY DEF Bits
    <3>8. Fits(s.segs, Len(texts[n + 1].words))  BY <2>5, <2>7
    <3>9. GoodState(q) /\ DOMAIN s.built \subseteq DOMAIN q.built
      <4> HIDE DEF p
      <4> QED BY <2>5, <3>5, <3>6, <3>7, <3>8, PutListHolds
    <3> HIDE DEF q
    <3> QED BY <2>5, <3>2, <3>3, <3>9
  <2> QED BY <2>6, <2>7
<1>3. Nat \subseteq S
  <2> HIDE DEF S
  <2> QED BY <1>1, <1>2, Climb
<1>4. Len(texts) \in S  BY <1>3
<1>5. Good(f[Len(texts)])
  <2> HIDE DEF Good
  <2>1. Len(texts) <= Len(texts)  OBVIOUS
  <2> QED BY <1>4, <2>1
<1> QED BY <1>5

\* capnp_builder_set_list_text_n
LEMMA ListTextHolds ==
  ASSUME LimitOK, NEW st, GoodState(st), NEW place \in DOMAIN st.built, NEW texts,
         Len(texts) \in Nat, Fits(st.segs, Len(texts)),
         \A i \in 1 .. Len(texts) : IsText(texts[i])
  PROVE  GoodState(ListTextOn(st, place, texts))
<1> DEFINE n == Len(texts)
           g == IF n = 0
                THEN [segs |-> st.segs, at |-> Place(place.seg, place.word + 1)]
                ELSE AllocWords(st.segs, n)
           ptr == MakeList(0, "ptr", n)
           ptrs == PtrPlaces(g.at, 0, n)
           sg == WritePtr(g.segs, place, g.at, ptr)
           obj == ListAt(g.at, "ptr", n)
           empty == Learned(st, place, obj, ptrs, Blank({}), sg)
<1>1. \E f : Stages(f, empty, g.at, texts) /\ ListTextOn(st, place, texts) = f[n].st
  <2> DEFINE Put(acc, i) ==
               IF acc.ok /\ Fits(acc.st.segs, Len(texts[i].words))
               THEN [acc EXCEPT !.st = PutList(@, Place(g.at.seg, g.at.word + i - 1),
                                               "byte", texts[i].length + 1, texts[i].words)]
               ELSE [acc EXCEPT !.ok = FALSE]
             Base == [Know(st, place, obj, ptrs, Blank({})) EXCEPT !.segs = sg]
             f == CHOOSE h : h = [i \in 0 .. n |->
                                    IF i = 0 THEN [ok |-> TRUE, st |-> Base] ELSE Put(h[i - 1], i)]
  <2>1. ListTextOn(st, place, texts) = f[n].st  BY Zenon DEF ListTextOn
  <2>2. Base = empty  BY Zenon DEF Learned
  <2>3. \A acc, i : Put(acc, i) = PutText(acc, g.at, texts, i)  BY Zenon DEF PutText
  <2>4. PICK h : Stages(h, empty, g.at, texts)  BY StagesExist
  <2> HIDE DEF Base, g, empty
  <2>5. h = [i \in 0 .. n |-> IF i = 0 THEN [ok |-> TRUE, st |-> Base] ELSE Put(h[i - 1], i)]
    BY <2>2, <2>4, Zenon DEF Stages, PutText
  <2>6. f = [i \in 0 .. n |-> IF i = 0 THEN [ok |-> TRUE, st |-> Base] ELSE Put(f[i - 1], i)]
    BY <2>5, Zenon
  <2> HIDE DEF f
  <2>7. Stages(f, empty, g.at, texts)  BY <2>2, <2>6, Zenon DEF Stages, PutText
  <2> QED BY <2>1, <2>7
<1>2. \A off \in Int : [ptr EXCEPT !.off = off] \in WireWord
  <2>1. 0 \in Int /\ "ptr" \in DOMAIN Bits \cup {"composite"}  BY DEF Bits
  <2> QED BY <2>1, WordsTyped, Zenon
<1>3. GoodSegs(st.segs) /\ InArena(st.segs, place)  BY DEF GoodState
<1>4. /\ g.at \in Places /\ GoodSegs(sg) /\ Grows(st.segs, sg)
      /\ \A x \in ptrs : InArena(sg, x) /\ x \notin DOMAIN st.vals /\ x \notin DOMAIN st.built
      /\ \A i \in 1 .. n : Place(g.at.seg, g.at.word + i - 1) \in ptrs
  <2>1. CASE n = 0
    <3>1. g.segs = st.segs /\ g.at = Place(place.seg, place.word + 1)  BY <2>1
    <3>2. place \in Places /\ place.seg < Len(st.segs)  BY <1>3 DEF InArena, Places
    <3>3. g.at \in Places /\ g.at.seg < Len(st.segs)  BY <3>1, <3>2 DEF Place, Places
    <3>4. ptrs = {}  BY <2>1 DEF PtrPlaces
    <3> HIDE DEF g, ptr, ptrs
    <3>5. GoodSegs(sg) /\ Grows(st.segs, sg)  BY <3>1, <3>3, <1>2, <1>3, WritePtrHolds
    <3> QED BY <3>3, <3>4, <3>5, <2>1
  <2>2. CASE n # 0
    <3>1. g = AllocWords(st.segs, n)  BY <2>2
    <3>2. New(st.segs, g.segs, g.at, n)  BY <3>1, <1>3, AllocHolds
    <3> HIDE DEF g, ptr
    <3>3. GoodSegs(g.segs) /\ Grows(st.segs, g.segs) /\ g.at \in Places /\ g.at.seg < Len(g.segs)
      BY <3>2 DEF New
    <3>4. InArena(g.segs, place)  BY <3>3, <1>3, InArenaGrows
    <3>5. GoodSegs(sg) /\ Grows(g.segs, sg)  BY <3>3, <3>4, <1>2, WritePtrHolds
    <3> HIDE DEF sg
    <3>6. /\ Grows(st.segs, sg)
          /\ \A i \in Nat : i < n => InArena(sg, Place(g.at.seg, g.at.word + i))
          /\ \A i \in Nat : /\ Place(g.at.seg, g.at.word + i) \notin DOMAIN st.built
                            /\ Place(g.at.seg, g.at.word + i) \notin DOMAIN st.vals
      BY <3>2, <3>5, NewWords
    <3>7. g.at.word \in Nat  BY <3>3 DEF Places
    <3>8. ptrs = {Place(g.at.seg, g.at.word + i) : i \in 0 .. (n - 1)}
      <4>1. g.at.word + 0 = g.at.word  BY <3>7
      <4> QED BY <4>1 DEF PtrPlaces
    <3>9. ASSUME NEW x \in ptrs
          PROVE  InArena(sg, x) /\ x \notin DOMAIN st.vals /\ x \notin DOMAIN st.built
      <4>1. PICK i \in 0 .. (n - 1) : x = Place(g.at.seg, g.at.word + i)  BY <3>8
      <4>2. i \in Nat /\ i < n  OBVIOUS
      <4> QED BY <4>1, <4>2, <3>6
    <3>10. ASSUME NEW i \in 1 .. n PROVE Place(g.at.seg, g.at.word + i - 1) \in ptrs
      <4>1. i - 1 \in 0 .. (n - 1) /\ g.at.word + i - 1 = g.at.word + (i - 1)  BY <3>7
      <4> QED BY <4>1, <3>8
    <3> HIDE DEF ptrs, n
    <3> QED BY <3>3, <3>5, <3>6, <3>9, <3>10
  <2> QED BY <2>1, <2>2
<1>o. ObjectPtrs(obj) = ptrs /\ ObjectData(obj) = {} /\ ObjectWords(obj) = ptrs
  BY PtrListIs DEF ObjectWords
<1> HIDE DEF g, sg, ptrs, obj
<1>5. GoodState(empty) /\ DOMAIN empty.built = DOMAIN st.built \cup ptrs
  <2>1. DOMAIN Blank({}) = {}  BY DEF Blank
  <2>2. PICK B : B = Blank({})  OBVIOUS
  <2>3. DOMAIN B = {}  BY <2>1, <2>2
  <2>4. ptrs \cap DOMAIN B = {} /\ \A x \in DOMAIN B : InArena(sg, x) /\ x \notin DOMAIN st.built
    BY <2>3
  <2>5. empty = Learned(st, place, obj, ptrs, B, sg)  BY <2>2
  <2> HIDE DEF empty
  <2>6. /\ ObjectPtrs(obj) \subseteq ptrs /\ ObjectData(obj) \subseteq DOMAIN B
        /\ \A x \in ObjectWords(obj) : x \notin DOMAIN st.built /\ x \notin DOMAIN st.vals
    BY <1>o, <1>4
  <2> QED BY <1>4, <2>4, <2>5, <2>6, KnowHolds
<1> HIDE DEF empty
<1>6. PICK f : Stages(f, empty, g.at, texts) /\ ListTextOn(st, place, texts) = f[n].st
  BY <1>1
<1>7. \A i \in 1 .. Len(texts) : Place(g.at.seg, g.at.word + i - 1) \in DOMAIN empty.built
  BY <1>4, <1>5
<1>8. GoodState(f[Len(texts)].st)  BY <1>4, <1>5, <1>6, <1>7, StagesHold
<1> QED BY <1>6, <1>8

-----------------------------------------------------------------------------
(* The invariant *)

\* A state of the builder that every step leads to another of.
BuilderInv ==
  /\ GoodState(State)
  /\ maxSeg \in Limits \cup {0}
  /\ single \in BOOLEAN

\* The limit that was set is one.
LEMMA LimitHolds ==
  ASSUME maxSeg \in Limits \cup {0}
  PROVE  LimitOK
<1>1. Ceiling \in Nat /\ Ceiling > 0 /\ Limits \subseteq Nat  BY BuilderAssumption
<1>2. LimWords \in Nat /\ LimWords > 0  BY <1>1 DEF LimWords
<1>3. LimWords = Ceiling \/ LimWords \in Limits  BY DEF LimWords
<1>4. Allowed(LimWords)  BY <1>1, <1>2, <1>3 DEF Allowed
<1> QED BY <1>2, <1>4 DEF LimitOK

\* The fields of State.
LEMMA StateIs ==
  State.segs = segs /\ State.built = built /\ State.vals = vals
BY DEF State

\* capnp_builder_init_sized
LEMMA InitHolds ==
  ASSUME Init
  PROVE  BuilderInv
<1>1. PICK n \in FirstSizes : segs = <<[words |-> <<>>, cap |-> MinOf(MaxOf(n, 1), Ceiling)]>>
  BY DEF Init
<1> DEFINE c == MinOf(MaxOf(n, 1), Ceiling)
           g == [words |-> <<>>, cap |-> c]
<1>2. c \in Nat \ {0} /\ c <= Ceiling
  <2>1. n \in Nat /\ Ceiling \in Nat \ {0, 1}  BY BuilderAssumption
  <2> QED BY <2>1 DEF MinOf, MaxOf
<1> HIDE DEF c
<1>3. <<>> \in Seq(WireWord) /\ Len(<<>>) = 0  BY EmptySeq
<1>4. g \in Segment /\ Within(g)  BY <1>2, <1>3 DEF Segment, Within, Allowed
<1>5. segs = <<g>>  BY <1>1 DEF c
<1> HIDE DEF g
<1>6. GoodSegs(segs)
  <2>1. segs \in Seq(Segment) /\ Len(segs) = 1 /\ segs[1] = g  BY <1>4, <1>5
  <2> QED BY <2>1, <1>4 DEF GoodSegs
<1>7. DOMAIN built = {} /\ DOMAIN vals = {}  BY DEF Init
<1>8. IsState(State)  BY StateIs DEF IsState, State
<1>9. GoodState(State)  BY <1>6, <1>7, <1>8, StateIs DEF GoodState
<1> QED BY <1>9 DEF Init, BuilderInv

\* What an operation makes of the state is the next one.
LEMMA BecomesHolds ==
  ASSUME BuilderInv, NEW st, GoodState(st), Becomes(st)
  PROVE  BuilderInv'
<1>1. /\ segs' = st.segs /\ built' = st.built /\ vals' = st.vals
      /\ maxSeg' = maxSeg /\ single' = single
  BY DEF Becomes
<1>2. State' = st  BY <1>1 DEF GoodState, IsState, State
<1>3. GoodState(State)'  BY <1>2 DEF GoodState, IsState, GoodSegs, Within, Segment, InArena, Used
<1> QED BY <1>1, <1>3 DEF BuilderInv

\* Every step keeps the invariant.
LEMMA NextHolds ==
  ASSUME BuilderInv, [Next]_vars
  PROVE  BuilderInv'
<1> USE StateIs
<1>1. LimitOK  BY LimitHolds DEF BuilderInv
<1>2. GoodState(State)  BY DEF BuilderInv
<1>3. ASSUME NEW n \in Limits, SetMaxSegWords(n) PROVE BuilderInv'
  <2>1. /\ segs' = segs /\ built' = built /\ vals' = vals
        /\ maxSeg' = n /\ single' = single
    BY <1>3 DEF SetMaxSegWords
  <2>2. State' = State  BY <2>1 DEF State
  <2>3. GoodState(State)'  BY <1>2, <2>2 DEF GoodState, IsState, GoodSegs, Within, Segment, InArena, Used
  <2> QED BY <2>1, <2>3 DEF BuilderInv
<1>4. CASE Root
  <2>1. Fits(State.segs, 1) /\ Becomes(RootOn(State))  BY <1>4 DEF Root
  <2>2. GoodState(RootOn(State))  BY <1>1, <1>2, <2>1, RootHolds
  <2> QED BY <2>1, <2>2, BecomesHolds
<1>5. ASSUME NEW place \in DOMAIN built, NEW s \in Structs, Struct(place, s[1], s[2])
      PROVE  BuilderInv'
  <2>1. s[1] \in Nat /\ s[2] \in Nat  BY BuilderAssumption
  <2>2. Fits(State.segs, s[1] + s[2]) /\ Becomes(StructOn(State, place, s[1], s[2]))
    BY <1>5 DEF Struct
  <2>3. GoodState(StructOn(State, place, s[1], s[2]))  BY <1>1, <1>2, <2>1, <2>2, StructHolds
  <2> QED BY <2>2, <2>3, BecomesHolds
<1>6. ASSUME NEW place \in DOMAIN built, NEW l \in Lists, NEW v \in Payloads,
             SetList(place, l[1], l[2], Copies(ListWords(l[1], l[2]), Data(v)))
      PROVE  BuilderInv'
  <2> DEFINE ws == Copies(ListWords(l[1], l[2]), Data(v))
  <2>1. l[1] \in DOMAIN Bits \ {"ptr"} /\ l[2] \in Nat  BY BuilderAssumption
  <2>2. Data(v) \in WireWord  BY WordsTyped
  <2>3. ListWords(l[1], l[2]) \in Nat  BY <2>1, ListWordsNat
  <2>4. ws \in Seq(WireWord) /\ Len(ws) = ListWords(l[1], l[2])  BY <2>2, <2>3, CopiesTyped
  <2>5. Fits(State.segs, Len(ws)) /\ Becomes(PutList(State, place, l[1], l[2], ws))
    BY <1>6 DEF SetList
  <2> HIDE DEF ws
  <2>6. GoodState(PutList(State, place, l[1], l[2], ws))
    BY <1>1, <1>2, <2>1, <2>4, <2>5, PutListHolds
  <2> QED BY <2>5, <2>6, BecomesHolds
<1>7. ASSUME NEW place \in DOMAIN built, NEW t \in Texts, NEW v \in Payloads,
             SetListText(place, [i \in DOMAIN t |->
               [length |-> t[i], words |-> Copies(ListWords("byte", t[i] + 1), Data(v))]])
      PROVE  BuilderInv'
  <2> DEFINE texts == [i \in DOMAIN t |->
               [length |-> t[i], words |-> Copies(ListWords("byte", t[i] + 1), Data(v))]]
  <2>1. t \in Seq(Nat)  BY BuilderAssumption
  <2>2. Len(t) \in Nat /\ DOMAIN t = 1 .. Len(t)  BY <2>1, LenProperties
  <2>3. ASSUME NEW i \in 1 .. Len(t)
        PROVE  IsText(texts[i])
    <3>1. t[i] \in Nat  BY <2>1, ElementOfSeq
    <3>2. "byte" \in DOMAIN Bits /\ t[i] + 1 \in Nat  BY <3>1 DEF Bits
    <3>3. ListWords("byte", t[i] + 1) \in Nat  BY <3>2, ListWordsNat
    <3>4. Data(v) \in WireWord  BY WordsTyped
    <3>5. /\ Copies(ListWords("byte", t[i] + 1), Data(v)) \in Seq(WireWord)
          /\ Len(Copies(ListWords("byte", t[i] + 1), Data(v))) = ListWords("byte", t[i] + 1)
      BY <3>3, <3>4, CopiesTyped
    <3>6. /\ texts[i].length = t[i]
          /\ texts[i].words = Copies(ListWords("byte", t[i] + 1), Data(v))
      BY <2>2
    <3> HIDE DEF texts
    <3> QED BY <3>1, <3>5, <3>6 DEF IsText
  <2>4. DOMAIN texts = 1 .. Len(t)  BY <2>2
  <2>5. Fits(State.segs, Len(texts)) /\ Becomes(ListTextOn(State, place, texts))
    BY <1>7 DEF SetListText
  <2>6. Len(texts) = Len(t)  BY <2>2
  <2> HIDE DEF texts
  <2>7. Len(texts) \in Nat  BY <2>2, <2>6
  <2>8. \A i \in 1 .. Len(texts) : IsText(texts[i])
    BY <2>3, <2>6
  <2>9. GoodState(ListTextOn(State, place, texts))
    BY <1>1, <1>2, <2>5, <2>7, <2>8, ListTextHolds
  <2> QED BY <2>5, <2>9, BecomesHolds
<1>8. ASSUME NEW place \in DOMAIN built, NEW l \in StructLists,
             SetListStruct(place, l[1], l[2], l[3])
      PROVE  BuilderInv'
  <2>1. l[1] \in Nat /\ l[2] \in Nat /\ l[3] \in Nat  BY BuilderAssumption
  <2>2. /\ Fits(State.segs, 1 + l[1] * (l[2] + l[3]))
        /\ Becomes(ListStructOn(State, place, l[1], l[2], l[3]))
    BY <1>8 DEF SetListStruct
  <2>3. GoodState(ListStructOn(State, place, l[1], l[2], l[3]))
    BY <1>1, <1>2, <2>1, <2>2, ListStructHolds
  <2> QED BY <2>2, <2>3, BecomesHolds
<1>9. ASSUME NEW place, InArena(State.segs, place), NEW w \in WireWord, NEW obj,
             ObjectPtrs(obj) = {}, ObjectData(obj) = {}, NEW data,
             DOMAIN data \subseteq DOMAIN State.vals,
             Becomes(Learned(State, place, obj, {}, data, Store(State.segs, place, w)))
      PROVE  BuilderInv'
  <2>1. GoodState(Learned(State, place, obj, {}, data, Store(State.segs, place, w)))
    BY <1>2, <1>9, PutWordHolds
  <2> QED BY <1>9, <2>1, BecomesHolds
<1>10. \A place \in DOMAIN built \cup DOMAIN vals : InArena(State.segs, place)
  BY <1>2 DEF GoodState
<1>11. DOMAIN Blank({}) \subseteq DOMAIN State.vals  BY DEF Blank
<1>12. ASSUME NEW place \in DOMAIN built, SetCap(place, 1) PROVE BuilderInv'
  <2>1. MakeCap(1) \in WireWord
    <3>1. 1 \in Nat  OBVIOUS
    <3> QED BY <3>1, WordsTyped, Zenon
  <2>2. Becomes(Learned(State, place, CapAt(place, 1), {}, Blank({}),
                        Store(State.segs, place, MakeCap(1))))
    BY <1>12, Zenon DEF SetCap, Learned
  <2> QED BY <1>9, <1>10, <1>11, <2>1, <2>2, EmptyObjects
<1>13. ASSUME NEW place \in DOMAIN built, ClearPtr(place) PROVE BuilderInv'
  <2>1. Becomes(Learned(State, place, NullAt(place), {}, Blank({}),
                        Store(State.segs, place, Zero)))
    BY <1>13, Zenon DEF ClearPtr, Learned
  <2> QED BY <1>9, <1>10, <1>11, <2>1, WordsTyped, EmptyObjects
<1>14. ASSUME NEW place \in DOMAIN vals, NEW v \in Payloads, SetData(place, Data(v))
       PROVE  BuilderInv'
  <2> DEFINE data == [x \in {place} |-> Data(v)]
  <2>1. Becomes(Learned(State, place, Zero, {}, data, Store(State.segs, place, Data(v))))
    BY <1>14, Zenon DEF SetData, Learned
  <2>2. DOMAIN data \subseteq DOMAIN State.vals  OBVIOUS
  <2>3. Data(v) \in WireWord  BY WordsTyped
  <2> HIDE DEF data
  <2> QED BY <1>9, <1>10, <2>1, <2>2, <2>3, EmptyObjects
<1>15. CASE Build
  BY <1>15, <1>5, <1>6, <1>7, <1>8, <1>12, <1>13, Zenon DEF Build
<1>16. CASE UNCHANGED vars
  <2>1. State' = State /\ maxSeg' = maxSeg /\ single' = single  BY <1>16 DEF State, vars
  <2>2. GoodState(State)'  BY <1>2, <2>1 DEF GoodState, IsState, GoodSegs, Within, Segment, InArena, Used
  <2> QED BY <2>1, <2>2 DEF BuilderInv
<1> QED BY <1>3, <1>4, <1>14, <1>15, <1>16, Zenon DEF Next, Write

\* The invariant says what the runs check.
LEMMA InvImplies ==
  ASSUME BuilderInv
  PROVE  TypeOK /\ WordsAllocated /\ CapsAllowed /\ ObjectsApart(DOMAIN built)
<1> USE StateIs
<1>1. GoodSegs(segs)  BY DEF BuilderInv, GoodState
<1>2. segs \in Seq([words : Seq(WireWord), cap : Nat \ {0}])  BY <1>1 DEF GoodSegs, Segment
<1>3. DOMAIN segs = 1 .. Len(segs)  BY <1>1, SegCount
<1>4. WordsAllocated /\ CapsAllowed
  BY <1>1, <1>3 DEF GoodSegs, Within, WordsAllocated, CapsAllowed
<1>5. TypeOK  BY <1>2 DEF TypeOK, BuilderInv, GoodState
<1>6. ObjectsApart(DOMAIN built)  BY Zenon DEF ObjectsApart, BuilderInv, GoodState, State
<1> QED BY <1>4, <1>5, <1>6

\* Every word an application was given, by any operation of the builder and
\* whatever grew since, is a word of the arena, given to it once, as a pointer or as
\* data; the arena holds nothing but words the builder writes.
THEOREM TypeCorrect == Spec => []TypeOK
<1>1. Init => BuilderInv  BY InitHolds
<1>2. BuilderInv /\ [Next]_vars => BuilderInv'  BY NextHolds
<1>3. BuilderInv => TypeOK  BY InvImplies
<1> QED BY <1>1, <1>2, <1>3, PTL DEF Spec

\* No segment uses more words than seg_ensure and alloc_words allocated for it, nor
\* is any larger than both CAPNP_BUILDER_MAX_SEGMENT_WORDS and all the limits the
\* application sets, below it or above, in whatever order it sets them and wherever
\* landing pads went.
THEOREM ArenaBounded == Spec => [](WordsAllocated /\ CapsAllowed)
<1>1. Init => BuilderInv  BY InitHolds
<1>2. BuilderInv /\ [Next]_vars => BuilderInv'  BY NextHolds
<1>3. BuilderInv => WordsAllocated /\ CapsAllowed  BY InvImplies
<1> QED BY <1>1, <1>2, <1>3, PTL DEF Spec

\* Every object that a pointer slot leads to, a struct, a list of pointers, of data
\* or of structs, consists of words that were given for it: no two objects share a
\* word, and no pointer word of one is a data word of another, wherever
\* alloc_words found room for them.
THEOREM ObjectsStayApart == Spec => []ObjectsApart(DOMAIN built)
<1>1. Init => BuilderInv  BY InitHolds
<1>2. BuilderInv /\ [Next]_vars => BuilderInv'  BY NextHolds
<1>3. BuilderInv => ObjectsApart(DOMAIN built)  BY InvImplies
<1> QED BY <1>1, <1>2, <1>3, PTL DEF Spec
=============================================================================
