----------------------------- MODULE RpcRefProofs -----------------------------
(***************************************************************************)
(* The references that vats hold on one another's exports, proved by       *)
(* double-entry: a step of an end that puts references into a frame, or    *)
(* promises one, has counted them before, and a step that hands references *)
(* back gives up what it held.                                             *)
(***************************************************************************)
EXTENDS RpcFlowProofs, SequenceTheorems, FunctionTheorems

-----------------------------------------------------------------------------
(* Sums *)

Tokens(w) == UNION {{i} \X (1 .. w[i]) : i \in DOMAIN w}

LEMMA TokensFacts ==
  ASSUME NEW w \in Seq(Nat)
  PROVE  /\ IsFiniteSet(Tokens(w))
         /\ \A t : t \in Tokens(w) <=> \E i \in DOMAIN w, k \in Nat \ {0} : k <= w[i] /\ t = <<i, k>>
<1> DEFINE n == Len(w)
           T(i) == {i} \X (1 .. w[i])
           F == [i \in 1 .. n |-> T(i)]
           S == {T(i) : i \in 1 .. n}
<1>1. n \in Nat /\ DOMAIN w = 1 .. n /\ \A i \in 1 .. n : w[i] \in Nat
  OBVIOUS
<1>2. Tokens(w) = UNION S
  BY <1>1 DEF Tokens
<1>3. IsFiniteSet(S)
  <2>1. F \in Surjection(1 .. n, S)
    <3> HIDE DEF T, n
    <3>1. F \in [1 .. n -> S] /\ \A t \in S : \E i \in 1 .. n : F[i] = t
      OBVIOUS
    <3> HIDE DEF F, S
    <3> QED BY <3>1, Fun_IsSurj
  <2>2. IsFiniteSet(1 .. n)
    BY <1>1, FS_Interval
  <2> HIDE DEF F, S, n
  <2> QED BY <2>1, <2>2, FS_Surjection
<1>4. ASSUME NEW i \in 1 .. n
      PROVE  IsFiniteSet(T(i))
  <2>1. w[i] \in Nat
    BY <1>1
  <2>2. IsFiniteSet(1 .. w[i])
    BY <2>1, FS_Interval
  <2>3. IsFiniteSet({i})
    BY FS_Singleton
  <2> QED BY <2>2, <2>3, FS_Product
<1>5. IsFiniteSet(UNION S)
  <2> HIDE DEF T, n
  <2>1. \A U \in S : IsFiniteSet(U)
    BY <1>4
  <2> HIDE DEF S
  <2> QED BY <1>3, <2>1, FS_UNION
<1>6. ASSUME NEW t
      PROVE  t \in UNION S <=> \E i \in DOMAIN w, k \in Nat \ {0} : k <= w[i] /\ t = <<i, k>>
  <2>1. \A i \in 1 .. n : \A u : u \in T(i) <=> \E k \in Nat \ {0} : k <= w[i] /\ u = <<i, k>>
    <3> SUFFICES ASSUME NEW i \in 1 .. n, NEW u
                 PROVE  u \in T(i) <=> \E k \in Nat \ {0} : k <= w[i] /\ u = <<i, k>>
      OBVIOUS
    <3>1. \A k : k \in 1 .. w[i] <=> k \in Nat \ {0} /\ k <= w[i]
      BY <1>1
    <3> QED BY <3>1
  <2> HIDE DEF T
  <2> QED BY <1>1, <2>1
<1> HIDE DEF S
<1> QED BY <1>2, <1>5, <1>6

\* A sum is a natural, at least each of its terms.
LEMMA TotalType ==
  ASSUME NEW w \in Seq(Nat)
  PROVE  /\ Total(w) \in Nat
         /\ \A i \in DOMAIN w : w[i] >= 1 => Total(w) >= 1
         /\ (\A i \in DOMAIN w : w[i] = 0) => Total(w) = 0
<1>1. IsFiniteSet(Tokens(w)) /\ Total(w) = Cardinality(Tokens(w))
  BY TokensFacts DEF Total, Tokens
<1>2. Cardinality(Tokens(w)) \in Nat /\ (Cardinality(Tokens(w)) = 0 <=> Tokens(w) = {})
  BY <1>1, FS_CardinalityType, FS_EmptySet
<1>3. DOMAIN w = 1 .. Len(w) /\ \A i \in DOMAIN w : w[i] \in Nat
  OBVIOUS
<1>4. ASSUME NEW i \in DOMAIN w, w[i] >= 1
      PROVE  Tokens(w) # {}
  <2>1. <<i, 1>> \in Tokens(w)
    <3>1. 1 \in Nat \ {0} /\ 1 <= w[i]
      BY <1>3, <1>4
    <3> QED BY <1>4, <3>1, TokensFacts
  <2> QED BY <2>1
<1>5. ASSUME \A i \in DOMAIN w : w[i] = 0
      PROVE  Tokens(w) = {}
  <2>1. \A t : t \notin Tokens(w)
    BY <1>5, TokensFacts
  <2> QED BY <2>1
<1> QED BY <1>1, <1>2, <1>4, <1>5

\* The sum of a concatenation.
LEMMA TotalConcat ==
  ASSUME NEW v \in Seq(Nat), NEW w \in Seq(Nat)
  PROVE  Total(v \o w) = Total(v) + Total(w)
<1> DEFINE n == Len(v)
           u == v \o w
           S == {t \in Tokens(u) : t[1] > n}
           F == [t \in Tokens(w) |-> <<t[1] + n, t[2]>>]
<1>1. /\ n \in Nat /\ DOMAIN v = 1 .. n /\ Len(w) \in Nat /\ DOMAIN w = 1 .. Len(w)
      /\ u \in Seq(Nat) /\ DOMAIN u = 1 .. (n + Len(w))
      /\ \A i \in 1 .. n : u[i] = v[i]
      /\ \A i \in 1 .. Len(w) : u[i + n] = w[i]
  <2>1. /\ u \in Seq(Nat) /\ Len(u) = n + Len(w)
        /\ \A i \in 1 .. (n + Len(w)) : u[i] = IF i <= n THEN v[i] ELSE w[i - n]
    BY ConcatProperties
  <2>2. n \in Nat /\ Len(w) \in Nat /\ DOMAIN v = 1 .. n /\ DOMAIN w = 1 .. Len(w)
    OBVIOUS
  <2>3. DOMAIN u = 1 .. (n + Len(w))
    BY <2>1
  <2> HIDE DEF u, n
  <2>4. \A i \in 1 .. n : i \in 1 .. (n + Len(w)) /\ i <= n
    BY <2>2
  <2>5. \A i \in 1 .. Len(w) : i + n \in 1 .. (n + Len(w)) /\ ~(i + n <= n) /\ (i + n) - n = i
    BY <2>2
  <2>6. \A i \in 1 .. n : u[i] = v[i]
    BY <2>1, <2>4
  <2>7. \A i \in 1 .. Len(w) : u[i + n] = w[i]
    <3> TAKE i \in 1 .. Len(w)
    <3>1. u[i + n] = w[(i + n) - n]
      BY <2>1, <2>5
    <3> QED BY <2>5, <3>1
  <2> QED BY <2>1, <2>2, <2>3, <2>6, <2>7
<1> HIDE DEF u, n
<1>0. \A t : t \in Tokens(u) <=> \E i \in DOMAIN u, k \in Nat \ {0} : k <= u[i] /\ t = <<i, k>>
  <2>1. u \in Seq(Nat)
    BY <1>1
  <2> QED BY <2>1, TokensFacts
<1>2. \A t : t \in Tokens(v) <=> t \in Tokens(u) /\ t[1] <= n
  <2>1. ASSUME NEW t \in Tokens(v)
        PROVE  t \in Tokens(u) /\ t[1] <= n
    <3>1. PICK i \in DOMAIN v, k \in Nat \ {0} : k <= v[i] /\ t = <<i, k>>
      BY TokensFacts
    <3>2. i \in DOMAIN u /\ k <= u[i] /\ i <= n
      BY <1>1, <3>1
    <3> QED BY <1>0, <3>1, <3>2
  <2>2. ASSUME NEW t \in Tokens(u), t[1] <= n
        PROVE  t \in Tokens(v)
    <3>1. PICK i \in DOMAIN u, k \in Nat \ {0} : k <= u[i] /\ t = <<i, k>>
      BY <1>0
    <3>2. i \in DOMAIN v /\ k <= v[i]
      BY <1>1, <2>2, <3>1
    <3> QED BY <3>1, <3>2, TokensFacts
  <2> QED BY <2>1, <2>2
<1>3. F \in [Tokens(w) -> S] /\ (\A s, t \in Tokens(w) : F[s] = F[t] => s = t)
      /\ \A s \in S : \E t \in Tokens(w) : F[t] = s
  <2>1. ASSUME NEW t \in Tokens(w)
        PROVE  F[t] \in S
    <3>1. PICK i \in DOMAIN w, k \in Nat \ {0} : k <= w[i] /\ t = <<i, k>>
      BY TokensFacts
    <3>2. i + n \in DOMAIN u /\ u[i + n] = w[i] /\ i + n > n
      <4>1. i \in 1 .. Len(w)
        BY <1>1, <3>1
      <4>2. i + n \in 1 .. (n + Len(w)) /\ i + n > n
        BY <1>1, <4>1
      <4> QED BY <1>1, <4>1, <4>2
    <3>3. F[t] = <<i + n, k>>
      BY <3>1
    <3>4. <<i + n, k>> \in Tokens(u)
      BY <1>0, <3>1, <3>2
    <3> QED BY <3>2, <3>3, <3>4
  <2>2. ASSUME NEW s \in Tokens(w), NEW t \in Tokens(w), F[s] = F[t]
        PROVE  s = t
    <3>1. PICK i \in DOMAIN w, k \in Nat \ {0} : k <= w[i] /\ s = <<i, k>>
      BY TokensFacts
    <3>2. PICK j \in DOMAIN w, h \in Nat \ {0} : h <= w[j] /\ t = <<j, h>>
      BY TokensFacts
    <3>3. <<i + n, k>> = <<j + n, h>>
      BY <2>2, <3>1, <3>2
    <3>4. i + n = j + n /\ k = h
      BY <3>3
    <3> QED BY <1>1, <3>1, <3>2, <3>4
  <2>3. ASSUME NEW s \in S
        PROVE  \E t \in Tokens(w) : F[t] = s
    <3>1. PICK i \in DOMAIN u, k \in Nat \ {0} : k <= u[i] /\ s = <<i, k>>
      BY <1>0
    <3>2. i > n
      BY <3>1
    <3>3. i - n \in DOMAIN w /\ (i - n) + n = i
      BY <1>1, <3>2
    <3>4. w[i - n] = u[i]
      BY <1>1, <3>3
    <3>5. <<i - n, k>> \in Tokens(w)
      BY <3>1, <3>3, <3>4, TokensFacts
    <3>6. F[<<i - n, k>>] = s
      BY <3>1, <3>3, <3>5
    <3> QED BY <3>5, <3>6
  <2> HIDE DEF S
  <2>4. F \in [Tokens(w) -> S]
    BY <2>1
  <2> QED BY <2>2, <2>3, <2>4
<1>4. IsFiniteSet(S) /\ Cardinality(S) = Cardinality(Tokens(w))
  <2>1. IsFiniteSet(Tokens(w))
    BY TokensFacts
  <2> HIDE DEF S, F
  <2>2. F \in Bijection(Tokens(w), S)
    BY <1>3, Fun_IsBij
  <2>3. ExistsBijection(Tokens(w), S)
    BY <2>2 DEF ExistsBijection
  <2> QED BY <2>1, <2>3, FS_Bijection
<1>5. Tokens(u) = Tokens(v) \cup S /\ Tokens(v) \cap S = {}
  <2>1. \A t \in Tokens(u) : t[1] \in Nat
    BY <1>1, TokensFacts
  <2>2. \A t \in Tokens(u) : t[1] <= n \/ t[1] > n
    BY <1>1, <2>1
  <2>3. \A t \in Tokens(u) : ~(t[1] <= n /\ t[1] > n)
    BY <1>1, <2>1
  <2> QED BY <1>2, <2>2, <2>3
<1>6. Cardinality(Tokens(u)) = Cardinality(Tokens(v)) + Cardinality(S)
  <2>1. IsFiniteSet(Tokens(v))
    BY TokensFacts
  <2> HIDE DEF S
  <2>2. Cardinality(Tokens(v) \cup S)
        = Cardinality(Tokens(v)) + Cardinality(S) - Cardinality(Tokens(v) \cap S)
    BY <1>4, <2>1, FS_Union
  <2>3. Cardinality(Tokens(v) \cap S) = 0
    BY <1>5, FS_EmptySet
  <2>4. Cardinality(Tokens(v)) \in Nat /\ Cardinality(S) \in Nat
    BY <1>4, <2>1, FS_CardinalityType
  <2> QED BY <1>5, <2>2, <2>3, <2>4
<1>7. \A x : Total(x) = Cardinality(Tokens(x))
  BY DEF Total, Tokens
<1> QED BY <1>4, <1>6, <1>7 DEF u

\* The sum of one term.
LEMMA TotalOne ==
  ASSUME NEW c \in Nat
  PROVE  Total(<<c>>) = c
<1> DEFINE F == [k \in 1 .. c |-> <<1, k>>]
<1>1. <<c>> \in Seq(Nat) /\ DOMAIN <<c>> = {1} /\ <<c>>[1] = c
  OBVIOUS
<1>2. \A t : t \in Tokens(<<c>>) <=> \E k \in 1 .. c : t = <<1, k>>
  <2>1. \A k : k \in 1 .. c <=> k \in Nat \ {0} /\ k <= c
    OBVIOUS
  <2>2. \A t : t \in Tokens(<<c>>)
              <=> \E i \in DOMAIN <<c>>, k \in Nat \ {0} : k <= <<c>>[i] /\ t = <<i, k>>
    BY <1>1, TokensFacts
  <2> QED BY <1>1, <2>1, <2>2
<1>3. F \in [1 .. c -> Tokens(<<c>>)] /\ (\A k, h \in 1 .. c : F[k] = F[h] => k = h)
      /\ \A t \in Tokens(<<c>>) : \E k \in 1 .. c : F[k] = t
  BY <1>2
<1> HIDE DEF F
<1>4. F \in Bijection(1 .. c, Tokens(<<c>>))
  BY <1>3, Fun_IsBij
<1>5. IsFiniteSet(1 .. c) /\ Cardinality(1 .. c) = c
  <2>1. Cardinality(1 .. c) = IF 1 > c THEN 0 ELSE c - 1 + 1
    BY FS_Interval
  <2> QED BY <2>1, FS_Interval
<1>6. ExistsBijection(1 .. c, Tokens(<<c>>))
  BY <1>4 DEF ExistsBijection
<1>7. Cardinality(Tokens(<<c>>)) = c
  BY <1>5, <1>6, FS_Bijection
<1> QED BY <1>7 DEF Total, Tokens

\* The sum of what the messages of a queue weigh.
Weighed(q, f) == Total([i \in DOMAIN q |-> f[q[i]]])

LEMMA ConcatTerms ==
  ASSUME NEW v \in Seq(Nat), NEW w \in Seq(Nat)
  PROVE  /\ v \o w \in Seq(Nat) /\ Len(v \o w) = Len(v) + Len(w)
         /\ \A i \in 1 .. (Len(v) + Len(w)) :
              (v \o w)[i] = IF i <= Len(v) THEN v[i] ELSE w[i - Len(v)]
BY ConcatProperties

LEMMA WeightsType ==
  ASSUME NEW q \in Seq(Message), NEW f \in [Message -> Nat]
  PROVE  /\ [i \in DOMAIN q |-> f[q[i]]] \in Seq(Nat)
         /\ DOMAIN [i \in DOMAIN q |-> f[q[i]]] = DOMAIN q
         /\ Len([i \in DOMAIN q |-> f[q[i]]]) = Len(q)
<1>1. DOMAIN q = 1 .. Len(q) /\ Len(q) \in Nat
  OBVIOUS
<1>2. \A i \in 1 .. Len(q) : f[q[i]] \in Nat
  BY <1>1
<1> QED BY <1>1, <1>2

\* Weighing a queue is weighing its parts.
LEMMA WeighedFacts ==
  ASSUME NEW f \in [Message -> Nat]
  PROVE  /\ \A q \in Seq(Message) : Weighed(q, f) \in Nat
         /\ \A q, r \in Seq(Message) : Weighed(q \o r, f) = Weighed(q, f) + Weighed(r, f)
         /\ \A m \in Message : Weighed(<<m>>, f) = f[m]
         /\ \A q \in Seq(Message) : (\A i \in DOMAIN q : f[q[i]] = 0) => Weighed(q, f) = 0
         /\ \A q \in Seq(Message) : \A i \in DOMAIN q : f[q[i]] >= 1 => Weighed(q, f) >= 1
<1> DEFINE W(q) == [i \in DOMAIN q |-> f[q[i]]]
<1>1. \A q \in Seq(Message) : W(q) \in Seq(Nat) /\ DOMAIN W(q) = DOMAIN q /\ Len(W(q)) = Len(q)
  BY WeightsType
<1>2. \A q : Weighed(q, f) = Total(W(q))
  BY DEF Weighed
<1>3. \A q \in Seq(Message) : \A i \in DOMAIN q : W(q)[i] = f[q[i]]
  OBVIOUS
<1>4. ASSUME NEW q \in Seq(Message), NEW r \in Seq(Message)
      PROVE  W(q \o r) = W(q) \o W(r)
  <2>1. /\ q \o r \in Seq(Message) /\ Len(q \o r) = Len(q) + Len(r)
        /\ \A i \in 1 .. (Len(q) + Len(r)) :
             (q \o r)[i] = IF i <= Len(q) THEN q[i] ELSE r[i - Len(q)]
    BY ConcatProperties
  <2>2. DOMAIN q = 1 .. Len(q) /\ DOMAIN r = 1 .. Len(r) /\ Len(q) \in Nat /\ Len(r) \in Nat
        /\ DOMAIN (q \o r) = 1 .. (Len(q) + Len(r))
    BY <2>1
  <2>3. /\ W(q) \o W(r) \in Seq(Nat) /\ Len(W(q) \o W(r)) = Len(q) + Len(r)
        /\ \A i \in 1 .. (Len(q) + Len(r)) :
             (W(q) \o W(r))[i] = IF i <= Len(q) THEN W(q)[i] ELSE W(r)[i - Len(q)]
    <3>1. W(q) \in Seq(Nat) /\ W(r) \in Seq(Nat) /\ Len(W(q)) = Len(q) /\ Len(W(r)) = Len(r)
      BY <1>1
    <3> HIDE DEF W
    <3>2. /\ W(q) \o W(r) \in Seq(Nat) /\ Len(W(q) \o W(r)) = Len(W(q)) + Len(W(r))
          /\ \A i \in 1 .. (Len(W(q)) + Len(W(r))) :
               (W(q) \o W(r))[i] = IF i <= Len(W(q)) THEN W(q)[i] ELSE W(r)[i - Len(W(q))]
      BY <3>1, ConcatTerms
    <3> QED BY <3>1, <3>2
  <2>4. ASSUME NEW i \in 1 .. (Len(q) + Len(r))
        PROVE  W(q \o r)[i] = (W(q) \o W(r))[i]
    <3>1. W(q \o r)[i] = f[(q \o r)[i]]
      BY <2>1, <2>2, <1>3
    <3>2. CASE i <= Len(q)
      <4>1. i \in DOMAIN q
        BY <2>2, <3>2
      <4>2. (q \o r)[i] = q[i] /\ (W(q) \o W(r))[i] = W(q)[i]
        BY <2>1, <2>3, <3>2
      <4> HIDE DEF W
      <4> QED BY <1>3, <3>1, <4>1, <4>2
    <3>3. CASE ~(i <= Len(q))
      <4>1. i - Len(q) \in DOMAIN r
        BY <2>2, <3>3
      <4>2. (q \o r)[i] = r[i - Len(q)] /\ (W(q) \o W(r))[i] = W(r)[i - Len(q)]
        BY <2>1, <2>3, <3>3
      <4> HIDE DEF W
      <4> QED BY <1>3, <3>1, <4>1, <4>2
    <3> QED BY <3>2, <3>3
  <2>5. W(q \o r) \in Seq(Nat) /\ Len(W(q \o r)) = Len(q) + Len(r)
    BY <1>1, <2>1
  <2> HIDE DEF W
  <2> QED BY <2>3, <2>4, <2>5, SeqEqual
<1>5. ASSUME NEW m \in Message
      PROVE  W(<<m>>) = <<f[m]>>
  OBVIOUS
<1> HIDE DEF W
<1>6. \A q \in Seq(Message) : Weighed(q, f) \in Nat
  BY <1>1, <1>2, TotalType
<1>7. \A q, r \in Seq(Message) : Weighed(q \o r, f) = Weighed(q, f) + Weighed(r, f)
  <2> SUFFICES ASSUME NEW q \in Seq(Message), NEW r \in Seq(Message)
               PROVE  Weighed(q \o r, f) = Weighed(q, f) + Weighed(r, f)
    OBVIOUS
  <2>1. W(q) \in Seq(Nat) /\ W(r) \in Seq(Nat)
    BY <1>1
  <2>2. Total(W(q) \o W(r)) = Total(W(q)) + Total(W(r))
    BY <2>1, TotalConcat
  <2>3. Weighed(q \o r, f) = Total(W(q \o r)) /\ W(q \o r) = W(q) \o W(r)
    BY <1>2, <1>4
  <2>4. Weighed(q, f) = Total(W(q)) /\ Weighed(r, f) = Total(W(r))
    BY <1>2
  <2> QED BY <2>2, <2>3, <2>4
<1>8. \A m \in Message : Weighed(<<m>>, f) = f[m]
  BY <1>2, <1>5, TotalOne
<1>9. ASSUME NEW q \in Seq(Message)
      PROVE  /\ (\A i \in DOMAIN q : f[q[i]] = 0) => Weighed(q, f) = 0
             /\ \A i \in DOMAIN q : f[q[i]] >= 1 => Weighed(q, f) >= 1
  <2>1. W(q) \in Seq(Nat) /\ DOMAIN W(q) = DOMAIN q /\ \A i \in DOMAIN q : W(q)[i] = f[q[i]]
    BY <1>1, <1>3
  <2> QED BY <1>2, <2>1, TotalType
<1> QED BY <1>6, <1>7, <1>8, <1>9

-----------------------------------------------------------------------------
(* References in queues *)

\* The references that a frame carries or gives back are finitely many.
LEMMA CarriesType ==
  ASSUME NEW m \in Message, NEW x \in ExportIds
  PROVE  /\ Carries(m, x) \in Nat /\ GivesBack(m, x) \in Nat
         /\ m.type \in {"Return", "Call"} =>
              /\ IsFiniteSet({k \in DOMAIN m.intros : m.intros[k].vine = x})
              /\ Cardinality({k \in DOMAIN m.intros : m.intros[k].vine = x}) <= Carries(m, x)
         /\ m.type = "Return" /\ m.cap = x => Carries(m, x) >= 1
         /\ m.type \notin {"Return", "Call"} => Carries(m, x) = 0
         /\ m.type \in {"Return", "Call"} /\ m.intros = <<>>
              => Carries(m, x) = IF m.type = "Return" /\ m.cap = x THEN 1 ELSE 0
         /\ m.type # "Release" => GivesBack(m, x) = 0
<1> DEFINE K == {k \in DOMAIN m.intros : m.intros[k].vine = x}
<1>1. m.type \in {"Return", "Call"} => m.intros \in Seq(Descriptor)
  BY MessageFields DEF Return
<1>2. ASSUME m.type \in {"Return", "Call"}
      PROVE  IsFiniteSet(K) /\ Cardinality(K) \in Nat
  <2>1. DOMAIN m.intros = 1 .. Len(m.intros) /\ Len(m.intros) \in Nat
    BY <1>1, <1>2
  <2>2. IsFiniteSet(1 .. Len(m.intros))
    BY <2>1, FS_Interval
  <2>3. K \subseteq 1 .. Len(m.intros)
    BY <2>1
  <2> HIDE DEF K
  <2> QED BY <2>2, <2>3, FS_Subset, FS_CardinalityType
<1>3. ASSUME m.type \in {"Return", "Call"}, m.intros = <<>>
      PROVE  Cardinality(K) = 0
  <2>1. K = {}
    BY <1>3
  <2> HIDE DEF K
  <2> QED BY <2>1, FS_EmptySet
<1>4. Carries(m, x) = (IF m.type = "Return" /\ m.cap = x THEN 1 ELSE 0)
                      + (IF m.type \in {"Return", "Call"} THEN Cardinality(K) ELSE 0)
  BY DEF Carries
<1>5. GivesBack(m, x) \in Nat /\ (m.type # "Release" => GivesBack(m, x) = 0)
  BY MessageFields DEF GivesBack
<1> HIDE DEF K
<1>6. CASE m.type \in {"Return", "Call"}
  <2>1. Cardinality(K) \in Nat
    BY <1>2, <1>6
  <2>2. Carries(m, x) = (IF m.type = "Return" /\ m.cap = x THEN 1 ELSE 0) + Cardinality(K)
    BY <1>4, <1>6
  <2>3. CASE m.type = "Return" /\ m.cap = x
    BY <1>2, <1>3, <1>5, <1>6, <2>1, <2>2, <2>3 DEF K
  <2>4. CASE ~(m.type = "Return" /\ m.cap = x)
    BY <1>2, <1>3, <1>5, <1>6, <2>1, <2>2, <2>4 DEF K
  <2> QED BY <2>3, <2>4
<1>7. CASE m.type \notin {"Return", "Call"}
  BY <1>4, <1>5, <1>7
<1> QED BY <1>6, <1>7

\* What queues carry: the parts of a queue add up, an empty one carries nothing.
LEMMA CarriedFacts ==
  ASSUME NEW x \in ExportIds
  PROVE  /\ \A q \in Seq(Message) : CarriedIn(q, x) \in Nat
         /\ \A q, r \in Seq(Message) : CarriedIn(q \o r, x) = CarriedIn(q, x) + CarriedIn(r, x)
         /\ \A m \in Message : CarriedIn(<<m>>, x) = Carries(m, x)
         /\ \A q \in Seq(Message) : (\A i \in DOMAIN q : Carries(q[i], x) = 0) => CarriedIn(q, x) = 0
         /\ \A q \in Seq(Message) : \A i \in DOMAIN q : Carries(q[i], x) >= 1 => CarriedIn(q, x) >= 1
<1> DEFINE f == [m \in Message |-> Carries(m, x)]
<1>1. f \in [Message -> Nat]
  BY CarriesType
<1>2. \A q \in Seq(Message) : \A i \in DOMAIN q : f[q[i]] = Carries(q[i], x)
  OBVIOUS
<1>3. \A m \in Message : f[m] = Carries(m, x)
  OBVIOUS
<1> HIDE DEF f
<1>4. ASSUME NEW q \in Seq(Message)
      PROVE  CarriedIn(q, x) = Weighed(q, f)
  <2>1. [i \in DOMAIN q |-> Carries(q[i], x)] = [i \in DOMAIN q |-> f[q[i]]]
    BY <1>2
  <2> QED BY <2>1 DEF CarriedIn, Weighed
<1>5. \A q, r \in Seq(Message) : q \o r \in Seq(Message)
  OBVIOUS
<1>6. \A m \in Message : <<m>> \in Seq(Message)
  OBVIOUS
<1>7. \A q \in Seq(Message) : CarriedIn(q, x) \in Nat
  BY <1>1, <1>4, WeighedFacts
<1>8. \A q, r \in Seq(Message) : CarriedIn(q \o r, x) = CarriedIn(q, x) + CarriedIn(r, x)
  <2> SUFFICES ASSUME NEW q \in Seq(Message), NEW r \in Seq(Message)
               PROVE  CarriedIn(q \o r, x) = CarriedIn(q, x) + CarriedIn(r, x)
    OBVIOUS
  <2>1. Weighed(q \o r, f) = Weighed(q, f) + Weighed(r, f)
    BY <1>1, WeighedFacts
  <2>2. q \o r \in Seq(Message)
    BY <1>5
  <2> QED BY <1>4, <2>1, <2>2
<1>9. \A m \in Message : CarriedIn(<<m>>, x) = Carries(m, x)
  BY <1>1, <1>3, <1>4, <1>6, WeighedFacts
<1>10. ASSUME NEW q \in Seq(Message)
       PROVE  /\ (\A i \in DOMAIN q : Carries(q[i], x) = 0) => CarriedIn(q, x) = 0
              /\ \A i \in DOMAIN q : Carries(q[i], x) >= 1 => CarriedIn(q, x) >= 1
  BY <1>1, <1>2, <1>4, WeighedFacts
<1> QED BY <1>7, <1>8, <1>9, <1>10

\* The same for what queues give back.
LEMMA GivenBackFacts ==
  ASSUME NEW x \in ExportIds
  PROVE  /\ \A q \in Seq(Message) : GivenBackIn(q, x) \in Nat
         /\ \A q, r \in Seq(Message) :
              GivenBackIn(q \o r, x) = GivenBackIn(q, x) + GivenBackIn(r, x)
         /\ \A m \in Message : GivenBackIn(<<m>>, x) = GivesBack(m, x)
         /\ \A q \in Seq(Message) :
              (\A i \in DOMAIN q : GivesBack(q[i], x) = 0) => GivenBackIn(q, x) = 0
<1> DEFINE f == [m \in Message |-> GivesBack(m, x)]
<1>1. f \in [Message -> Nat]
  BY CarriesType
<1>2. \A q \in Seq(Message) : \A i \in DOMAIN q : f[q[i]] = GivesBack(q[i], x)
  OBVIOUS
<1>3. \A m \in Message : f[m] = GivesBack(m, x)
  OBVIOUS
<1> HIDE DEF f
<1>4. ASSUME NEW q \in Seq(Message)
      PROVE  GivenBackIn(q, x) = Weighed(q, f)
  <2>1. [i \in DOMAIN q |-> GivesBack(q[i], x)] = [i \in DOMAIN q |-> f[q[i]]]
    BY <1>2
  <2> QED BY <2>1 DEF GivenBackIn, Weighed
<1>5. \A q, r \in Seq(Message) : q \o r \in Seq(Message)
  OBVIOUS
<1>6. \A m \in Message : <<m>> \in Seq(Message)
  OBVIOUS
<1>7. \A q \in Seq(Message) : GivenBackIn(q, x) \in Nat
  BY <1>1, <1>4, WeighedFacts
<1>8. \A q, r \in Seq(Message) : GivenBackIn(q \o r, x) = GivenBackIn(q, x) + GivenBackIn(r, x)
  <2> SUFFICES ASSUME NEW q \in Seq(Message), NEW r \in Seq(Message)
               PROVE  GivenBackIn(q \o r, x) = GivenBackIn(q, x) + GivenBackIn(r, x)
    OBVIOUS
  <2>1. Weighed(q \o r, f) = Weighed(q, f) + Weighed(r, f)
    BY <1>1, WeighedFacts
  <2>2. q \o r \in Seq(Message)
    BY <1>5
  <2> QED BY <1>4, <2>1, <2>2
<1>9. \A m \in Message : GivenBackIn(<<m>>, x) = GivesBack(m, x)
  BY <1>1, <1>3, <1>4, <1>6, WeighedFacts
<1>10. ASSUME NEW q \in Seq(Message)
       PROVE  (\A i \in DOMAIN q : GivesBack(q[i], x) = 0) => GivenBackIn(q, x) = 0
  BY <1>1, <1>2, <1>4, WeighedFacts
<1> QED BY <1>7, <1>8, <1>9, <1>10

-----------------------------------------------------------------------------
(* The invariant *)

\* Slot i of e's vat holds a provision that an embargoed Accept on e claimed.
PledgeAt(e, i) ==
  LET p == provisions[VatOf[e]][i]
  IN  p # NoProvision /\ p.embargoed /\ p.by = e

\* References to e's export x that will be handed over when an embargo is lifted.
Pledged(e, x) ==
  {i \in ProvisionSlots : PledgeAt(e, i) /\ provisions[VatOf[e]][i].eid = x}

\* Every reference is counted, the pledged ones among them.
Counted ==
  \A e \in Ends, x \in ExportIds :
    refcount[e][x] >= Outstanding(e, x) + Cardinality(Pledged(e, x))

\* No references to an unused slot are counted.
FreeIsZero == \A e \in Ends, x \in ExportIds : ~Used(e, x) => refcount[e][x] = 0

\* A pledged export still stands for the object of the provision.
PledgesNamed ==
  \A e \in Ends, i \in ProvisionSlots :
    PledgeAt(e, i) =>
      server[e][provisions[VatOf[e]][i].eid] = provisions[VatOf[e]][i].server

\* A peer that asks Joins holds what it has asked about, and does not take the question
\* back, until it is answered.
JoinersHold ==
  \A e \in Ends : "join" \in Ops[e] => "release" \notin Ops[e] /\ "earlyFinish" \notin Ops[e]

\* Question q of end p is an open Join that names, in t, an import that p holds.
AskedJoin(p, q, t) ==
  /\ "join" \in Ops[p]
  /\ \E y \in Held(p) : t = Import(y)
  /\ \E i \in SlotsOf(p, q) : /\ ~questions[p][i].answered
                              /\ questions[p][i].req.type = "Join"
                              /\ questions[p][i].req.target = t

HasPart(e, k, n, part) == joins[e][k] # NoJoin /\ joins[e][k].parts[n] = part

PartStands(e, part) ==
  /\ part.eid \in ExportIds
  /\ AskedJoin(Peer[e], part.qid, Import(part.eid))
  /\ part.obj = server[e][part.eid]

\* A part of a Join names an export that its peer holds until it is answered, so
\* its object is still the one it named when it arrived.
JoinsStand ==
  \A e \in Ends :
    /\ \A i \in DOMAIN inbox[e] :
         inbox[e][i].type = "Join" => AskedJoin(Peer[e], inbox[e][i].qid, inbox[e][i].target)
    /\ \A k \in JoinSlots, n \in PartNums, part \in Part :
         HasPart(e, k, n, part) => PartStands(e, part)

\* Every id that is held, sent, or named in a part of a Join stands for its object.
IdsStand == JoinsStand /\ ImportsNameTheirObject /\ JoinVerdictsTrue

\* The inductive form of NoEarlyFree, and of ImportsNameTheirObject and
\* JoinVerdictsTrue among peers that hold what they ask Joins about.
RefInv ==
  /\ Counted /\ FreeIsZero /\ PledgesNamed
  /\ JoinersHold => IdsStand

\* The terms of the ledger are numbers.
TermsTyped ==
  \A e \in Ends, x \in ExportIds :
    /\ imports[e][x].n \in Nat
    /\ Cardinality(Vines(introductions[e], x)) \in Nat
    /\ CarriedIn(inbox[e], x) \in Nat
    /\ GivenBackIn(inbox[e], x) \in Nat
    /\ Cardinality(Pledged(e, x)) \in Nat
    /\ refcount[e][x] \in Int

LEMMA SlotSetsFinite ==
  /\ \A t, x : IsFiniteSet(Vines(t, x)) /\ Cardinality(Vines(t, x)) \in Nat
  /\ \A S : S \subseteq IntroductionSlots => IsFiniteSet(S) /\ Cardinality(S) \in Nat
  /\ \A S : S \subseteq ProvisionSlots => IsFiniteSet(S) /\ Cardinality(S) \in Nat
<1>1. IsFiniteSet(IntroductionSlots) /\ IsFiniteSet(ProvisionSlots)
  BY HandoffAssumption, FS_Interval
     DEF HandoffAssumption, IntroductionSlots, ProvisionSlots
<1>2. \A t, x : Vines(t, x) \subseteq IntroductionSlots
  BY DEF Vines
<1> QED BY <1>1, <1>2, FS_Subset, FS_CardinalityType

LEMMA TermsType == TypeOK => TermsTyped
<1> SUFFICES ASSUME TypeOK, NEW e \in Ends, NEW x \in ExportIds
             PROVE  /\ imports[e][x].n \in Nat
                    /\ Cardinality(Vines(introductions[e], x)) \in Nat
                    /\ CarriedIn(inbox[e], x) \in Nat
                    /\ GivenBackIn(inbox[e], x) \in Nat
                    /\ Cardinality(Pledged(e, x)) \in Nat
                    /\ refcount[e][x] \in Int
  BY DEF TermsTyped
<1>1. imports[e][x] \in [n : Nat, obj : Servers \cup {NoServer}] /\ refcount[e][x] \in Int
  BY DEF TypeOK, ClientTypeOK, ServerTypeOK
<1>2. imports[e][x].n \in Nat
  BY <1>1
<1>3. Cardinality(Vines(introductions[e], x)) \in Nat
  BY SlotSetsFinite
<1>4. CarriedIn(inbox[e], x) \in Nat /\ GivenBackIn(inbox[e], x) \in Nat
  <2>1. inbox[e] \in Seq(Message)
    BY DEF TypeOK
  <2> QED BY <2>1, CarriedFacts, GivenBackFacts
<1>5. Pledged(e, x) \subseteq ProvisionSlots
  BY DEF Pledged
<1>6. Cardinality(Pledged(e, x)) \in Nat
  BY <1>5, SlotSetsFinite
<1> QED BY <1>1, <1>2, <1>3, <1>4, <1>6

LEMMA TermsTypes ==
  ASSUME TypeInv, TypeInv'
  PROVE  TermsTyped /\ TermsTyped'
<1>1. TypeOK /\ TypeOK'
  BY DEF TypeInv
<1> QED BY <1>1, TermsType, PTL

\* No references to an export that is not counted.
NoneOut ==
  \A e \in Ends, x \in ExportIds :
    refcount[e][x] = 0 =>
      /\ imports[Peer[e]][x].n = 0
      /\ CarriedIn(inbox[Peer[e]], x) = 0
      /\ Pledged(e, x) = {}

LEMMA CountedOut == TermsTyped /\ Counted => NoneOut
<1> SUFFICES ASSUME TermsTyped, Counted, NEW e \in Ends, NEW x \in ExportIds, refcount[e][x] = 0
             PROVE  /\ imports[Peer[e]][x].n = 0
                    /\ CarriedIn(inbox[Peer[e]], x) = 0
                    /\ Pledged(e, x) = {}
  BY DEF NoneOut
<1>1. Peer[e] \in Ends
  BY PeerFacts
<1>2. /\ imports[Peer[e]][x].n \in Nat
      /\ Cardinality(Vines(introductions[Peer[e]], x)) \in Nat
      /\ CarriedIn(inbox[Peer[e]], x) \in Nat
      /\ GivenBackIn(inbox[e], x) \in Nat
      /\ Cardinality(Pledged(e, x)) \in Nat
  BY <1>1 DEF TermsTyped
<1>3. 0 >= imports[Peer[e]][x].n + Cardinality(Vines(introductions[Peer[e]], x))
           + CarriedIn(inbox[Peer[e]], x) + GivenBackIn(inbox[e], x) + Cardinality(Pledged(e, x))
  BY DEF Counted, Outstanding
<1>4. /\ imports[Peer[e]][x].n = 0 /\ CarriedIn(inbox[Peer[e]], x) = 0
      /\ Cardinality(Pledged(e, x)) = 0
  BY <1>2, <1>3
<1>5. IsFiniteSet(Pledged(e, x))
  BY SlotSetsFinite DEF Pledged
<1> QED BY <1>4, <1>5, FS_EmptySet

-----------------------------------------------------------------------------
(* A balanced step *)

\* End f takes some frames and sends others.
Turned(f, taken, sent) ==
  /\ inbox[f] = taken \o inbox'[f]
  /\ inbox'[Peer[f]] = inbox[Peer[f]] \o sent
  /\ \A d \in Ends : d # f /\ d # Peer[f] => inbox'[d] = inbox[d]

\* What the other ends have is their own.
Alone(f) ==
  \A d \in Ends \ {f} :
    /\ server'[d] = server[d] /\ refcount'[d] = refcount[d] /\ joins'[d] = joins[d]
    /\ imports'[d] = imports[d] /\ questions'[d] = questions[d]
    /\ introductions'[d] = introductions[d]

\* A reference that is sent or pledged is counted, and only references given
\* back are no longer counted; a slot changes hands only when it is free.
ExportsBalance(f, taken, sent) ==
  \A x \in ExportIds :
    /\ refcount'[f][x] + Cardinality(Pledged(f, x)) + GivenBackIn(taken, x)
         >= refcount[f][x] + Cardinality(Pledged(f, x)') + CarriedIn(sent, x)
    /\ server'[f][x] = NoServer => refcount'[f][x] = 0
    /\ \/ server'[f][x] = server[f][x]
       \/ server[f][x] = NoServer
       \/ refcount'[f][x] = 0

\* Nobody holds or gives back more than he had and was handed.
ImportsBalance(f, taken, sent) ==
  \A x \in ExportIds :
    /\ imports'[f][x].n + Cardinality(Vines(introductions'[f], x)) + GivenBackIn(sent, x)
         <= imports[f][x].n + Cardinality(Vines(introductions[f], x)) + CarriedIn(taken, x)
    /\ imports'[f][x].n > 0 =>
         \/ imports[f][x].n > 0 /\ imports'[f][x].obj = imports[f][x].obj
         \/ \E k \in DOMAIN taken : /\ taken[k].type = "Return" /\ taken[k].cap = x
                                    /\ taken[k].obj = imports'[f][x].obj

\* What is sent is true when it is sent.
SentStand(f, sent) ==
  JoinersHold => \A k \in DOMAIN sent :
    /\ sent[k].type = "Return" /\ sent[k].cap # NoExport
         => server'[f][sent[k].cap] = sent[k].obj
    /\ sent[k].type = "Return" /\ sent[k].for = "Join"
         => (sent[k].joined <=> sent[k].obj # NoServer)
    /\ sent[k].type = "Join" => AskedJoin(f, sent[k].qid, sent[k].target)'

\* Only f makes pledges of its own, and names its object when it does.
PledgesKept(f) ==
  \A d \in Ends, i \in ProvisionSlots :
    LET p == provisions'[VatOf[d]][i]
    IN  /\ d # f => (PledgeAt(d, i)' <=> PledgeAt(d, i))
        /\ PledgeAt(d, i)' => \/ PledgeAt(d, i) /\ p = provisions[VatOf[d]][i]
                              \/ d = f /\ server'[f][p.eid] = p.server

\* A part that f records names what it stands for, and a Join that f has asked
\* and that is not answered still stands.
JoinsKept(f) ==
  JoinersHold =>
    /\ \A k \in JoinSlots, n \in PartNums, part \in Part :
         HasPart(f, k, n, part)' => HasPart(f, k, n, part) \/ PartStands(f, part)'
    /\ \A q \in QuestionIds : \A t :
         AskedJoin(f, q, t) /\ (Asking(f, q) # {} \/ Parts(f, q) # {}) => AskedJoin(f, q, t)'

Balanced(f) ==
  /\ \E taken, sent \in Seq(Message) :
       /\ Turned(f, taken, sent)
       /\ ExportsBalance(f, taken, sent)
       /\ ImportsBalance(f, taken, sent)
       /\ SentStand(f, sent)
  /\ Alone(f) /\ PledgesKept(f) /\ JoinsKept(f)

\* The pledges of the other ends are as before.
LEMMA PledgesOfOthers ==
  ASSUME NEW f \in Ends, PledgesKept(f), NEW d \in Ends, d # f, NEW x \in ExportIds
  PROVE  Pledged(d, x)' = Pledged(d, x)
<1>1. ASSUME NEW i \in ProvisionSlots
      PROVE  /\ PledgeAt(d, i)' <=> PledgeAt(d, i)
             /\ PledgeAt(d, i)' => provisions'[VatOf[d]][i] = provisions[VatOf[d]][i]
  BY DEF PledgesKept
<1> HIDE DEF PledgeAt
<1>2. Pledged(d, x)' = {i \in ProvisionSlots :
                          PledgeAt(d, i)' /\ provisions'[VatOf[d]][i].eid = x}
  BY DEF Pledged
<1> QED BY <1>1, <1>2 DEF Pledged

\* What a queue carries and gives back when frames are added or taken.
LEMMA QueuesWeigh ==
  ASSUME NEW x \in ExportIds, NEW q \in Seq(Message), NEW r \in Seq(Message)
  PROVE  /\ CarriedIn(q \o r, x) = CarriedIn(q, x) + CarriedIn(r, x)
         /\ GivenBackIn(q \o r, x) = GivenBackIn(q, x) + GivenBackIn(r, x)
         /\ CarriedIn(q, x) \in Nat /\ CarriedIn(r, x) \in Nat
         /\ GivenBackIn(q, x) \in Nat /\ GivenBackIn(r, x) \in Nat
BY CarriedFacts, GivenBackFacts

\* The ledger of an export after a balanced step.
LEMMA BalancedCounts ==
  ASSUME TypeInv, TypeInv', Counted, NEW f \in Ends, NEW taken \in Seq(Message),
         NEW sent \in Seq(Message), Turned(f, taken, sent), ExportsBalance(f, taken, sent),
         ImportsBalance(f, taken, sent), Alone(f), PledgesKept(f)
  PROVE  Counted'
<1> SUFFICES ASSUME NEW e \in Ends, NEW x \in ExportIds
             PROVE  (refcount[e][x] >= Outstanding(e, x) + Cardinality(Pledged(e, x)))'
  BY DEF Counted
<1>1. TermsTyped /\ TermsTyped'
  BY TermsTypes
<1>2. Peer[e] \in Ends /\ Peer[e] # e /\ Peer[Peer[e]] = e /\ Peer[f] \in Ends
      /\ Peer[f] # f /\ Peer[Peer[f]] = f
  BY PeerFacts
<1>3. inbox \in [Ends -> Seq(Message)] /\ inbox' \in [Ends -> Seq(Message)]
  BY DEF TypeInv, TypeOK
<1>4. refcount[e][x] >= imports[Peer[e]][x].n + Cardinality(Vines(introductions[Peer[e]], x))
        + CarriedIn(inbox[Peer[e]], x) + GivenBackIn(inbox[e], x) + Cardinality(Pledged(e, x))
  BY DEF Counted, Outstanding
<1>5. SUFFICES refcount'[e][x]
        >= imports'[Peer[e]][x].n + Cardinality(Vines(introductions'[Peer[e]], x))
           + CarriedIn(inbox'[Peer[e]], x) + GivenBackIn(inbox'[e], x)
           + Cardinality(Pledged(e, x)')
  <2>1. Outstanding(e, x)' = imports'[Peer[e]][x].n + Cardinality(Vines(introductions'[Peer[e]], x))
           + CarriedIn(inbox'[Peer[e]], x) + GivenBackIn(inbox'[e], x)
    BY DEF Outstanding, Vines, CarriedIn, GivenBackIn
  <2>2. Cardinality(Pledged(e, x))' = Cardinality(Pledged(e, x)')
    OBVIOUS
  <2> QED BY <1>5, <2>1, <2>2
<1>6. /\ imports[Peer[e]][x].n \in Nat /\ imports'[Peer[e]][x].n \in Nat
      /\ Cardinality(Vines(introductions[Peer[e]], x)) \in Nat
      /\ Cardinality(Vines(introductions'[Peer[e]], x)) \in Nat
      /\ CarriedIn(inbox[Peer[e]], x) \in Nat /\ CarriedIn(inbox'[Peer[e]], x) \in Nat
      /\ GivenBackIn(inbox[e], x) \in Nat /\ GivenBackIn(inbox'[e], x) \in Nat
      /\ Cardinality(Pledged(e, x)) \in Nat /\ Cardinality(Pledged(e, x)') \in Nat
      /\ refcount[e][x] \in Int /\ refcount'[e][x] \in Int
  <2>1. /\ imports'[Peer[e]][x].n \in Nat
        /\ Cardinality(Vines(introductions'[Peer[e]], x)) \in Nat
        /\ CarriedIn(inbox'[Peer[e]], x) \in Nat
        /\ GivenBackIn(inbox'[e], x) \in Nat
    <3>1. inbox'[e] \in Seq(Message) /\ inbox'[Peer[e]] \in Seq(Message)
      BY <1>2, <1>3
    <3>2. imports'[Peer[e]][x].n \in Nat
      BY <1>1, <1>2 DEF TermsTyped
    <3> QED BY <3>1, <3>2, SlotSetsFinite, CarriedFacts, GivenBackFacts
  <2>2. Cardinality(Pledged(e, x)') \in Nat
    BY <1>1 DEF TermsTyped
  <2> QED BY <1>1, <1>2, <2>1, <2>2 DEF TermsTyped
<1>7. CASE e = f
  <2>1. imports'[Peer[e]] = imports[Peer[e]] /\ introductions'[Peer[e]] = introductions[Peer[e]]
    BY <1>2, <1>7 DEF Alone
  <2>2. inbox[f] = taken \o inbox'[f] /\ inbox'[Peer[f]] = inbox[Peer[f]] \o sent
    BY DEF Turned
  <2>3. inbox'[f] \in Seq(Message) /\ inbox[Peer[f]] \in Seq(Message)
    BY <1>2, <1>3
  <2>4. GivenBackIn(inbox[f], x) = GivenBackIn(taken, x) + GivenBackIn(inbox'[f], x)
        /\ GivenBackIn(taken, x) \in Nat
    <3>1. GivenBackIn(taken \o inbox'[f], x) = GivenBackIn(taken, x) + GivenBackIn(inbox'[f], x)
      BY <2>3, QueuesWeigh
    <3> QED BY <2>2, <2>3, <3>1, QueuesWeigh
  <2>5. CarriedIn(inbox'[Peer[f]], x) = CarriedIn(inbox[Peer[f]], x) + CarriedIn(sent, x)
        /\ CarriedIn(sent, x) \in Nat
    <3>1. CarriedIn(inbox[Peer[f]] \o sent, x) = CarriedIn(inbox[Peer[f]], x) + CarriedIn(sent, x)
      BY <2>3, QueuesWeigh
    <3> QED BY <2>2, <2>3, <3>1, QueuesWeigh
  <2>6. refcount'[f][x] + Cardinality(Pledged(f, x)) + GivenBackIn(taken, x)
          >= refcount[f][x] + Cardinality(Pledged(f, x)') + CarriedIn(sent, x)
    BY DEF ExportsBalance
  <2> DEFINE r == refcount[e][x]  r2 == refcount'[e][x]
             n == imports[Peer[e]][x].n
             v == Cardinality(Vines(introductions[Peer[e]], x))
             c == CarriedIn(inbox[Peer[e]], x)  cs == CarriedIn(sent, x)
             g == GivenBackIn(inbox'[e], x)  gt == GivenBackIn(taken, x)
             p == Cardinality(Pledged(e, x))  p2 == Cardinality(Pledged(e, x)')
  <2>7. /\ r \in Int /\ r2 \in Int /\ n \in Nat /\ v \in Nat /\ c \in Nat /\ cs \in Nat
        /\ g \in Nat /\ gt \in Nat /\ p \in Nat /\ p2 \in Nat
    BY <1>6, <2>4, <2>5
  <2>8. GivenBackIn(inbox[e], x) = gt + g /\ CarriedIn(inbox'[Peer[e]], x) = c + cs
    BY <1>7, <2>4, <2>5
  <2>9. r >= n + v + c + (gt + g) + p
    BY <1>4, <2>8
  <2>10. r2 + p + gt >= r + p2 + cs
    BY <1>7, <2>6
  <2>11. r2 >= n + v + (c + cs) + g + p2
    <3> HIDE DEF r, r2, n, v, c, cs, g, gt, p, p2
    <3> QED BY <2>7, <2>9, <2>10
  <2> QED BY <2>1, <2>8, <2>11
<1>8. CASE e = Peer[f]
  <2>1. refcount'[e] = refcount[e] /\ Pledged(e, x)' = Pledged(e, x)
    BY <1>2, <1>8, PledgesOfOthers DEF Alone
  <2>2. inbox[f] = taken \o inbox'[f] /\ inbox'[Peer[f]] = inbox[Peer[f]] \o sent
    BY DEF Turned
  <2>3. inbox'[f] \in Seq(Message) /\ inbox[Peer[f]] \in Seq(Message)
    BY <1>2, <1>3
  <2>4. CarriedIn(inbox[f], x) = CarriedIn(taken, x) + CarriedIn(inbox'[f], x)
        /\ CarriedIn(taken, x) \in Nat
    <3>1. CarriedIn(taken \o inbox'[f], x) = CarriedIn(taken, x) + CarriedIn(inbox'[f], x)
      BY <2>3, QueuesWeigh
    <3> QED BY <2>2, <2>3, <3>1, QueuesWeigh
  <2>5. GivenBackIn(inbox'[e], x) = GivenBackIn(inbox[e], x) + GivenBackIn(sent, x)
        /\ GivenBackIn(sent, x) \in Nat
    <3>1. GivenBackIn(inbox[Peer[f]] \o sent, x)
            = GivenBackIn(inbox[Peer[f]], x) + GivenBackIn(sent, x)
      BY <2>3, QueuesWeigh
    <3> QED BY <1>8, <2>2, <2>3, <3>1, QueuesWeigh
  <2>6. imports'[f][x].n + Cardinality(Vines(introductions'[f], x)) + GivenBackIn(sent, x)
         <= imports[f][x].n + Cardinality(Vines(introductions[f], x)) + CarriedIn(taken, x)
    BY DEF ImportsBalance
  <2>7. Peer[e] = f
    BY <1>2, <1>8
  <2> DEFINE r == refcount[e][x]
             n == imports[Peer[e]][x].n  n2 == imports'[Peer[e]][x].n
             v == Cardinality(Vines(introductions[Peer[e]], x))
             v2 == Cardinality(Vines(introductions'[Peer[e]], x))
             c == CarriedIn(inbox'[Peer[e]], x)  ct == CarriedIn(taken, x)
             g == GivenBackIn(inbox[e], x)  gs == GivenBackIn(sent, x)
             p == Cardinality(Pledged(e, x))
  <2>8. /\ r \in Int /\ n \in Nat /\ n2 \in Nat /\ v \in Nat /\ v2 \in Nat /\ c \in Nat
        /\ ct \in Nat /\ g \in Nat /\ gs \in Nat /\ p \in Nat
    BY <1>6, <2>4, <2>5
  <2>9. CarriedIn(inbox[Peer[e]], x) = ct + c /\ GivenBackIn(inbox'[e], x) = g + gs
    BY <2>4, <2>5, <2>7
  <2>10. r >= n + v + (ct + c) + g + p
    BY <1>4, <2>9
  <2>11. n2 + v2 + gs <= n + v + ct
    BY <2>6, <2>7
  <2>12. r >= n2 + v2 + c + (g + gs) + p
    <3> HIDE DEF r, n, n2, v, v2, c, ct, g, gs, p
    <3> QED BY <2>8, <2>10, <2>11
  <2>13. Cardinality(Pledged(e, x)') = p /\ refcount'[e][x] = r
    BY <2>1
  <2> QED BY <2>9, <2>12, <2>13
<1>9. CASE e # f /\ e # Peer[f]
  <2>1. refcount'[e] = refcount[e] /\ Pledged(e, x)' = Pledged(e, x)
    BY <1>9, PledgesOfOthers DEF Alone
  <2>2. Peer[e] # f /\ Peer[e] # Peer[f]
    BY <1>2, <1>9
  <2>3. inbox'[e] = inbox[e] /\ inbox'[Peer[e]] = inbox[Peer[e]]
    BY <1>2, <1>9, <2>2 DEF Turned
  <2>4. imports'[Peer[e]] = imports[Peer[e]] /\ introductions'[Peer[e]] = introductions[Peer[e]]
    BY <1>2, <2>2 DEF Alone
  <2>5. Cardinality(Pledged(e, x)') = Cardinality(Pledged(e, x)) /\ refcount'[e][x] = refcount[e][x]
    BY <2>1
  <2>6. /\ imports'[Peer[e]][x].n = imports[Peer[e]][x].n
        /\ Vines(introductions'[Peer[e]], x) = Vines(introductions[Peer[e]], x)
        /\ CarriedIn(inbox'[Peer[e]], x) = CarriedIn(inbox[Peer[e]], x)
        /\ GivenBackIn(inbox'[e], x) = GivenBackIn(inbox[e], x)
    BY <2>3, <2>4
  <2> HIDE DEF Pledged
  <2> QED BY <1>4, <2>5, <2>6
<1> QED BY <1>7, <1>8, <1>9

\* No export that somebody holds, that is on its way or that is pledged changes
\* its object.
ObjectsStand(f) ==
  \A x \in ExportIds :
    \/ server'[f][x] = server[f][x]
    \/ /\ imports[Peer[f]][x].n = 0 /\ CarriedIn(inbox[Peer[f]], x) = 0
       /\ Pledged(f, x) = {}
    \/ /\ imports'[Peer[f]][x].n = 0 /\ CarriedIn(inbox'[Peer[f]], x) = 0
       /\ Pledged(f, x)' = {}

LEMMA BalancedStands ==
  ASSUME TypeInv, TypeInv', Counted, Counted', FreeIsZero, NEW f \in Ends,
         NEW taken, NEW sent, ExportsBalance(f, taken, sent)
  PROVE  ObjectsStand(f)
<1>1. TermsTyped /\ TermsTyped'
  BY TermsTypes
<1>2. NoneOut /\ NoneOut'
  BY <1>1, CountedOut, PTL
<1> SUFFICES ASSUME NEW x \in ExportIds, server'[f][x] # server[f][x]
             PROVE  \/ /\ imports[Peer[f]][x].n = 0 /\ CarriedIn(inbox[Peer[f]], x) = 0
                       /\ Pledged(f, x) = {}
                    \/ /\ imports'[Peer[f]][x].n = 0 /\ CarriedIn(inbox'[Peer[f]], x) = 0
                       /\ Pledged(f, x)' = {}
  BY DEF ObjectsStand
<1>3. CASE server[f][x] = NoServer
  <2>1. refcount[f][x] = 0
    BY <1>3 DEF FreeIsZero, Used
  <2> QED BY <1>2, <2>1 DEF NoneOut
<1>4. CASE refcount'[f][x] = 0
  <2>1. /\ imports'[Peer[f]][x].n = 0 /\ CarriedIn(inbox[Peer[f]], x)' = 0
        /\ Pledged(f, x)' = {}
    BY <1>2, <1>4 DEF NoneOut
  <2>2. CarriedIn(inbox[Peer[f]], x)' = CarriedIn(inbox'[Peer[f]], x)
    BY DEF CarriedIn
  <2> QED BY <2>1, <2>2
<1> QED BY <1>3, <1>4 DEF ExportsBalance

\* A frame that waits after the step waited before it or was sent in it.
LEMMA TurnedFrames ==
  ASSUME TypeInv, TypeInv', NEW f \in Ends, NEW taken \in Seq(Message), NEW sent \in Seq(Message),
         Turned(f, taken, sent)
  PROVE  /\ \A d \in Ends : \A i \in DOMAIN inbox'[d] :
              \/ \E k \in DOMAIN inbox[d] : inbox[d][k] = inbox'[d][i]
              \/ d = Peer[f] /\ \E k \in DOMAIN sent : sent[k] = inbox'[d][i]
         /\ \A k \in DOMAIN taken : \E j \in DOMAIN inbox[f] : inbox[f][j] = taken[k]
<1>1. inbox \in [Ends -> Seq(Message)] /\ inbox' \in [Ends -> Seq(Message)]
  BY DEF TypeInv, TypeOK
<1>2. Peer[f] \in Ends /\ Peer[f] # f
  BY PeerFacts
<1>3. ASSUME NEW q \in Seq(Message), NEW r \in Seq(Message)
      PROVE  /\ \A k \in DOMAIN q : k \in DOMAIN (q \o r) /\ (q \o r)[k] = q[k]
             /\ \A k \in DOMAIN r : \E j \in DOMAIN (q \o r) : (q \o r)[j] = r[k]
             /\ \A j \in DOMAIN (q \o r) : \/ \E k \in DOMAIN q : q[k] = (q \o r)[j]
                                           \/ \E k \in DOMAIN r : r[k] = (q \o r)[j]
  <2>1. /\ q \o r \in Seq(Message) /\ Len(q \o r) = Len(q) + Len(r)
        /\ \A i \in 1 .. (Len(q) + Len(r)) :
             (q \o r)[i] = IF i <= Len(q) THEN q[i] ELSE r[i - Len(q)]
    BY ConcatProperties
  <2>2. DOMAIN q = 1 .. Len(q) /\ DOMAIN r = 1 .. Len(r) /\ Len(q) \in Nat /\ Len(r) \in Nat
        /\ DOMAIN (q \o r) = 1 .. (Len(q) + Len(r))
    BY <2>1
  <2>3. ASSUME NEW k \in DOMAIN r
        PROVE  \E j \in DOMAIN (q \o r) : (q \o r)[j] = r[k]
    <3>1. k + Len(q) \in 1 .. (Len(q) + Len(r)) /\ ~(k + Len(q) <= Len(q))
          /\ (k + Len(q)) - Len(q) = k
      BY <2>2
    <3>2. (q \o r)[k + Len(q)] = r[(k + Len(q)) - Len(q)]
      BY <2>1, <3>1
    <3> QED BY <2>2, <3>1, <3>2
  <2>4. ASSUME NEW j \in DOMAIN (q \o r)
        PROVE  \/ \E k \in DOMAIN q : q[k] = (q \o r)[j]
               \/ \E k \in DOMAIN r : r[k] = (q \o r)[j]
    <3>1. CASE j <= Len(q)
      BY <2>1, <2>2, <3>1
    <3>2. CASE ~(j <= Len(q))
      <4>1. j - Len(q) \in DOMAIN r
        BY <2>2, <3>2
      <4> QED BY <2>1, <2>2, <3>2, <4>1
    <3> QED BY <3>1, <3>2
  <2>5. \A k \in DOMAIN q : k \in DOMAIN (q \o r) /\ (q \o r)[k] = q[k]
    BY <2>1, <2>2
  <2> QED BY <2>3, <2>4, <2>5
<1>4. inbox[f] = taken \o inbox'[f] /\ inbox'[f] \in Seq(Message)
  BY <1>1 DEF Turned
<1>5. inbox'[Peer[f]] = inbox[Peer[f]] \o sent /\ inbox[Peer[f]] \in Seq(Message)
  BY <1>1, <1>2 DEF Turned
<1>6. ASSUME NEW d \in Ends, NEW i \in DOMAIN inbox'[d]
      PROVE  \/ \E k \in DOMAIN inbox[d] : inbox[d][k] = inbox'[d][i]
             \/ d = Peer[f] /\ \E k \in DOMAIN sent : sent[k] = inbox'[d][i]
  <2>1. CASE d = f
    <3>1. \A k \in DOMAIN inbox'[f] : \E j \in DOMAIN (taken \o inbox'[f]) :
            (taken \o inbox'[f])[j] = inbox'[f][k]
      BY <1>3, <1>4
    <3>2. \A k \in DOMAIN inbox'[f] : \E j \in DOMAIN inbox[f] : inbox[f][j] = inbox'[f][k]
      BY <1>4, <3>1
    <3> QED BY <2>1, <3>2
  <2>2. CASE d = Peer[f]
    <3>1. \A j \in DOMAIN (inbox[Peer[f]] \o sent) :
            \/ \E k \in DOMAIN inbox[Peer[f]] : inbox[Peer[f]][k] = (inbox[Peer[f]] \o sent)[j]
            \/ \E k \in DOMAIN sent : sent[k] = (inbox[Peer[f]] \o sent)[j]
      BY <1>3, <1>5
    <3>2. \A j \in DOMAIN inbox'[Peer[f]] :
            \/ \E k \in DOMAIN inbox[Peer[f]] : inbox[Peer[f]][k] = inbox'[Peer[f]][j]
            \/ \E k \in DOMAIN sent : sent[k] = inbox'[Peer[f]][j]
      BY <1>5, <3>1
    <3> QED BY <2>2, <3>2
  <2>3. CASE d # f /\ d # Peer[f]
    BY <2>3 DEF Turned
  <2> QED BY <2>1, <2>2, <2>3
<1>7. \A k \in DOMAIN taken : \E j \in DOMAIN inbox[f] : inbox[f][j] = taken[k]
  BY <1>3, <1>4
<1> QED BY <1>6, <1>7

\* A Return on its way that carries x is counted as carrying it.
LEMMA ReturnCarries ==
  ASSUME NEW q \in Seq(Message), NEW i \in DOMAIN q, q[i].type = "Return", q[i].cap # NoExport
  PROVE  q[i].cap \in ExportIds /\ CarriedIn(q, q[i].cap) >= 1
<1>1. q[i] \in Message
  OBVIOUS
<1>2. q[i].cap \in ExportIds
  BY <1>1, MessageFields DEF Return
<1>3. Carries(q[i], q[i].cap) >= 1
  BY <1>1, <1>2, CarriesType
<1> QED BY <1>2, <1>3, CarriedFacts

\* A balanced step leaves every name in somebody's hands true.
LEMMA BalancedNames ==
  ASSUME TypeInv, TypeInv', JoinersHold, ImportsNameTheirObject, NEW f \in Ends,
         NEW taken \in Seq(Message), NEW sent \in Seq(Message), Turned(f, taken, sent),
         ImportsBalance(f, taken, sent), SentStand(f, sent), Alone(f), ObjectsStand(f)
  PROVE  ImportsNameTheirObject'
<1>1. inbox \in [Ends -> Seq(Message)] /\ inbox' \in [Ends -> Seq(Message)]
      /\ \A d \in Ends, x \in ExportIds : imports[d][x].n \in Nat /\ imports'[d][x].n \in Nat
  <2>1. TermsTyped /\ TermsTyped'
    BY TermsTypes
  <2> QED BY <2>1 DEF TermsTyped, TypeInv, TypeOK
<1>2. Peer[f] \in Ends /\ Peer[f] # f /\ Peer[Peer[f]] = f
  BY PeerFacts
<1>3. ASSUME NEW d \in Ends, NEW x \in ExportIds, imports'[d][x].n > 0
      PROVE  server'[Peer[d]][x] = imports'[d][x].obj
  <2>1. imports[d][x].n > 0 => server[Peer[d]][x] = imports[d][x].obj
    BY DEF ImportsNameTheirObject, Held
  <2>2. CASE d = f
    <3>1. server'[Peer[f]] = server[Peer[f]]
      BY <1>2 DEF Alone
    <3>2. CASE imports[f][x].n > 0 /\ imports'[f][x].obj = imports[f][x].obj
      BY <2>1, <2>2, <3>1, <3>2
    <3>3. ASSUME NEW k \in DOMAIN taken, taken[k].type = "Return", taken[k].cap = x,
                 taken[k].obj = imports'[f][x].obj
          PROVE  server'[Peer[d]][x] = imports'[d][x].obj
      <4>1. PICK j \in DOMAIN inbox[f] : inbox[f][j] = taken[k]
        BY TurnedFrames
      <4>2. x # NoExport
        BY Ranges
      <4>3. server[Peer[f]][x] = taken[k].obj
        BY <3>3, <4>1, <4>2 DEF ImportsNameTheirObject
      <4> QED BY <2>2, <3>1, <3>3, <4>3
    <3> QED BY <1>3, <2>2, <3>2, <3>3 DEF ImportsBalance
  <2>3. CASE d = Peer[f]
    <3>1. imports'[d] = imports[d]
      BY <1>2, <2>3 DEF Alone
    <3>2. server'[f][x] = server[f][x]
      <4>1. imports'[Peer[f]][x].n = imports[Peer[f]][x].n /\ imports'[Peer[f]][x].n # 0
        BY <1>1, <1>3, <2>3, <3>1
      <4> QED BY <4>1 DEF ObjectsStand
    <3> QED BY <1>2, <1>3, <2>1, <2>3, <3>1, <3>2
  <2>4. CASE d # f /\ d # Peer[f]
    <3>1. Peer[d] \in Ends /\ Peer[d] # f
      BY <2>4, PeerFacts
    <3>2. imports'[d] = imports[d] /\ server'[Peer[d]] = server[Peer[d]]
      BY <2>4, <3>1 DEF Alone
    <3> QED BY <1>3, <2>1, <3>2
  <2> QED BY <2>2, <2>3, <2>4
<1>4. ASSUME NEW d \in Ends, NEW i \in DOMAIN inbox'[d], inbox'[d][i].type = "Return",
             inbox'[d][i].cap # NoExport
      PROVE  server'[Peer[d]][inbox'[d][i].cap] = inbox'[d][i].obj
  <2>1. inbox'[d] \in Seq(Message) /\ inbox[d] \in Seq(Message)
    BY <1>1
  <2>2. PICK m : m = inbox'[d][i]
    OBVIOUS
  <2>3. m.cap \in ExportIds /\ CarriedIn(inbox'[d], m.cap) >= 1
    BY <1>4, <2>1, <2>2, ReturnCarries
  <2>4. CASE \E k \in DOMAIN inbox[d] : inbox[d][k] = m
    <3>1. PICK k \in DOMAIN inbox[d] : inbox[d][k] = m
      BY <2>4
    <3>2. server[Peer[d]][m.cap] = m.obj
      BY <1>4, <2>2, <3>1 DEF ImportsNameTheirObject
    <3>3. CarriedIn(inbox[d], m.cap) >= 1
      BY <1>4, <2>1, <2>2, <3>1, ReturnCarries
    <3>4. CASE d = Peer[f]
      <4>1. server'[f][m.cap] = server[f][m.cap]
        <5>1. CarriedIn(inbox[Peer[f]], m.cap) # 0 /\ CarriedIn(inbox'[Peer[f]], m.cap) # 0
          BY <2>3, <3>3, <3>4
        <5> QED BY <2>3, <5>1 DEF ObjectsStand
      <4> QED BY <1>2, <2>2, <3>2, <3>4, <4>1
    <3>5. CASE d # Peer[f]
      <4>1. Peer[d] \in Ends /\ Peer[d] # f
        BY <1>2, <3>5, PeerFacts
      <4>2. server'[Peer[d]] = server[Peer[d]]
        BY <4>1 DEF Alone
      <4> QED BY <2>2, <3>2, <4>2
    <3> QED BY <3>4, <3>5
  <2>5. CASE d = Peer[f] /\ \E k \in DOMAIN sent : sent[k] = m
    BY <1>2, <1>4, <2>2, <2>5 DEF SentStand
  <2>6. \/ \E k \in DOMAIN inbox[d] : inbox[d][k] = m
        \/ d = Peer[f] /\ \E k \in DOMAIN sent : sent[k] = m
    BY <2>2, TurnedFrames
  <2> QED BY <2>4, <2>5, <2>6
<1>5. (\A d \in Ends :
        /\ \A x \in Held(d) : server[Peer[d]][x] = imports[d][x].obj
        /\ \A i \in DOMAIN inbox[d] :
             inbox[d][i].type = "Return" /\ inbox[d][i].cap # NoExport
               => server[Peer[d]][inbox[d][i].cap] = inbox[d][i].obj)'
  BY <1>3, <1>4 DEF Held
<1> QED BY <1>5 DEF ImportsNameTheirObject

\* A balanced step sends no false JoinResult.
LEMMA BalancedVerdicts ==
  ASSUME TypeInv, TypeInv', JoinersHold, JoinVerdictsTrue, NEW f \in Ends,
         NEW taken \in Seq(Message), NEW sent \in Seq(Message), Turned(f, taken, sent),
         SentStand(f, sent)
  PROVE  JoinVerdictsTrue'
<1>1. ASSUME NEW d \in Ends, NEW i \in DOMAIN inbox'[d], inbox'[d][i].type = "Return",
             inbox'[d][i].for = "Join"
      PROVE  inbox'[d][i].joined <=> inbox'[d][i].obj # NoServer
  <2>1. PICK m : m = inbox'[d][i]
    OBVIOUS
  <2>2. \/ \E k \in DOMAIN inbox[d] : inbox[d][k] = m
        \/ d = Peer[f] /\ \E k \in DOMAIN sent : sent[k] = m
    BY <2>1, TurnedFrames
  <2>3. CASE \E k \in DOMAIN inbox[d] : inbox[d][k] = m
    BY <1>1, <2>1, <2>3 DEF JoinVerdictsTrue
  <2>4. CASE \E k \in DOMAIN sent : sent[k] = m
    BY <1>1, <2>1, <2>4 DEF SentStand
  <2> QED BY <2>2, <2>3, <2>4
<1> QED BY <1>1 DEF JoinVerdictsTrue

\* A balanced step leaves every pledge naming its object.
LEMMA BalancedPledges ==
  ASSUME TypeInv, TypeInv', PledgesNamed, NEW f \in Ends, Alone(f), PledgesKept(f),
         ObjectsStand(f)
  PROVE  PledgesNamed'
<1> SUFFICES ASSUME NEW d \in Ends, NEW i \in ProvisionSlots, PledgeAt(d, i)'
             PROVE  server'[d][provisions'[VatOf[d]][i].eid] = provisions'[VatOf[d]][i].server
  BY DEF PledgesNamed
<1>1. CASE d = f /\ server'[f][provisions'[VatOf[d]][i].eid] = provisions'[VatOf[d]][i].server
  BY <1>1
<1>2. CASE PledgeAt(d, i) /\ provisions'[VatOf[d]][i] = provisions[VatOf[d]][i]
  <2>1. PICK p : p = provisions[VatOf[d]][i]
    OBVIOUS
  <2>2. server[d][p.eid] = p.server
    BY <1>2, <2>1 DEF PledgesNamed
  <2>3. CASE d # f
    BY <1>2, <2>1, <2>2, <2>3 DEF Alone
  <2>4. CASE d = f
    <3>1. p.eid \in ExportIds
      <4>1. VatOf[d] \in Vats
        BY HandoffAssumption DEF HandoffAssumption
      <4>2. provisions[VatOf[d]][i] \in Provision \cup {NoProvision}
        BY <4>1 DEF TypeInv, TypeOK, HandoffTypeOK
      <4>3. p # NoProvision
        BY <1>2, <2>1 DEF PledgeAt
      <4> QED BY <2>1, <4>2, <4>3 DEF Provision
    <3>2. i \in Pledged(f, p.eid) /\ i \in Pledged(f, p.eid)'
      <4>1. i \in Pledged(f, p.eid)
        BY <1>2, <2>1, <2>4 DEF Pledged
      <4>2. PledgeAt(f, i)' /\ provisions'[VatOf[f]][i].eid = p.eid
        BY <1>2, <2>1, <2>4
      <4> HIDE DEF PledgeAt
      <4>3. i \in Pledged(f, p.eid)'
        BY <4>2 DEF Pledged
      <4> QED BY <4>1, <4>3
    <3>3. server'[f][p.eid] = server[f][p.eid]
      BY <3>1, <3>2 DEF ObjectsStand
    <3> QED BY <1>2, <2>1, <2>2, <2>4, <3>3
  <2> QED BY <2>3, <2>4
<1> QED BY <1>1, <1>2 DEF PledgesKept

\* What an end asked does not depend on the others.
LEMMA AskedAlone ==
  ASSUME NEW f \in Ends, Alone(f), NEW p \in Ends, p # f, NEW q, NEW t
  PROVE  AskedJoin(p, q, t)' <=> AskedJoin(p, q, t)
<1>1. imports'[p] = imports[p] /\ questions'[p] = questions[p]
  BY DEF Alone
<1>2. Held(p)' = Held(p) /\ SlotsOf(p, q)' = SlotsOf(p, q)
  BY <1>1 DEF Held, SlotsOf
<1>3. AskedJoin(p, q, t)' <=>
        /\ "join" \in Ops[p]
        /\ \E y \in Held(p)' : t = Import(y)
        /\ \E i \in SlotsOf(p, q)' : /\ ~questions'[p][i].answered
                                     /\ questions'[p][i].req.type = "Join"
                                     /\ questions'[p][i].req.target = t
  BY DEF AskedJoin
<1> QED BY <1>1, <1>2, <1>3 DEF AskedJoin

\* A balanced step leaves every Join standing.
LEMMA BalancedJoins ==
  ASSUME TypeInv, TypeInv', JoinersHold, JoinsStand, NEW f \in Ends,
         NEW taken \in Seq(Message), NEW sent \in Seq(Message), Turned(f, taken, sent),
         SentStand(f, sent), Alone(f), JoinsKept(f), ObjectsStand(f)
  PROVE  JoinsStand'
<1>1. inbox \in [Ends -> Seq(Message)] /\ inbox' \in [Ends -> Seq(Message)]
      /\ \A d \in Ends, x \in ExportIds : imports[d][x].n \in Nat /\ imports'[d][x].n \in Nat
  <2>1. TermsTyped /\ TermsTyped'
    BY TermsTypes
  <2> QED BY <2>1 DEF TermsTyped, TypeInv, TypeOK
<1>2. Peer[f] \in Ends /\ Peer[f] # f /\ Peer[Peer[f]] = f
  BY PeerFacts
<1>3. ASSUME NEW d \in Ends, NEW i \in DOMAIN inbox'[d], inbox'[d][i].type = "Join",
             NEW m, m = inbox'[d][i]
      PROVE  AskedJoin(Peer[d], m.qid, m.target)'
  <2>1. \/ \E k \in DOMAIN inbox[d] : inbox[d][k] = m
        \/ d = Peer[f] /\ \E k \in DOMAIN sent : sent[k] = m
    BY <1>3, TurnedFrames
  <2>2. ASSUME NEW k \in DOMAIN inbox[d], inbox[d][k] = m
        PROVE  AskedJoin(Peer[d], m.qid, m.target)'
    <3>1. AskedJoin(Peer[d], m.qid, m.target)
      BY <1>3, <2>2 DEF JoinsStand
    <3>2. CASE d # Peer[f]
      <4>1. Peer[d] \in Ends /\ Peer[d] # f
        BY <1>2, <3>2, PeerFacts
      <4> QED BY <3>1, <4>1, AskedAlone
    <3>3. CASE d = Peer[f]
      <4>1. m \in Message
        BY <1>1, <2>2
      <4>2. m.qid \in QuestionIds
        BY <1>3, <4>1, MessageFields DEF RequestTypes
      <4>3. k \in Asking(f, m.qid)
        BY <1>3, <2>2, <3>3 DEF Asking, RequestTypes
      <4>4. AskedJoin(f, m.qid, m.target)
        BY <1>2, <3>1, <3>3
      <4>5. AskedJoin(f, m.qid, m.target)'
        BY <4>2, <4>3, <4>4 DEF JoinsKept
      <4>6. Peer[d] = f
        BY <1>2, <3>3
      <4> QED BY <4>5, <4>6
    <3> QED BY <3>2, <3>3
  <2>3. ASSUME d = Peer[f], NEW k \in DOMAIN sent, sent[k] = m
        PROVE  AskedJoin(Peer[d], m.qid, m.target)'
    <3>1. AskedJoin(f, sent[k].qid, sent[k].target)'
      BY <1>3, <2>3 DEF SentStand
    <3>2. Peer[d] = f
      BY <1>2, <2>3
    <3> QED BY <2>3, <3>1, <3>2
  <2> QED BY <2>1, <2>2, <2>3
<1>4. ASSUME NEW d \in Ends, NEW k \in JoinSlots, NEW n \in PartNums, NEW part \in Part,
             HasPart(d, k, n, part)'
      PROVE  PartStands(d, part)'
  <2>1. ASSUME HasPart(d, k, n, part)
        PROVE  PartStands(d, part)'
    <3>1. /\ part.eid \in ExportIds /\ part.obj = server[d][part.eid]
          /\ AskedJoin(Peer[d], part.qid, Import(part.eid))
      BY <2>1 DEF JoinsStand, PartStands
    <3>2. CASE d = Peer[f]
      <4>1. Peer[d] = f /\ server'[d] = server[d]
        BY <1>2, <3>2 DEF Alone
      <4>2. <<k, n>> \in Parts(f, part.qid) /\ part.qid \in QuestionIds
        <5>1. part # NoPart
          BY UnusedSlotsAssumption DEF UnusedSlotsAssumption
        <5> QED BY <2>1, <3>2, <5>1 DEF Parts, HasPart, Part
      <4>3. AskedJoin(f, part.qid, Import(part.eid))'
        BY <3>1, <4>1, <4>2 DEF JoinsKept
      <4> QED BY <3>1, <4>1, <4>3 DEF PartStands
    <3>3. CASE d # Peer[f]
      <4>1. Peer[d] \in Ends /\ Peer[d] # f
        BY <1>2, <3>3, PeerFacts
      <4>2. AskedJoin(Peer[d], part.qid, Import(part.eid))'
        BY <3>1, <4>1, AskedAlone
      <4>3. server'[d][part.eid] = server[d][part.eid]
        <5>1. CASE d # f
          BY <5>1 DEF Alone
        <5>2. CASE d = f
          <6>1. PICK y \in Held(Peer[f]) : Import(part.eid) = Import(y)
            BY <3>1, <5>2 DEF AskedJoin
          <6>2. Import(part.eid).id = part.eid /\ Import(y).id = y
            BY DEF Import
          <6>3. y = part.eid
            BY <6>1, <6>2
          <6>4. imports[Peer[f]][part.eid].n # 0
            BY <1>1, <1>2, <3>1, <6>1, <6>3 DEF Held
          <6>5. imports'[Peer[f]] = imports[Peer[f]]
            BY <1>2 DEF Alone
          <6>6. server'[f][part.eid] = server[f][part.eid]
            BY <3>1, <6>4, <6>5 DEF ObjectsStand
          <6> QED BY <5>2, <6>6
        <5> QED BY <5>1, <5>2
      <4> QED BY <3>1, <4>2, <4>3 DEF PartStands
    <3> QED BY <3>2, <3>3
  <2>2. CASE d = f
    BY <1>4, <2>1, <2>2 DEF JoinsKept
  <2>3. CASE d # f
    <3>1. joins'[d] = joins[d]
      BY <2>3 DEF Alone
    <3>2. HasPart(d, k, n, part)
      BY <1>4, <3>1 DEF HasPart
    <3> QED BY <2>1, <3>2
  <2> QED BY <2>2, <2>3
<1>5. ASSUME NEW d \in Ends, NEW i \in DOMAIN inbox'[d], inbox'[d][i].type = "Join"
      PROVE  AskedJoin(Peer[d], inbox[d][i].qid, inbox[d][i].target)'
  <2>1. PICK m : m = inbox'[d][i]
    OBVIOUS
  <2>2. AskedJoin(Peer[d], m.qid, m.target)'
    BY <1>3, <1>5, <2>1
  <2> QED BY <2>1, <2>2 DEF AskedJoin, Held, SlotsOf
<1> HIDE DEF HasPart, PartStands, AskedJoin
<1> QED BY <1>4, <1>5 DEF JoinsStand

\* A balanced step keeps the ledger and every name.
LEMMA BalancedKeeps ==
  ASSUME TypeInv, TypeInv', RefInv, NEW f \in Ends, Balanced(f)
  PROVE  RefInv'
<1>1. PICK taken \in Seq(Message), sent \in Seq(Message) :
        /\ Turned(f, taken, sent) /\ ExportsBalance(f, taken, sent)
        /\ ImportsBalance(f, taken, sent) /\ SentStand(f, sent)
  BY DEF Balanced
<1>2. Alone(f) /\ PledgesKept(f) /\ JoinsKept(f)
  BY DEF Balanced
<1>3. Counted /\ FreeIsZero /\ PledgesNamed
  BY DEF RefInv
<1>4. Counted'
  BY <1>1, <1>2, <1>3, BalancedCounts
<1>5. ObjectsStand(f)
  BY <1>1, <1>3, <1>4, BalancedStands
<1>6. FreeIsZero'
  <2> SUFFICES ASSUME NEW d \in Ends, NEW x \in ExportIds, server'[d][x] = NoServer
               PROVE  refcount'[d][x] = 0
    BY DEF FreeIsZero, Used
  <2>1. CASE d = f
    BY <1>1, <2>1 DEF ExportsBalance
  <2>2. CASE d # f
    BY <1>2, <1>3, <2>2 DEF Alone, FreeIsZero, Used
  <2> QED BY <2>1, <2>2
<1>7. PledgesNamed'
  BY <1>2, <1>3, <1>5, BalancedPledges
<1>8. ASSUME JoinersHold
      PROVE  IdsStand'
  <2>1. JoinsStand /\ ImportsNameTheirObject /\ JoinVerdictsTrue
    BY <1>8 DEF RefInv, IdsStand
  <2>2. ImportsNameTheirObject' /\ JoinVerdictsTrue' /\ JoinsStand'
    BY <1>1, <1>2, <1>5, <1>8, <2>1, BalancedNames, BalancedVerdicts, BalancedJoins
  <2> QED BY <2>2 DEF IdsStand
<1> QED BY <1>4, <1>6, <1>7, <1>8 DEF RefInv, JoinersHold

-----------------------------------------------------------------------------
(* Handlers: what they have in common *)

LEMMA TurnedByAnswer ==
  ASSUME TypeInv, NEW f \in Ends, inbox[f] # <<>>, NEW sent \in Seq(Message), Answer(f, sent)
  PROVE  Turned(f, <<Head(inbox[f])>>, sent) /\ Head(inbox[f]) \in Message
         /\ <<Head(inbox[f])>> \in Seq(Message)
<1>1. inbox \in [Ends -> Seq(Message)] /\ inbox[f] \in Seq(Message)
  BY DEF TypeInv, TypeOK
<1>2. Peer[f] \in Ends /\ Peer[f] # f
  BY PeerFacts
<1>3. inbox' = [inbox EXCEPT ![f] = Tail(inbox[f]), ![Peer[f]] = inbox[Peer[f]] \o sent]
  BY <1>2 DEF Answer
<1>4. /\ inbox'[f] = Tail(inbox[f]) /\ inbox'[Peer[f]] = inbox[Peer[f]] \o sent
      /\ \A d \in Ends : d # f /\ d # Peer[f] => inbox'[d] = inbox[d]
  BY <1>1, <1>2, <1>3
<1>5. ASSUME NEW q \in Seq(Message), q # <<>>
      PROVE  q = <<Head(q)>> \o Tail(q) /\ Head(q) \in Message
  <2>1. Tail(q) \in Seq(Message) /\ Head(q) \in Message /\ Len(Tail(q)) = Len(q) - 1
        /\ Len(q) \in Nat \ {0} /\ Head(q) = q[1]
        /\ \A i \in 1 .. Len(Tail(q)) : Tail(q)[i] = q[i + 1]
    BY <1>5
  <2>2. <<Head(q)>> \in Seq(Message) /\ Len(<<Head(q)>>) = 1 /\ <<Head(q)>>[1] = Head(q)
    BY <2>1
  <2>3. PICK t, h : t = Tail(q) /\ h = <<Head(q)>>
    OBVIOUS
  <2>4. /\ h \o t \in Seq(Message) /\ Len(h \o t) = Len(h) + Len(t)
        /\ \A i \in 1 .. (Len(h) + Len(t)) :
             (h \o t)[i] = IF i <= Len(h) THEN h[i] ELSE t[i - Len(h)]
    BY <2>1, <2>2, <2>3, ConcatProperties
  <2>5. Len(h \o t) = Len(q) /\ Len(h) = 1
    BY <2>1, <2>2, <2>3, <2>4
  <2>6. ASSUME NEW i \in 1 .. Len(q)
        PROVE  (h \o t)[i] = q[i]
    <3>1. CASE i = 1
      BY <2>1, <2>2, <2>3, <2>4, <2>5, <3>1
    <3>2. CASE i # 1
      <4>1. i - 1 \in 1 .. Len(t) /\ ~(i <= 1) /\ (i - 1) + 1 = i
        BY <2>1, <2>3, <3>2
      <4>2. (h \o t)[i] = t[i - 1]
        BY <2>4, <2>5, <4>1
      <4>3. t[i - 1] = q[(i - 1) + 1]
        BY <2>1, <2>3, <4>1
      <4> QED BY <4>1, <4>2, <4>3
    <3> QED BY <3>1, <3>2
  <2>7. h \o t = q
    BY <2>4, <2>5, <2>6, SeqEqual
  <2> QED BY <2>1, <2>3, <2>7
<1>6. inbox[f] = <<Head(inbox[f])>> \o Tail(inbox[f]) /\ Head(inbox[f]) \in Message
  BY <1>1, <1>5
<1>7. <<Head(inbox[f])>> \in Seq(Message)
  BY <1>6
<1> QED BY <1>4, <1>6, <1>7 DEF Turned

\* The introductions that f notes come with the frame it takes.
TakesVines(f) ==
  /\ \A x \in ExportIds : Cardinality(Vines(introductions'[f], x))
       <= Cardinality(Vines(introductions[f], x)) + Carries(Head(inbox[f]), x)
  /\ \A d \in Ends \ {f} : introductions'[d] = introductions[d]

LEMMA TakesNone ==
  ASSUME TypeInv, NEW f \in Ends, inbox[f] # <<>>, UNCHANGED introductions
  PROVE  TakesVines(f)
<1> SUFFICES ASSUME NEW x \in ExportIds
             PROVE  Cardinality(Vines(introductions'[f], x))
                      <= Cardinality(Vines(introductions[f], x)) + Carries(Head(inbox[f]), x)
  BY DEF TakesVines
<1>1. Head(inbox[f]) \in Message
  BY DEF TypeInv, TypeOK
<1>2. Carries(Head(inbox[f]), x) \in Nat
  BY <1>1, CarriesType
<1>3. Cardinality(Vines(introductions[f], x)) \in Nat
  BY SlotSetsFinite
<1>4. Vines(introductions'[f], x) = Vines(introductions[f], x)
  OBVIOUS
<1> QED BY <1>2, <1>3, <1>4

PartsStand(f) ==
  JoinersHold => \A k \in JoinSlots, n \in PartNums, part \in Part :
    HasPart(f, k, n, part)' => HasPart(f, k, n, part) \/ PartStands(f, part)'

\* Nothing a handler sends gives references back or asks for a Join, and only
\* handle_return hands references over to f itself.
LEMMA ServesBalance ==
  ASSUME TypeInv, TypeInv', NEW f \in Ends, inbox[f] # <<>>, NEW sent \in Seq(Message),
         Answer(f, sent), \A k \in DOMAIN sent : sent[k].type # "Release",
         TakesVines(f), ExportsBalance(f, <<Head(inbox[f])>>, sent), SentStand(f, sent),
         Alone(f), PledgesKept(f), PartsStand(f), UNCHANGED <<imports, questions>>
  PROVE  Balanced(f)
<1>1. Turned(f, <<Head(inbox[f])>>, sent) /\ <<Head(inbox[f])>> \in Seq(Message)
      /\ Head(inbox[f]) \in Message
  BY TurnedByAnswer
<1>2. ImportsBalance(f, <<Head(inbox[f])>>, sent)
  <2> SUFFICES ASSUME NEW x \in ExportIds
               PROVE  /\ imports'[f][x].n + Cardinality(Vines(introductions'[f], x))
                           + GivenBackIn(sent, x)
                         <= imports[f][x].n + Cardinality(Vines(introductions[f], x))
                            + CarriedIn(<<Head(inbox[f])>>, x)
                      /\ imports'[f][x].n > 0 =>
                           imports[f][x].n > 0 /\ imports'[f][x].obj = imports[f][x].obj
    BY DEF ImportsBalance
  <2>1. CarriedIn(<<Head(inbox[f])>>, x) = Carries(Head(inbox[f]), x)
        /\ Carries(Head(inbox[f]), x) \in Nat
    BY <1>1, CarriedFacts, CarriesType
  <2>2. GivenBackIn(sent, x) = 0
    <3>1. \A k \in DOMAIN sent : GivesBack(sent[k], x) = 0
      BY DEF GivesBack
    <3> QED BY <3>1, GivenBackFacts
  <2>3. imports[f][x].n \in Nat
    BY TermsTypes DEF TermsTyped
  <2>4. Cardinality(Vines(introductions'[f], x)) \in Nat
        /\ Cardinality(Vines(introductions[f], x)) \in Nat
    BY SlotSetsFinite
  <2>5. Cardinality(Vines(introductions'[f], x))
          <= Cardinality(Vines(introductions[f], x)) + Carries(Head(inbox[f]), x)
    BY DEF TakesVines
  <2>6. imports' = imports
    OBVIOUS
  <2> QED BY <2>1, <2>2, <2>3, <2>4, <2>5, <2>6
<1>3. JoinsKept(f)
  <2>1. \A q, t : AskedJoin(f, q, t)' <=> AskedJoin(f, q, t)
    BY DEF AskedJoin, Held, SlotsOf
  <2> HIDE DEF AskedJoin, HasPart, PartStands
  <2> QED BY <2>1 DEF JoinsKept, PartsStand
<1> QED BY <1>1, <1>2, <1>3 DEF Balanced

\* A handler that leaves the provisions alone makes no pledges.
LEMMA PledgesRest ==
  ASSUME NEW f \in Ends, UNCHANGED provisions
  PROVE  PledgesKept(f) /\ \A x \in ExportIds : Pledged(f, x)' = Pledged(f, x)
BY DEF PledgesKept, PledgeAt, Pledged

LEMMA PartsRest ==
  ASSUME NEW f \in Ends, UNCHANGED joins
  PROVE  PartsStand(f)
BY DEF PartsStand, HasPart

\* An export table that nothing happens to, and frames that carry nothing.
LEMMA ExportsRest ==
  ASSUME TypeInv, TypeInv', FreeIsZero, NEW f \in Ends, NEW taken \in Seq(Message),
         NEW sent \in Seq(Message), UNCHANGED <<server, refcount>>,
         \A x \in ExportIds :
           CarriedIn(sent, x) + Cardinality(Pledged(f, x)') <= Cardinality(Pledged(f, x))
  PROVE  ExportsBalance(f, taken, sent)
<1> SUFFICES ASSUME NEW x \in ExportIds
             PROVE  /\ refcount'[f][x] + Cardinality(Pledged(f, x)) + GivenBackIn(taken, x)
                         >= refcount[f][x] + Cardinality(Pledged(f, x)') + CarriedIn(sent, x)
                    /\ server'[f][x] = NoServer => refcount'[f][x] = 0
                    /\ server'[f][x] = server[f][x]
  BY DEF ExportsBalance
<1>1. /\ Cardinality(Pledged(f, x)) \in Nat /\ Cardinality(Pledged(f, x)') \in Nat
      /\ refcount[f][x] \in Int
  BY TermsTypes DEF TermsTyped
<1>2. GivenBackIn(taken, x) \in Nat /\ CarriedIn(sent, x) \in Nat
  BY GivenBackFacts, CarriedFacts
<1>3. CarriedIn(sent, x) + Cardinality(Pledged(f, x)') <= Cardinality(Pledged(f, x))
  OBVIOUS
<1>4. server' = server /\ refcount' = refcount
  OBVIOUS
<1>5. server[f][x] = NoServer => refcount[f][x] = 0
  BY DEF FreeIsZero, Used
<1> HIDE DEF Pledged
<1>6. refcount'[f][x] + Cardinality(Pledged(f, x)) + GivenBackIn(taken, x)
        >= refcount[f][x] + Cardinality(Pledged(f, x)') + CarriedIn(sent, x)
  BY <1>1, <1>2, <1>3, <1>4
<1> QED BY <1>4, <1>5, <1>6

\* Frames that carry no references.
PlainFrames(sent) ==
  \A k \in DOMAIN sent :
    /\ sent[k].type \notin {"Release", "Join", "Call"}
    /\ sent[k].type = "Return" =>
         /\ sent[k].cap = NoExport /\ sent[k].intros = <<>>
         /\ sent[k].for = "Join" => (sent[k].joined <=> sent[k].obj # NoServer)

LEMMA PlainCarry ==
  ASSUME NEW sent \in Seq(Message), PlainFrames(sent), NEW x \in ExportIds
  PROVE  CarriedIn(sent, x) = 0
<1>1. \A k \in DOMAIN sent : Carries(sent[k], x) = 0
  <2> SUFFICES ASSUME NEW k \in DOMAIN sent
               PROVE  Carries(sent[k], x) = 0
    OBVIOUS
  <2>1. sent[k] \in Message
    OBVIOUS
  <2>2. NoExport # x
    BY Ranges
  <2>3. CASE sent[k].type = "Return"
    BY <2>1, <2>2, <2>3, CarriesType DEF PlainFrames
  <2>4. CASE sent[k].type # "Return"
    BY <2>1, <2>4, CarriesType DEF PlainFrames
  <2> QED BY <2>3, <2>4
<1> QED BY <1>1, CarriedFacts

LEMMA PlainStand ==
  ASSUME NEW f, NEW sent \in Seq(Message), PlainFrames(sent)
  PROVE  SentStand(f, sent) /\ \A k \in DOMAIN sent : sent[k].type # "Release"
BY DEF PlainFrames, SentStand

\* A handler that only answers.
LEMMA PlainBalance ==
  ASSUME TypeInv, TypeInv', FreeIsZero, NEW f \in Ends, inbox[f] # <<>>,
         NEW sent \in Seq(Message), Answer(f, sent), PlainFrames(sent), TakesVines(f),
         UNCHANGED <<server, refcount, joins, imports, questions, provisions>>
  PROVE  Balanced(f)
<1>1. PledgesKept(f) /\ PartsStand(f) /\ \A x \in ExportIds : Pledged(f, x)' = Pledged(f, x)
  BY PledgesRest, PartsRest
<1>2. Alone(f)
  BY DEF Alone, TakesVines
<1>3. SentStand(f, sent) /\ \A k \in DOMAIN sent : sent[k].type # "Release"
  BY PlainStand
<1>4. <<Head(inbox[f])>> \in Seq(Message)
  BY TurnedByAnswer
<1>5. ASSUME NEW x \in ExportIds
      PROVE  CarriedIn(sent, x) + Cardinality(Pledged(f, x)') <= Cardinality(Pledged(f, x))
  <2>1. CarriedIn(sent, x) = 0
    BY PlainCarry
  <2>2. Cardinality(Pledged(f, x)') = Cardinality(Pledged(f, x))
        /\ Cardinality(Pledged(f, x)) \in Nat
    BY <1>1, TermsTypes DEF TermsTyped
  <2> QED BY <2>1, <2>2
<1>6. ExportsBalance(f, <<Head(inbox[f])>>, sent)
  BY <1>4, <1>5, ExportsRest
<1> QED BY <1>1, <1>2, <1>3, <1>6, ServesBalance

\* Each introduction noted is one of the frame's descriptors, and no two are the
\* same one.
LEMMA NotesVines ==
  ASSUME TypeInv, NEW f \in Ends, NEW intros \in Seq(Descriptor), NoteIntroductions(f, intros),
         NEW x \in ExportIds
  PROVE  /\ Cardinality(Vines(introductions'[f], x))
              <= Cardinality(Vines(introductions[f], x))
                 + Cardinality({k \in DOMAIN intros : intros[k].vine = x})
         /\ \A d \in Ends \ {f} : introductions'[d] = introductions[d]
<1> DEFINE fitting == {k \in DOMAIN intros : intros[k].fits}
           free    == {i \in IntroductionSlots : introductions[f][i] = NoIntroduction}
           rank(i) == Cardinality({j \in free : j < i})
           taking(i) == {k \in fitting : Cardinality({h \in fitting : h < k}) = rank(i)}
           noted(k) == [nonce |-> intros[k].nonce, vine |-> intros[k].vine]
           K == {k \in DOMAIN intros : intros[k].vine = x}
           N == {i \in free : taking(i) # {} /\ intros[First(taking(i))].vine = x}
           F == [i \in N |-> First(taking(i))]
           V == Vines(introductions[f], x)
<1>1. introductions' = [introductions EXCEPT ![f] =
        [i \in IntroductionSlots |->
           IF i \in free /\ taking(i) # {} THEN noted(First(taking(i)))
           ELSE introductions[f][i]]]
  BY DEF NoteIntroductions
<1>2. introductions \in [Ends -> [IntroductionSlots -> Introduction \cup {NoIntroduction}]]
  BY DEF TypeInv, TypeOK, HandoffTypeOK
<1>3. \A d \in Ends \ {f} : introductions'[d] = introductions[d]
  BY <1>1, <1>2
<1>4. \A i \in IntroductionSlots :
        introductions'[f][i] = IF i \in free /\ taking(i) # {} THEN noted(First(taking(i)))
                               ELSE introductions[f][i]
  BY <1>1, <1>2
<1>5. DOMAIN intros = 1 .. Len(intros) /\ Len(intros) \in Nat
  OBVIOUS
<1>6. \A i : taking(i) \subseteq Nat
  BY <1>5
<1>7. \A i : taking(i) # {} => First(taking(i)) \in taking(i)
  <2> HIDE DEF taking
  <2> QED BY <1>6, FirstInNat
<1>8. Vines(introductions'[f], x) \subseteq V \cup N
  <2> SUFFICES ASSUME NEW i \in IntroductionSlots, introductions'[f][i] # NoIntroduction,
                      introductions'[f][i].vine = x
               PROVE  i \in V \/ i \in N
    BY DEF Vines
  <2>1. CASE i \in free /\ taking(i) # {}
    <3>1. introductions'[f][i] = noted(First(taking(i)))
      BY <1>4, <2>1
    <3>2. intros[First(taking(i))].vine = x
      BY <3>1
    <3> QED BY <2>1, <3>2
  <2>2. CASE ~(i \in free /\ taking(i) # {})
    <3>1. introductions'[f][i] = introductions[f][i]
      BY <1>4, <2>2
    <3> QED BY <3>1 DEF Vines
  <2> QED BY <2>1, <2>2
<1>9. IsFiniteSet(V) /\ IsFiniteSet(N) /\ Cardinality(V) \in Nat /\ Cardinality(N) \in Nat
      /\ Cardinality(Vines(introductions'[f], x)) \in Nat
  <2>1. N \subseteq IntroductionSlots /\ V \subseteq IntroductionSlots
    BY DEF Vines
  <2> HIDE DEF N, V
  <2> QED BY <2>1, SlotSetsFinite
<1>10. IsFiniteSet(K) /\ Cardinality(K) \in Nat
  <2>1. IsFiniteSet(1 .. Len(intros))
    BY <1>5, FS_Interval
  <2>2. K \subseteq 1 .. Len(intros)
    BY <1>5
  <2> HIDE DEF K
  <2> QED BY <2>1, <2>2, FS_Subset, FS_CardinalityType
<1>11. ASSUME NEW i \in free, NEW j \in free, i < j
       PROVE  rank(i) < rank(j)
  <2>1. i \in Nat /\ j \in Nat /\ \A h \in free : h \in Nat
    BY Ranges
  <2>2. {h \in free : h < i} \subseteq {h \in free : h < j}
        /\ i \in {h \in free : h < j} /\ i \notin {h \in free : h < i}
    <3> HIDE DEF free
    <3>1. (\A h \in free : h < i => h < j) /\ ~(i < i)
      BY <1>11, <2>1
    <3> QED BY <1>11, <3>1
  <2>3. IsFiniteSet({h \in free : h < i}) /\ IsFiniteSet({h \in free : h < j})
    BY SlotSetsFinite
  <2>4. PICK A, B : A = {h \in free : h < i} /\ B = {h \in free : h < j}
    OBVIOUS
  <2>5. A \subseteq B /\ A # B /\ IsFiniteSet(B)
    BY <2>2, <2>3, <2>4
  <2>6. Cardinality(A) <= Cardinality(B) /\ (Cardinality(A) = Cardinality(B) => A = B)
    BY <2>5, FS_Subset
  <2>7. Cardinality(A) \in Nat /\ Cardinality(B) \in Nat
    BY <2>3, <2>4, FS_CardinalityType
  <2> QED BY <2>4, <2>5, <2>6, <2>7
<1>12. F \in [N -> K] /\ \A i, j \in N : F[i] = F[j] => i = j
  <2>1. \A i \in N : F[i] \in K
    BY <1>7
  <2>2. ASSUME NEW i \in N, NEW j \in N, F[i] = F[j]
        PROVE  i = j
    <3>1. F[i] \in taking(i) /\ F[j] \in taking(j)
      BY <1>7
    <3>2. rank(i) = rank(j)
      BY <2>2, <3>1
    <3>3. i \in Nat /\ j \in Nat /\ i \in free /\ j \in free
      BY Ranges
    <3>4. ASSUME NEW h \in free
          PROVE  rank(h) \in Nat
      BY SlotSetsFinite
    <3> HIDE DEF rank, N, free
    <3>5. ~(i < j)
      <4>1. rank(i) \in Nat /\ rank(j) \in Nat
        BY <3>3, <3>4
      <4> QED BY <1>11, <3>2, <3>3, <4>1
    <3>6. ~(j < i)
      <4>1. rank(i) \in Nat /\ rank(j) \in Nat
        BY <3>3, <3>4
      <4> QED BY <1>11, <3>2, <3>3, <4>1
    <3> QED BY <3>3, <3>5, <3>6
  <2> HIDE DEF K
  <2> QED BY <2>1, <2>2
<1>13. Cardinality(N) <= Cardinality(K)
  <2> HIDE DEF F, N, K
  <2>1. F \in Injection(N, K)
    BY <1>12, Fun_IsInj
  <2>2. ExistsInjection(N, K)
    BY <2>1 DEF ExistsInjection
  <2> QED BY <1>9, <1>10, <2>1, FS_Injection
<1>14. Cardinality(Vines(introductions'[f], x)) <= Cardinality(V) + Cardinality(N)
  <2> HIDE DEF V, N
  <2>1. IsFiniteSet(V \cup N) /\ Cardinality(V \cup N) <= Cardinality(V) + Cardinality(N)
    <3>1. /\ IsFiniteSet(V \cup N)
          /\ Cardinality(V \cup N) = Cardinality(V) + Cardinality(N) - Cardinality(V \cap N)
      BY <1>9, FS_Union
    <3>2. Cardinality(V \cap N) \in Nat
      BY <1>9, FS_Intersection, FS_CardinalityType
    <3> QED BY <1>9, <3>1, <3>2
  <2>2. Cardinality(Vines(introductions'[f], x)) <= Cardinality(V \cup N)
    BY <1>8, <2>1, FS_Subset
  <2>3. Cardinality(V \cup N) \in Nat
    BY <2>1, FS_CardinalityType
  <2> QED BY <1>9, <2>1, <2>2, <2>3
<1>15. Cardinality(Vines(introductions'[f], x)) <= Cardinality(V) + Cardinality(K)
  <2> HIDE DEF V, N, K
  <2> QED BY <1>9, <1>10, <1>13, <1>14
<1> QED BY <1>3, <1>15

\* The introductions that f notes come with the frame that it takes.
LEMMA NotesTake ==
  ASSUME TypeInv, NEW f \in Ends, inbox[f] # <<>>, Head(inbox[f]).type \in {"Return", "Call"},
         NoteIntroductions(f, Head(inbox[f]).intros)
  PROVE  TakesVines(f)
<1>1. Head(inbox[f]) \in Message
  BY DEF TypeInv, TypeOK
<1>2. PICK m \in Message : m = Head(inbox[f])
  BY <1>1
<1>3. m.intros \in Seq(Descriptor)
  BY <1>2, MessageFields DEF Return
<1>4. ASSUME NEW x \in ExportIds
      PROVE  Cardinality(Vines(introductions'[f], x))
               <= Cardinality(Vines(introductions[f], x)) + Carries(m, x)
  <2>1. Cardinality(Vines(introductions'[f], x))
          <= Cardinality(Vines(introductions[f], x))
             + Cardinality({k \in DOMAIN m.intros : m.intros[k].vine = x})
    BY <1>2, <1>3, NotesVines
  <2>2. /\ IsFiniteSet({k \in DOMAIN m.intros : m.intros[k].vine = x})
        /\ Cardinality({k \in DOMAIN m.intros : m.intros[k].vine = x}) <= Carries(m, x)
        /\ Carries(m, x) \in Nat
    BY <1>2, CarriesType
  <2>3. PICK K : K = {k \in DOMAIN m.intros : m.intros[k].vine = x}
    OBVIOUS
  <2>4. Cardinality(K) \in Nat /\ Cardinality(K) <= Carries(m, x)
    BY <2>2, <2>3, FS_CardinalityType
  <2>5. /\ Cardinality(Vines(introductions'[f], x)) \in Nat
        /\ Cardinality(Vines(introductions[f], x)) \in Nat
    BY SlotSetsFinite
  <2> QED BY <2>1, <2>2, <2>3, <2>4, <2>5
<1>5. \A d \in Ends \ {f} : introductions'[d] = introductions[d]
  <2>1. 0 \in ExportIds
    BY WireAssumption DEF WireAssumption, ExportIds
  <2> QED BY <1>2, <1>3, <2>1, NotesVines
<1> QED BY <1>2, <1>4, <1>5 DEF TakesVines

-----------------------------------------------------------------------------
(* Handlers, one by one *)

LEMMA NoFrames == <<>> \in Seq(Message) /\ PlainFrames(<<>>)
BY DEF PlainFrames

LEMMA PlainOne ==
  ASSUME NEW ret \in Return, ret.cap = NoExport, ret.intros = <<>>,
         ret.for = "Join" => (ret.joined <=> ret.obj # NoServer)
  PROVE  <<ret>> \in Seq(Message) /\ PlainFrames(<<ret>>)
<1>1. ret \in Message /\ ret.type = "Return"
  BY DEF Message, Return
<1> QED BY <1>1 DEF PlainFrames

LEMMA ExceptionPlain ==
  ASSUME NEW f \in Ends, NEW m, m.qid \in QuestionIds, m.type \in RequestTypes
  PROVE  <<Exception(f, m)>> \in Seq(Message) /\ PlainFrames(<<Exception(f, m)>>)
<1>1. Exception(f, m) \in Return
  BY ExceptionType
<1>2. /\ Exception(f, m).cap = NoExport /\ Exception(f, m).intros = <<>>
      /\ Exception(f, m).joined = FALSE /\ Exception(f, m).obj = NoServer
  <2>1. PICK r \in Return : r = Results(f, m, NoExport)
    BY ResultsType
  <2>2. r.cap = NoExport /\ r.intros = <<>> /\ r.joined = FALSE /\ r.obj = NoServer
    BY <2>1 DEF Results
  <2>3. Exception(f, m) = [r EXCEPT !.results = FALSE]
    BY <2>1 DEF Exception
  <2> QED BY <2>2, <2>3 DEF Return
<1> QED BY <1>1, <1>2, PlainOne

LEMMA RefuseBalance ==
  ASSUME TypeInv, TypeInv', FreeIsZero, NEW f \in Ends, inbox[f] # <<>>,
         NEW m, m.qid \in QuestionIds, m.type \in RequestTypes, Refuse(f, m), TakesVines(f),
         UNCHANGED <<imports, questions, provisions>>
  PROVE  Balanced(f)
<1>1. Answer(f, <<Exception(f, m)>>) /\ UNCHANGED <<server, refcount, joins>>
  BY DEF Refuse, serverVars
<1>2. <<Exception(f, m)>> \in Seq(Message) /\ PlainFrames(<<Exception(f, m)>>)
  BY ExceptionPlain
<1> QED BY <1>1, <1>2, PlainBalance

LEMMA CallBalance ==
  ASSUME TypeInv, TypeInv', FreeIsZero, NEW f \in Ends, RecvCall(f)
  PROVE  Balanced(f)
<1>1. PICK m : m = Head(inbox[f])
  OBVIOUS
<1>2. /\ inbox[f] # <<>> /\ m \in Message /\ m.type = "Call"
      /\ m.type \in RequestTypes /\ m.qid \in QuestionIds
  BY <1>1, HandlerFacts DEF RecvCall, RequestTypes
<1>3. TakesVines(f)
  BY <1>1, <1>2, NotesTake DEF RecvCall
<1>4. UNCHANGED <<imports, questions, provisions>>
  BY DEF RecvCall, clientVars
<1>5. CASE ResolveTarget(f, m.target) = NoExport
  BY <1>1, <1>2, <1>3, <1>4, <1>5, RefuseBalance DEF RecvCall, HandleCall
<1>6. CASE ResolveTarget(f, m.target) # NoExport
  <2>1. Dispatch(f, m, ResolveTarget(f, m.target)) /\ UNCHANGED <<server, refcount, joins>>
    BY <1>1, <1>6 DEF RecvCall, HandleCall
  <2>2. PICK x \in ExportIds : x = ResolveTarget(f, m.target)
    BY <1>6, ResolveTargetType
  <2>3. PICK outcome \in Outcomes :
          IF outcome = "fails" THEN Absorb(f) /\ UNCHANGED answers
          ELSE FlushAnswer(f, [Results(f, m, NoExport) EXCEPT !.small = (outcome = "small"),
                                                              !.obj = server[f][x]])
    BY <2>1, <2>2 DEF Dispatch
  <2>4. CASE outcome = "fails"
    BY <1>2, <1>3, <1>4, <2>1, <2>3, <2>4, NoFrames, PlainBalance DEF Absorb
  <2>5. CASE outcome # "fails"
    <3>1. PICK r \in Return : r = Results(f, m, NoExport)
      BY <1>2, ResultsType
    <3>2. r.cap = NoExport /\ r.intros = <<>> /\ r.for = "Call"
      BY <1>2, <3>1 DEF Results
    <3>3. server[f][x] \in Servers \cup {NoServer}
      BY DEF TypeInv, TypeOK, ServerTypeOK
    <3>4. PICK ret : ret = [r EXCEPT !.small = (outcome = "small"), !.obj = server[f][x]]
      OBVIOUS
    <3>5. ret \in Return /\ ret.cap = NoExport /\ ret.intros = <<>> /\ ret.for # "Join"
      BY <3>2, <3>3, <3>4 DEF Return
    <3>6. Answer(f, <<ret>>)
      BY <2>3, <2>5, <3>1, <3>4 DEF FlushAnswer
    <3>7. <<ret>> \in Seq(Message) /\ PlainFrames(<<ret>>)
      BY <3>5, PlainOne
    <3> QED BY <1>2, <1>3, <1>4, <2>1, <3>6, <3>7, PlainBalance
  <2> QED BY <2>4, <2>5
<1> QED BY <1>5, <1>6

LEMMA FinishBalance ==
  ASSUME TypeInv, TypeInv', FreeIsZero, NEW f \in Ends, RecvFinish(f)
  PROVE  Balanced(f)
<1>1. inbox[f] # <<>>
  BY HandlerFacts DEF RecvFinish
<1>2. Answer(f, <<>>) /\ UNCHANGED <<server, refcount, joins>>
  BY DEF RecvFinish, HandleFinish, Absorb
<1>3. UNCHANGED <<imports, questions, provisions, introductions>>
  BY DEF RecvFinish, clientVars, handoffVars
<1>4. TakesVines(f)
  BY <1>1, <1>3, TakesNone
<1> QED BY <1>1, <1>2, <1>3, <1>4, NoFrames, PlainBalance

LEMMA OtherBalance ==
  ASSUME TypeInv, TypeInv', FreeIsZero, NEW f \in Ends, RecvOther(f)
  PROVE  Balanced(f)
<1>1. inbox[f] # <<>>
  BY HandlerFacts DEF RecvOther
<1>2. UNCHANGED <<server, refcount, joins>>
  BY DEF RecvOther, HandleUnimplemented, serverVars
<1>3. UNCHANGED <<imports, questions, provisions, introductions>>
  BY DEF RecvOther, clientVars, handoffVars
<1>4. TakesVines(f)
  BY <1>1, <1>3, TakesNone
<1>5. PICK msgs \in Seq(Message) :
        Answer(f, msgs) /\ \A k \in 1 .. Len(msgs) : msgs[k].type = "Unimplemented"
  BY Echoes DEF TypeInv
<1>6. PlainFrames(msgs)
  BY <1>5 DEF PlainFrames
<1> QED BY <1>1, <1>2, <1>3, <1>4, <1>5, <1>6, PlainBalance

\* Release takes from the count exactly what it gives back, or all there is.
LEMMA ReleaseBalance ==
  ASSUME TypeInv, TypeInv', FreeIsZero, NEW f \in Ends, RecvRelease(f)
  PROVE  Balanced(f)
<1>1. PICK m : m = Head(inbox[f])
  OBVIOUS
<1>2. inbox[f] # <<>> /\ m \in Message /\ m.type = "Release" /\ m.id \in WireIds /\ m.count \in Nat
  BY <1>1, HandlerFacts, MessageFields DEF RecvRelease
<1>3. Answer(f, <<>>) /\ UNCHANGED joins
  BY DEF RecvRelease, HandleRelease, Absorb
<1>4. UNCHANGED <<imports, questions, provisions, introductions>>
  BY DEF RecvRelease, clientVars, handoffVars
<1>5. CASE ~(m.id \in ExportIds /\ Used(f, m.id))
  <2>1. UNCHANGED <<server, refcount>>
    BY <1>1, <1>5 DEF RecvRelease, HandleRelease
  <2>2. TakesVines(f)
    BY <1>2, <1>4, TakesNone
  <2> QED BY <1>2, <1>3, <1>4, <2>1, <2>2, NoFrames, PlainBalance
<1>6. CASE m.id \in ExportIds /\ Used(f, m.id)
  <2>1. PICK left : left = refcount[f][m.id] - m.count
    OBVIOUS
  <2>2. /\ refcount' = [refcount EXCEPT ![f][m.id] = IF left <= 0 THEN 0 ELSE left]
        /\ server' = [server EXCEPT ![f][m.id] = IF left <= 0 THEN NoServer ELSE @]
    BY <1>1, <1>6, <2>1 DEF RecvRelease, HandleRelease
  <2>3. /\ server \in [Ends -> [ExportIds -> Servers \cup {NoServer}]]
        /\ refcount \in [Ends -> [ExportIds -> Int]]
    BY DEF TypeInv, TypeOK, ServerTypeOK
  <2>4. /\ \A d \in Ends \ {f} : server'[d] = server[d] /\ refcount'[d] = refcount[d]
        /\ \A x \in ExportIds : x # m.id =>
             server'[f][x] = server[f][x] /\ refcount'[f][x] = refcount[f][x]
        /\ server'[f][m.id] = IF left <= 0 THEN NoServer ELSE server[f][m.id]
        /\ refcount'[f][m.id] = IF left <= 0 THEN 0 ELSE left
    BY <1>6, <2>2, <2>3
  <2>5. PledgesKept(f) /\ PartsStand(f) /\ \A x \in ExportIds : Pledged(f, x)' = Pledged(f, x)
    BY <1>3, <1>4, PledgesRest, PartsRest
  <2>6. ExportsBalance(f, <<m>>, <<>>)
    <3> SUFFICES ASSUME NEW x \in ExportIds
                 PROVE  /\ refcount'[f][x] + Cardinality(Pledged(f, x)) + GivenBackIn(<<m>>, x)
                             >= refcount[f][x] + Cardinality(Pledged(f, x)') + CarriedIn(<<>>, x)
                        /\ server'[f][x] = NoServer => refcount'[f][x] = 0
                        /\ \/ server'[f][x] = server[f][x]
                           \/ server[f][x] = NoServer
                           \/ refcount'[f][x] = 0
      BY DEF ExportsBalance
    <3>1. CarriedIn(<<>>, x) = 0
      BY NoFrames, PlainCarry
    <3>2. GivenBackIn(<<m>>, x) = IF m.id = x THEN m.count ELSE 0
      BY <1>2, GivenBackFacts DEF GivesBack
    <3>3. PICK p \in Nat : p = Cardinality(Pledged(f, x)) /\ p = Cardinality(Pledged(f, x)')
      BY <2>5, TermsTypes DEF TermsTyped
    <3>4. PICK r \in Int : r = refcount[f][x]
      BY <2>3
    <3>5. CASE x # m.id
      <4>1. server'[f][x] = server[f][x] /\ refcount'[f][x] = refcount[f][x]
        BY <2>4, <3>5
      <4>2. server[f][x] = NoServer => refcount[f][x] = 0
        BY DEF FreeIsZero, Used
      <4>3. refcount'[f][x] + p + GivenBackIn(<<m>>, x) >= refcount[f][x] + p + CarriedIn(<<>>, x)
        BY <3>1, <3>2, <3>4, <3>5, <4>1
      <4> QED BY <3>3, <4>1, <4>2, <4>3
    <3>6. CASE x = m.id
      <4>1. left = r - m.count /\ left \in Int
        BY <1>2, <2>1, <3>4, <3>6
      <4>2. CASE left <= 0
        <5>1. refcount'[f][x] = 0
          BY <2>4, <3>6, <4>2
        <5>2. 0 + p + m.count >= r + p + 0
          BY <1>2, <4>1, <4>2
        <5> QED BY <3>1, <3>2, <3>3, <3>4, <3>6, <5>1, <5>2
      <4>3. CASE ~(left <= 0)
        <5>1. refcount'[f][x] = left /\ server'[f][x] = server[f][x] /\ server[f][x] # NoServer
          BY <1>6, <2>4, <3>6, <4>3 DEF Used
        <5>2. left + p + m.count >= r + p + 0
          BY <1>2, <4>1
        <5> QED BY <3>1, <3>2, <3>3, <3>4, <3>6, <5>1, <5>2
      <4> QED BY <4>2, <4>3
    <3> QED BY <3>5, <3>6
  <2>7. TakesVines(f)
    BY <1>2, <1>4, TakesNone
  <2>8. Alone(f)
    BY <1>3, <1>4, <2>4 DEF Alone
  <2>9. SentStand(f, <<>>) /\ \A k \in DOMAIN <<>> : <<>>[k].type # "Release"
    BY DEF SentStand
  <2> QED BY <1>1, <1>2, <1>3, <1>4, <2>5, <2>6, <2>7, <2>8, <2>9, NoFrames, ServesBalance
<1> QED BY <1>5, <1>6

\* capnp_rpc_export counts one reference, which a frame that is sent may carry
\* or the vat may pledge.
LEMMA ExportBalances ==
  ASSUME TypeInv, TypeInv', FreeIsZero, NEW f \in Ends, NEW taken \in Seq(Message),
         NEW sent \in Seq(Message), NEW s \in Servers, NEW x \in ExportIds,
         server[f][x] \in {s, NoServer}, Export(f, s, x),
         \A y \in ExportIds : CarriedIn(sent, y) + Cardinality(Pledged(f, y)')
                                <= Cardinality(Pledged(f, y)) + (IF y = x THEN 1 ELSE 0)
  PROVE  /\ ExportsBalance(f, taken, sent)
         /\ server'[f][x] = s
         /\ \A d \in Ends \ {f} : server'[d] = server[d] /\ refcount'[d] = refcount[d]
<1>1. /\ server \in [Ends -> [ExportIds -> Servers \cup {NoServer}]]
      /\ refcount \in [Ends -> [ExportIds -> Int]]
  BY DEF TypeInv, TypeOK, ServerTypeOK
<1>2. /\ server' = [server EXCEPT ![f][x] = s]
      /\ refcount' = [refcount EXCEPT ![f][x] = IF server[f][x] = s THEN @ + 1 ELSE 1]
  BY DEF Export
<1>3. /\ \A d \in Ends \ {f} : server'[d] = server[d] /\ refcount'[d] = refcount[d]
      /\ \A y \in ExportIds : y # x =>
           server'[f][y] = server[f][y] /\ refcount'[f][y] = refcount[f][y]
      /\ server'[f][x] = s
      /\ refcount'[f][x] = IF server[f][x] = s THEN refcount[f][x] + 1 ELSE 1
  BY <1>1, <1>2
<1>4. refcount'[f][x] = refcount[f][x] + 1
  <2>1. CASE server[f][x] = s
    BY <1>3, <2>1
  <2>2. CASE server[f][x] # s
    <3>1. server[f][x] = NoServer
      BY <2>2
    <3>2. refcount[f][x] = 0
      BY <3>1 DEF FreeIsZero, Used
    <3> QED BY <1>3, <2>2, <3>2
  <2> QED BY <2>1, <2>2
<1>5. s # NoServer
  BY WireAssumption DEF WireAssumption
<1>6. ExportsBalance(f, taken, sent)
  <2> SUFFICES ASSUME NEW y \in ExportIds
               PROVE  /\ refcount'[f][y] + Cardinality(Pledged(f, y)) + GivenBackIn(taken, y)
                           >= refcount[f][y] + Cardinality(Pledged(f, y)') + CarriedIn(sent, y)
                      /\ server'[f][y] = NoServer => refcount'[f][y] = 0
                      /\ \/ server'[f][y] = server[f][y]
                         \/ server[f][y] = NoServer
                         \/ refcount'[f][y] = 0
    BY DEF ExportsBalance
  <2>1. PICK p \in Nat, p2 \in Nat : p = Cardinality(Pledged(f, y)) /\ p2 = Cardinality(Pledged(f, y)')
    BY TermsTypes DEF TermsTyped
  <2>2. PICK g \in Nat, c \in Nat : g = GivenBackIn(taken, y) /\ c = CarriedIn(sent, y)
    BY GivenBackFacts, CarriedFacts
  <2>3. PICK r \in Int : r = refcount[f][y]
    BY <1>1
  <2>4. c + p2 <= p + (IF y = x THEN 1 ELSE 0)
    BY <2>1, <2>2
  <2>5. server[f][y] = NoServer => r = 0
    BY <2>3 DEF FreeIsZero, Used
  <2>6. CASE y = x
    <3>1. refcount'[f][y] = r + 1 /\ c + p2 <= p + 1
      BY <1>4, <2>3, <2>4, <2>6
    <3>2. (r + 1) + p + g >= r + p2 + c
      BY <3>1
    <3> QED BY <1>3, <1>5, <2>1, <2>2, <2>3, <2>6, <3>1, <3>2
  <2>7. CASE y # x
    <3>1. server'[f][y] = server[f][y] /\ refcount'[f][y] = r /\ c + p2 <= p
      BY <1>3, <2>3, <2>4, <2>7
    <3>2. r + p + g >= r + p2 + c
      BY <3>1
    <3> QED BY <2>1, <2>2, <2>3, <2>5, <3>1, <3>2
  <2> QED BY <2>6, <2>7
<1> QED BY <1>3, <1>6

\* A handler that exports s as x and hands it over in the Return it sends.
LEMMA HandsOver ==
  ASSUME TypeInv, TypeInv', FreeIsZero, NEW f \in Ends, inbox[f] # <<>>,
         NEW s \in Servers, NEW x \in ExportIds, server[f][x] \in {s, NoServer}, Export(f, s, x),
         NEW ret \in Return, Answer(f, <<ret>>),
         \A y \in ExportIds : Carries(ret, y) <= IF y = x THEN 1 ELSE 0,
         ret.cap # NoExport => ret.cap = x /\ ret.obj = s, ret.for # "Join",
         PledgesKept(f), \A y \in ExportIds : Pledged(f, y)' = Pledged(f, y),
         UNCHANGED <<joins, imports, questions, introductions>>
  PROVE  Balanced(f)
<1>1. ret \in Message /\ <<ret>> \in Seq(Message) /\ ret.type = "Return"
  BY DEF Message, Return
<1>2. <<Head(inbox[f])>> \in Seq(Message)
  BY <1>1, TurnedByAnswer
<1>3. ASSUME NEW y \in ExportIds
      PROVE  CarriedIn(<<ret>>, y) + Cardinality(Pledged(f, y)')
               <= Cardinality(Pledged(f, y)) + (IF y = x THEN 1 ELSE 0)
  <2>1. CarriedIn(<<ret>>, y) = Carries(ret, y) /\ Carries(ret, y) \in Nat
    BY <1>1, CarriedFacts, CarriesType
  <2>2. PICK p \in Nat : p = Cardinality(Pledged(f, y)) /\ p = Cardinality(Pledged(f, y)')
    BY TermsTypes DEF TermsTyped
  <2>3. PICK c \in Nat : c = Carries(ret, y)
    BY <2>1
  <2>4. c <= IF y = x THEN 1 ELSE 0
    BY <2>3
  <2>5. c + p <= p + (IF y = x THEN 1 ELSE 0)
    BY <2>4
  <2> QED BY <2>1, <2>2, <2>3, <2>5
<1>4. /\ ExportsBalance(f, <<Head(inbox[f])>>, <<ret>>)
      /\ server'[f][x] = s
      /\ \A d \in Ends \ {f} : server'[d] = server[d] /\ refcount'[d] = refcount[d]
  <2>1. PICK taken \in Seq(Message), sent \in Seq(Message) :
          taken = <<Head(inbox[f])>> /\ sent = <<ret>>
    BY <1>1, <1>2
  <2>2. \A y \in ExportIds : CarriedIn(sent, y) + Cardinality(Pledged(f, y)')
                                <= Cardinality(Pledged(f, y)) + (IF y = x THEN 1 ELSE 0)
    BY <1>3, <2>1
  <2>3. /\ ExportsBalance(f, taken, sent) /\ server'[f][x] = s
        /\ \A d \in Ends \ {f} : server'[d] = server[d] /\ refcount'[d] = refcount[d]
    BY <2>2, ExportBalances
  <2> QED BY <2>1, <2>3
<1>5. Alone(f)
  BY <1>4 DEF Alone
<1>6. SentStand(f, <<ret>>) /\ \A k \in DOMAIN <<ret>> : <<ret>>[k].type # "Release"
  <2>1. DOMAIN <<ret>> = {1} /\ <<ret>>[1] = ret
    OBVIOUS
  <2> QED BY <1>1, <1>4, <2>1 DEF SentStand
<1>7. PartsStand(f) /\ TakesVines(f)
  BY PartsRest, TakesNone
<1> QED BY <1>1, <1>4, <1>5, <1>6, <1>7, ServesBalance

\* What a Return carries that hands over one capability.
LEMMA CapCarried ==
  ASSUME NEW ret \in Return, ret.intros = <<>>, NEW y \in ExportIds
  PROVE  Carries(ret, y) = IF ret.cap = y THEN 1 ELSE 0
<1>1. ret \in Message /\ ret.type = "Return"
  BY DEF Message, Return
<1> QED BY <1>1, CarriesType

LEMMA BootstrapBalance ==
  ASSUME TypeInv, TypeInv', FreeIsZero, NEW f \in Ends, RecvBootstrap(f)
  PROVE  Balanced(f)
<1>1. PICK m : m = Head(inbox[f])
  OBVIOUS
<1>2. /\ inbox[f] # <<>> /\ m \in Message /\ m.type = "Bootstrap"
      /\ m.type \in RequestTypes /\ m.qid \in QuestionIds
  BY <1>1, HandlerFacts DEF RecvBootstrap, RequestTypes
<1>3. UNCHANGED <<imports, questions, provisions, introductions>>
  BY DEF RecvBootstrap, clientVars, handoffVars
<1>4. PICK s : s = bootstrap[f]
  OBVIOUS
<1>5. PICK x : x = ExportId(f, s)
  OBVIOUS
<1>6. CASE s = NoServer \/ x = NoExport
  <2>1. TakesVines(f)
    BY <1>2, <1>3, TakesNone
  <2>2. Refuse(f, m)
    BY <1>1, <1>4, <1>5, <1>6 DEF RecvBootstrap, HandleBootstrap
  <2> QED BY <1>2, <1>3, <2>1, <2>2, RefuseBalance
<1>7. CASE ~(s = NoServer \/ x = NoExport)
  <2>1. s \in Servers
    BY <1>4, <1>7 DEF TypeInv, TypeOK, ServerTypeOK
  <2>2. x \in ExportIds /\ server[f][x] \in {s, NoServer}
    BY <1>5, <1>7, <2>1, ExportIdType DEF TypeInv, TypeOK
  <2>3. PICK r \in Return : r = Results(f, m, x)
    BY <1>2, <2>2, ResultsType
  <2>4. r.cap = x /\ r.intros = <<>> /\ r.for = "Bootstrap"
    BY <1>2, <2>3 DEF Results
  <2>5. PICK ret : ret = [r EXCEPT !.obj = s]
    OBVIOUS
  <2>6. ret \in Return /\ ret.cap = x /\ ret.intros = <<>> /\ ret.for # "Join" /\ ret.obj = s
    BY <2>1, <2>4, <2>5 DEF Return
  <2>7. Export(f, s, x) /\ Answer(f, <<ret>>) /\ UNCHANGED joins
    BY <1>1, <1>4, <1>5, <1>7, <2>3, <2>5 DEF RecvBootstrap, HandleBootstrap, FlushAnswer
  <2>8. \A y \in ExportIds : Carries(ret, y) <= IF y = x THEN 1 ELSE 0
    BY <2>6, CapCarried
  <2>9. PledgesKept(f) /\ \A y \in ExportIds : Pledged(f, y)' = Pledged(f, y)
    BY <1>3, PledgesRest
  <2> QED BY <1>2, <1>3, <2>1, <2>2, <2>6, <2>7, <2>8, <2>9, HandsOver
<1> QED BY <1>6, <1>7

\* One descriptor carries one vine.
LEMMA DescriptorCarries ==
  ASSUME NEW m \in Message, m.type \in {"Return", "Call"}, NEW n \in Nonces, NEW x \in ExportIds,
         NEW fits \in BOOLEAN, m.intros = <<[nonce |-> n, vine |-> x, fits |-> fits]>>,
         m.type = "Return" => m.cap = NoExport, NEW y \in ExportIds
  PROVE  Carries(m, y) = IF y = x THEN 1 ELSE 0
<1> DEFINE K == {k \in DOMAIN m.intros : m.intros[k].vine = y}
<1>1. K = IF y = x THEN {1} ELSE {}
  OBVIOUS
<1>2. Cardinality(K) = IF y = x THEN 1 ELSE 0
  <2> HIDE DEF K
  <2>1. CASE y = x
    BY <1>1, <2>1, FS_Singleton
  <2>2. CASE y # x
    BY <1>1, <2>2, FS_EmptySet
  <2> QED BY <2>1, <2>2
<1>3. ~(m.type = "Return" /\ m.cap = y)
  BY Ranges
<1>4. Carries(m, y) = 0 + Cardinality(K)
  BY <1>3 DEF Carries
<1> HIDE DEF K
<1> QED BY <1>2, <1>4

LEMMA ReturnsIntroductionBalance ==
  ASSUME TypeInv, TypeInv', FreeIsZero, NEW f \in Ends, ReturnsIntroduction(f)
  PROVE  Balanced(f)
<1>1. PICK m : m = Head(inbox[f])
  OBVIOUS
<1>2. PICK s \in Servers, n \in Nonces :
        /\ Given(f, "Call") /\ ExportId(f, s) # NoExport /\ Export(f, s, ExportId(f, s))
        /\ Answer(f, <<[Results(f, m, NoExport) EXCEPT
                          !.intros = <<[nonce |-> n, vine |-> ExportId(f, s), fits |-> TRUE]>>]>>)
        /\ UNCHANGED <<bootstrap, answers, joins, clientVars, handoffVars>>
  BY <1>1 DEF ReturnsIntroduction
<1>3. /\ inbox[f] # <<>> /\ m \in Message /\ m.type = "Call"
      /\ m.type \in RequestTypes /\ m.qid \in QuestionIds
  BY <1>1, <1>2, HandlerFacts DEF RequestTypes
<1>4. PICK x : x = ExportId(f, s)
  OBVIOUS
<1>5. x \in ExportIds /\ server[f][x] \in {s, NoServer}
  BY <1>2, <1>4, ExportIdType DEF TypeInv, TypeOK
<1>6. PICK r \in Return : r = Results(f, m, NoExport)
  BY <1>3, ResultsType
<1>7. r.cap = NoExport /\ r.for = "Call"
  BY <1>3, <1>6 DEF Results
<1>8. PICK d : d = <<[nonce |-> n, vine |-> x, fits |-> TRUE]>>
  OBVIOUS
<1>9. d \in Seq(Descriptor)
  BY <1>5, <1>8, DescriptorType
<1>10. PICK ret : ret = [r EXCEPT !.intros = d]
  OBVIOUS
<1>11. ret \in Return /\ ret.cap = NoExport /\ ret.intros = d /\ ret.for # "Join"
  BY <1>7, <1>9, <1>10 DEF Return
<1>12. Answer(f, <<ret>>) /\ Export(f, s, x)
  BY <1>2, <1>4, <1>6, <1>8, <1>10
<1>13. ASSUME NEW y \in ExportIds
       PROVE  Carries(ret, y) <= IF y = x THEN 1 ELSE 0
  <2>1. ret \in Message /\ ret.type = "Return"
    BY <1>11 DEF Message, Return
  <2>2. Carries(ret, y) = IF y = x THEN 1 ELSE 0
    BY <1>5, <1>8, <1>11, <2>1, DescriptorCarries
  <2> QED BY <2>2
<1>14. UNCHANGED <<joins, imports, questions, introductions, provisions>>
  BY <1>2 DEF clientVars, handoffVars
<1>15. PledgesKept(f) /\ \A y \in ExportIds : Pledged(f, y)' = Pledged(f, y)
  BY <1>14, PledgesRest
<1> QED BY <1>3, <1>5, <1>11, <1>12, <1>13, <1>14, <1>15, HandsOver

\* Provision i of vat v becomes p, and the pledges in the other slots are as before.
PledgeChanges(v, i, p) ==
  /\ \A d \in Ends, j \in ProvisionSlots : ~(VatOf[d] = v /\ j = i) =>
       /\ PledgeAt(d, j)' <=> PledgeAt(d, j)
       /\ provisions'[VatOf[d]][j] = provisions[VatOf[d]][j]
  /\ \A d \in Ends : VatOf[d] = v =>
       (PledgeAt(d, i)' <=> p # NoProvision /\ p.embargoed /\ p.by = d)
  /\ provisions'[v][i] = p

LEMMA PledgeChange ==
  ASSUME TypeInv, NEW v \in Vats, NEW i \in ProvisionSlots, NEW p,
         provisions' = [provisions EXCEPT ![v][i] = p]
  PROVE  PledgeChanges(v, i, p)
<1>1. provisions \in [Vats -> [ProvisionSlots -> Provision \cup {NoProvision}]]
  BY DEF TypeInv, TypeOK, HandoffTypeOK
<1>2. \A d \in Ends : VatOf[d] \in Vats
  BY HandoffAssumption DEF HandoffAssumption
<1>3. provisions'[v][i] = p
  BY <1>1
<1>4. ASSUME NEW d \in Ends, NEW j \in ProvisionSlots, ~(VatOf[d] = v /\ j = i)
      PROVE  provisions'[VatOf[d]][j] = provisions[VatOf[d]][j]
  BY <1>1, <1>2, <1>4
<1>5. /\ \A d \in Ends, j \in ProvisionSlots : ~(VatOf[d] = v /\ j = i) =>
           /\ PledgeAt(d, j)' <=> PledgeAt(d, j)
           /\ provisions'[VatOf[d]][j] = provisions[VatOf[d]][j]
      /\ \A d \in Ends : VatOf[d] = v =>
           (PledgeAt(d, i)' <=> p # NoProvision /\ p.embargoed /\ p.by = d)
  BY <1>3, <1>4 DEF PledgeAt
<1> QED BY <1>3, <1>5 DEF PledgeChanges

\* A change among provisions that are not embargoed pledges nothing.
LEMMA UnpledgedRest ==
  ASSUME TypeInv, NEW f \in Ends, NEW v \in Vats, NEW i \in ProvisionSlots, NEW p,
         provisions' = [provisions EXCEPT ![v][i] = p],
         provisions[v][i] = NoProvision \/ ~provisions[v][i].embargoed,
         p = NoProvision \/ ~p.embargoed
  PROVE  PledgesKept(f) /\ \A x \in ExportIds : Pledged(f, x)' = Pledged(f, x)
<1>0. \A d \in Ends, j \in ProvisionSlots : ~(VatOf[d] = v /\ j = i) =>
        /\ PledgeAt(d, j)' <=> PledgeAt(d, j)
        /\ provisions'[VatOf[d]][j] = provisions[VatOf[d]][j]
  BY PledgeChange DEF PledgeChanges
<1>1. ASSUME NEW d \in Ends, NEW j \in ProvisionSlots
      PROVE  /\ PledgeAt(d, j)' <=> PledgeAt(d, j)
             /\ PledgeAt(d, j) => provisions'[VatOf[d]][j] = provisions[VatOf[d]][j]
  <2>1. CASE VatOf[d] = v /\ j = i
    <3>1. ~PledgeAt(d, j)
      BY <2>1 DEF PledgeAt
    <3>2. ~PledgeAt(d, j)'
      <4>1. PledgeAt(d, i)' <=> p # NoProvision /\ p.embargoed /\ p.by = d
        BY <2>1, PledgeChange DEF PledgeChanges
      <4> QED BY <2>1, <4>1
    <3> QED BY <3>1, <3>2
  <2>2. CASE ~(VatOf[d] = v /\ j = i)
    BY <1>0, <2>2
  <2> QED BY <2>1, <2>2
<1> HIDE DEF PledgeAt
<1>2. PledgesKept(f)
  BY <1>1 DEF PledgesKept
<1>3. ASSUME NEW x \in ExportIds
      PROVE  Pledged(f, x)' = Pledged(f, x)
  <2>1. Pledged(f, x)' = {j \in ProvisionSlots :
                            PledgeAt(f, j)' /\ provisions'[VatOf[f]][j].eid = x}
    BY DEF Pledged
  <2> QED BY <1>1, <2>1 DEF Pledged
<1> QED BY <1>2, <1>3

\* handle_provide counts a reference for the arrangement, which nobody holds yet.
LEMMA ProvideBalance ==
  ASSUME TypeInv, TypeInv', FreeIsZero, NEW f \in Ends, RecvProvide(f)
  PROVE  Balanced(f)
<1>1. PICK m : m = Head(inbox[f])
  OBVIOUS
<1>2. /\ inbox[f] # <<>> /\ m \in Message /\ m.type = "Provide"
      /\ m.type \in RequestTypes /\ m.qid \in QuestionIds
  BY <1>1, HandlerFacts DEF RecvProvide, RequestTypes
<1>3. UNCHANGED <<imports, questions, introductions>>
  BY DEF RecvProvide, clientVars
<1>4. TakesVines(f)
  BY <1>2, <1>3, TakesNone
<1>5. PICK v \in Vats : v = VatOf[f]
  BY HandoffAssumption DEF HandoffAssumption
<1>6. PICK eid, free : /\ eid = ResolveTarget(f, m.target)
                       /\ free = {i \in ProvisionSlots : provisions[v][i] = NoProvision}
  OBVIOUS
<1>7. CASE eid = NoExport \/ m.nonce = NoNonce \/ free = {}
  <2>1. Refuse(f, m) /\ UNCHANGED provisions
    BY <1>1, <1>5, <1>6, <1>7 DEF RecvProvide, HandleProvide
  <2> QED BY <1>2, <1>3, <1>4, <2>1, RefuseBalance
<1>8. CASE ~(eid = NoExport \/ m.nonce = NoNonce \/ free = {})
  <2>1. PICK p : p = [nonce |-> m.nonce, server |-> server[f][eid], eid |-> eid, qid |-> m.qid,
                      embargoed |-> FALSE, aqid |-> NoExport, from |-> f, by |-> NoEnd]
    OBVIOUS
  <2>2. /\ provisions' = [provisions EXCEPT ![v][First(free)] = p]
        /\ refcount' = [refcount EXCEPT ![f][eid] = @ + 1]
        /\ FlushAnswer(f, Results(f, m, NoExport))
        /\ UNCHANGED <<server, joins>>
    BY <1>1, <1>5, <1>6, <1>8, <2>1 DEF RecvProvide, HandleProvide
  <2>3. First(free) \in ProvisionSlots /\ provisions[v][First(free)] = NoProvision
    <3>1. First(free) \in free
      BY <1>6, <1>8, FirstInNat, Ranges
    <3> QED BY <1>6, <3>1
  <2>4. PledgesKept(f) /\ \A x \in ExportIds : Pledged(f, x)' = Pledged(f, x)
    <3>1. PICK i \in ProvisionSlots : i = First(free)
      BY <2>3
    <3>2. ~p.embargoed
      BY <2>1
    <3> QED BY <2>2, <2>3, <3>1, <3>2, UnpledgedRest
  <2>5. PICK ret \in Return : ret = Results(f, m, NoExport)
    BY <1>2, ResultsType
  <2>6. ret.cap = NoExport /\ ret.intros = <<>> /\ ret.for # "Join"
    BY <1>2, <2>5 DEF Results
  <2>7. Answer(f, <<ret>>)
    BY <2>2, <2>5 DEF FlushAnswer
  <2>8. PICK sent \in Seq(Message) : sent = <<ret>> /\ PlainFrames(sent)
    BY <2>6, PlainOne
  <2>9. SentStand(f, sent) /\ \A k \in DOMAIN sent : sent[k].type # "Release"
    BY <2>8, PlainStand
  <2>10. eid \in ExportIds /\ server[f][eid] # NoServer
    BY <1>6, <1>8, ResolveTargetType DEF Used
  <2>11. /\ \A d \in Ends \ {f} : refcount'[d] = refcount[d]
         /\ \A x \in ExportIds : refcount[f][x] \in Int
         /\ \A x \in ExportIds :
              refcount'[f][x] = refcount[f][x] + (IF x = eid THEN 1 ELSE 0)
    <3>1. refcount \in [Ends -> [ExportIds -> Int]]
      BY DEF TypeInv, TypeOK, ServerTypeOK
    <3> QED BY <2>2, <2>10, <3>1
  <2>12. PICK taken \in Seq(Message) : taken = <<Head(inbox[f])>>
    BY <1>2, <2>7, <2>8, TurnedByAnswer
  <2>13. ExportsBalance(f, taken, sent)
    <3> SUFFICES ASSUME NEW x \in ExportIds
                 PROVE  /\ refcount'[f][x] + Cardinality(Pledged(f, x)) + GivenBackIn(taken, x)
                             >= refcount[f][x] + Cardinality(Pledged(f, x)') + CarriedIn(sent, x)
                        /\ server'[f][x] = NoServer => refcount'[f][x] = 0
                        /\ server'[f][x] = server[f][x]
      BY DEF ExportsBalance
    <3>1. PICK q \in Nat : q = Cardinality(Pledged(f, x)) /\ q = Cardinality(Pledged(f, x)')
      BY <2>4, TermsTypes DEF TermsTyped
    <3>2. PICK g \in Nat : g = GivenBackIn(taken, x)
      BY GivenBackFacts
    <3>3. CarriedIn(sent, x) = 0
      BY <2>8, PlainCarry
    <3>4. PICK r \in Int : r = refcount[f][x]
      BY <2>11
    <3>5. (r + (IF x = eid THEN 1 ELSE 0)) + q + g >= r + q + 0
      <4>1. CASE x = eid
        BY <4>1
      <4>2. CASE x # eid
        BY <4>2
      <4> QED BY <4>1, <4>2
    <3>6. server' = server
      BY <2>2
    <3>7. server[f][x] = NoServer => refcount'[f][x] = 0
      <4>1. server[f][x] = NoServer => r = 0 /\ x # eid
        BY <2>10, <3>4 DEF FreeIsZero, Used
      <4>2. refcount'[f][x] = r + (IF x = eid THEN 1 ELSE 0)
        BY <2>11, <3>4
      <4>3. x # eid => refcount'[f][x] = r
        BY <4>2
      <4> QED BY <3>6, <4>1, <4>3
    <3> QED BY <2>11, <3>1, <3>2, <3>3, <3>4, <3>5, <3>6, <3>7
  <2>14. Alone(f)
    BY <1>3, <2>2, <2>11 DEF Alone
  <2>15. PartsStand(f)
    BY <2>2, PartsRest
  <2> QED BY <1>2, <1>3, <1>4, <2>4, <2>7, <2>8, <2>9, <2>12, <2>13, <2>14, <2>15, ServesBalance
<1> QED BY <1>7, <1>8
=============================================================================
