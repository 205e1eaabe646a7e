--------------------------- MODULE RpcStreamProofs ---------------------------
(***************************************************************************)
(* The flow control of streams, proved for every window, every number of   *)
(* connections and every interleaving of the stream API with the rest of   *)
(* the connections.  What the inductive invariant adds to the properties   *)
(* of RpcStream is where the calls of a stream are: a call that was made   *)
(* is listed and open, or it has been retired and its question is free,    *)
(* so that no Return can reach it any more; and what the ghost `replied'   *)
(* says of an open question is what its slot says.                         *)
(***************************************************************************)
EXTENDS RpcStream, RpcFlowProofs, SequenceTheorems

\* The contract of the stream API: the application leaves Finish to the stream, which
\* finishes every call it retires.
StreamsFinishTheirCalls ==
  \A e \in Ends : "stream" \in Ops[e] => "finish" \notin Ops[e] /\ "earlyFinish" \notin Ops[e]

-----------------------------------------------------------------------------
(* The inductive invariant, for one end: its stream s, its table of questions t,  *)
(* the next id n and the verdicts v that the ghost has seen.                      *)

Streams == [window : 0 .. MaxWindow, qids : Seq(QuestionIds),
            failure : QuestionIds \cup {NoFailure}, sent : SUBSET QuestionIds]

\* What the slot of an open question says of its Return.
Verdict(r) == IF ~r.answered THEN "none" ELSE IF r.failed THEN "failed" ELSE "ok"

\* Question q has a slot of t; it is an outstanding call of s.
OpenIn(t, q) == \E i \in QuestionSlots : t[i] # NoQuestion /\ t[i].qid = q
Listed(s, q) == \E i \in DOMAIN s.qids : s.qids[i] = q

\* Ids are spent in order, a question has one slot, and the ghost follows the table.
TableGood(t, n, v) ==
  /\ \A i, j \in QuestionSlots :
       t[i] # NoQuestion /\ t[j] # NoQuestion /\ t[i].qid = t[j].qid => i = j
  /\ \A i \in QuestionSlots :
       t[i] # NoQuestion => t[i].qid < n /\ v[t[i].qid] = Verdict(t[i])
  /\ \A q \in QuestionIds : q >= n => v[q] = "none"

\* The window holds the outstanding calls, oldest first, and they are open.
WindowGood(s, t) ==
  /\ Len(s.qids) <= s.window
  /\ \A i, k \in DOMAIN s.qids : i < k => s.qids[i] < s.qids[k]
  /\ \A i \in DOMAIN s.qids : s.qids[i] \in s.sent /\ OpenIn(t, s.qids[i])

\* A call that was made and is not outstanding is finished, and succeeded unless the
\* stream has failed.
SentGood(s, t, n, v) ==
  \A q \in s.sent :
    /\ q < n
    /\ ~Listed(s, q) => ~OpenIn(t, q) /\ (s.failure = NoFailure => v[q] = "ok")

\* The failure is the first.
FailureGood(s, v) ==
  s.failure # NoFailure =>
    /\ s.failure \in s.sent /\ ~Listed(s, s.failure) /\ v[s.failure] # "ok"
    /\ \A q \in s.sent : q < s.failure => ~Listed(s, q) /\ v[q] = "ok"

Good(s, t, n, v) ==
  TableGood(t, n, v) /\ WindowGood(s, t) /\ SentGood(s, t, n, v) /\ FailureGood(s, v)

\* A stream that is used is open, on an end that streams; a finished stream that has not
\* failed has no outstanding call.
StreamUsed(e) ==
  /\ stream[e] = NoStream \/ ("stream" \in Ops[e] /\ stream[e].window >= 1)
  /\ result[e] = "ok" => stream[e].failure = NoFailure /\ stream[e].qids = <<>>

StreamInv ==
  /\ TypeInv
  /\ StreamTypeOK
  /\ \A e \in Ends : Good(stream[e], questions[e], nextQid[e], replied[e]) /\ StreamUsed(e)

-----------------------------------------------------------------------------
(* Values *)

\* The stream and the table once the k oldest calls are retired, f being the failure.
Rest(s, k) == SubSeq(s.qids, k + 1, Len(s.qids))
Retires(s, k, f) == [s EXCEPT !.qids = Rest(s, k), !.failure = f]

\* The table has lost exactly the questions of the k oldest calls.
LosesOldest(s, k, t, u) ==
  \A i \in QuestionSlots :
    u[i] = IF t[i] # NoQuestion /\ \E j \in 1 .. k : s.qids[j] = t[i].qid
           THEN NoQuestion ELSE t[i]

\* f is the failure of s, or else the first of the k oldest calls that did not succeed.
FirstBad(s, k, v, f) ==
  \/ s.failure # NoFailure /\ f = s.failure
  \/ s.failure = NoFailure /\ f = NoFailure /\ \A j \in 1 .. k : v[s.qids[j]] = "ok"
  \/ /\ s.failure = NoFailure
     /\ \E i \in 1 .. k : /\ f = s.qids[i] /\ v[f] # "ok"
                          /\ \A j \in 1 .. k : j < i => v[s.qids[j]] = "ok"

\* What is left of the list.
LEMMA RestFacts ==
  ASSUME NEW s \in Streams, NEW k \in 0 .. Len(s.qids)
  PROVE  /\ Rest(s, k) \in Seq(QuestionIds) /\ Len(Rest(s, k)) = Len(s.qids) - k
         /\ \A i \in DOMAIN Rest(s, k) :
              i \in Nat \ {0} /\ i + k \in DOMAIN s.qids /\ Rest(s, k)[i] = s.qids[i + k]
         /\ \A i \in DOMAIN s.qids :
              i > k => i - k \in DOMAIN Rest(s, k) /\ Rest(s, k)[i - k] = s.qids[i]
<1>1. s.qids \in Seq(QuestionIds) /\ Len(s.qids) \in Nat /\ DOMAIN s.qids = 1 .. Len(s.qids)
  BY DEF Streams
<1> DEFINE m == k + 1
           n == Len(s.qids)
<1>2. m \in Int /\ n \in Int /\ \A i \in m .. n : s.qids[i] \in QuestionIds
  BY <1>1
<1>3. /\ SubSeq(s.qids, m, n) \in Seq(QuestionIds)
      /\ Len(SubSeq(s.qids, m, n)) = IF m <= n THEN n - m + 1 ELSE 0
      /\ \A i \in 1 .. n - m + 1 : SubSeq(s.qids, m, n)[i] = s.qids[m + i - 1]
  <2> HIDE DEF m, n
  <2> QED BY <1>2, SubSeqProperties
<1>4. DOMAIN Rest(s, k) = 1 .. (n - k)
  BY <1>1, <1>3 DEF Rest
<1>5. \A i \in 1 .. (n - k) : Rest(s, k)[i] = s.qids[i + k]
  BY <1>1, <1>3 DEF Rest
<1>6. Rest(s, k) \in Seq(QuestionIds) /\ Len(Rest(s, k)) = n - k
  BY <1>1, <1>3 DEF Rest
<1>7. \A i \in 1 .. (n - k) : i \in Nat \ {0} /\ i + k \in 1 .. n
  BY <1>1
<1>8. \A i \in 1 .. n : i > k => i - k \in 1 .. (n - k) /\ (i - k) + k = i
  BY <1>1
<1> HIDE DEF n
<1> QED BY <1>1, <1>4, <1>5, <1>6, <1>7, <1>8 DEF n

\* Retiring keeps the stream and its table in order.
LEMMA RetireGood ==
  ASSUME NEW s \in Streams, NEW t \in [QuestionSlots -> Question \cup {NoQuestion}],
         NEW n \in Nat, NEW v, Good(s, t, n, v), NEW k \in 0 .. Len(s.qids),
         NEW u, LosesOldest(s, k, t, u), NEW f, FirstBad(s, k, v, f)
  PROVE  Good(Retires(s, k, f), u, n, v)
<1> DEFINE r == Retires(s, k, f)
<1>0. s.qids \in Seq(QuestionIds) /\ s.window \in 0 .. MaxWindow /\ s.sent \subseteq QuestionIds
      /\ QuestionIds \subseteq Nat
  BY Ranges DEF Streams
<1>1. s.qids \in Seq(QuestionIds) /\ s.window \in Nat /\ DOMAIN s.qids = 1 .. Len(s.qids)
      /\ Len(s.qids) \in Nat /\ (\A i \in DOMAIN s.qids : s.qids[i] \in Nat) /\ s.sent \subseteq Nat
  <2>1. MaxWindow \in Nat
    BY StreamAssumption DEF StreamAssumption
  <2>2. DOMAIN s.qids = 1 .. Len(s.qids) /\ Len(s.qids) \in Nat
    BY <1>0
  <2>3. \A i \in DOMAIN s.qids : s.qids[i] \in QuestionIds
    BY <1>0
  <2>4. s.window \in Nat
    BY <1>0, <2>1
  <2> QED BY <1>0, <2>2, <2>3, <2>4
<1>2. r.qids = Rest(s, k) /\ r.failure = f /\ r.window = s.window /\ r.sent = s.sent
  BY DEF Retires, Streams
<1>3. /\ Rest(s, k) \in Seq(QuestionIds) /\ Len(r.qids) = Len(s.qids) - k
      /\ \A i \in DOMAIN r.qids :
           i \in Nat \ {0} /\ i + k \in DOMAIN s.qids /\ r.qids[i] = s.qids[i + k]
      /\ \A i \in DOMAIN s.qids :
           i > k => i - k \in DOMAIN r.qids /\ r.qids[i - k] = s.qids[i]
  BY <1>2, RestFacts
<1> HIDE DEF r
<1>4. \A i \in QuestionSlots : u[i] # NoQuestion => t[i] # NoQuestion /\ u[i] = t[i]
  BY DEF LosesOldest
<1>5. TableGood(u, n, v)
  BY <1>4 DEF TableGood, Good
<1>6. \A i, j \in DOMAIN s.qids : s.qids[i] = s.qids[j] => i = j
  <2> TAKE i \in DOMAIN s.qids, j \in DOMAIN s.qids
  <2>1. i < j => s.qids[i] < s.qids[j]
    BY DEF Good, WindowGood
  <2>2. j < i => s.qids[j] < s.qids[i]
    BY DEF Good, WindowGood
  <2> QED BY <1>1, <2>1, <2>2
<1>7. \A q : Listed(r, q) <=> \E i \in DOMAIN s.qids : i > k /\ s.qids[i] = q
  <2> TAKE q
  <2>1. ASSUME Listed(r, q)
        PROVE  \E i \in DOMAIN s.qids : i > k /\ s.qids[i] = q
    <3>1. PICK i \in DOMAIN r.qids : r.qids[i] = q
      BY <2>1 DEF Listed
    <3>2. i + k \in DOMAIN s.qids /\ i + k > k /\ s.qids[i + k] = q
      BY <1>3, <3>1
    <3> QED BY <3>2
  <2>2. ASSUME NEW i \in DOMAIN s.qids, i > k, s.qids[i] = q
        PROVE  Listed(r, q)
    BY <1>3, <2>2 DEF Listed
  <2> QED BY <2>1, <2>2
<1>8. WindowGood(r, u)
  <2>1. Len(r.qids) <= r.window
    BY <1>1, <1>2, <1>3 DEF Good, WindowGood
  <2>2. \A i, j \in DOMAIN r.qids : i < j => r.qids[i] < r.qids[j]
    <3> TAKE i \in DOMAIN r.qids, j \in DOMAIN r.qids
    <3>1. i + k < j + k => s.qids[i + k] < s.qids[j + k]
      BY <1>3 DEF Good, WindowGood
    <3> QED BY <1>3, <3>1
  <2>3. ASSUME NEW i \in DOMAIN r.qids
        PROVE  r.qids[i] \in r.sent /\ OpenIn(u, r.qids[i])
    <3>1. i + k \in DOMAIN s.qids /\ r.qids[i] = s.qids[i + k] /\ i + k > k
      BY <1>3
    <3>2. s.qids[i + k] \in s.sent /\ OpenIn(t, s.qids[i + k])
      BY <3>1 DEF Good, WindowGood
    <3>3. PICK x \in QuestionSlots : t[x] # NoQuestion /\ t[x].qid = s.qids[i + k]
      BY <3>2 DEF OpenIn
    <3>4. ~\E j \in 1 .. k : s.qids[j] = t[x].qid
      BY <1>1, <1>6, <3>1, <3>3
    <3>5. u[x] = t[x]
      BY <3>4 DEF LosesOldest
    <3> QED BY <1>2, <3>1, <3>2, <3>3, <3>5 DEF OpenIn
  <2> QED BY <2>1, <2>2, <2>3 DEF WindowGood
<1>9. ASSUME NEW q \in s.sent, ~Listed(r, q)
      PROVE  ~OpenIn(u, q) /\ (Listed(s, q) => \E j \in 1 .. k : s.qids[j] = q)
  <2>1. Listed(s, q) => \E j \in 1 .. k : s.qids[j] = q
    <3>1. \A j \in DOMAIN s.qids : s.qids[j] = q => ~(j > k)
      BY <1>7, <1>9
    <3>2. \A j \in DOMAIN s.qids : ~(j > k) => j \in 1 .. k
      BY <1>1
    <3> QED BY <3>1, <3>2 DEF Listed
  <2>2. CASE Listed(s, q)
    BY <1>4, <2>1, <2>2 DEF LosesOldest, OpenIn
  <2>3. CASE ~Listed(s, q)
    <3>1. ~OpenIn(t, q)
      BY <2>3 DEF Good, SentGood
    <3> QED BY <1>4, <2>3, <3>1 DEF OpenIn
  <2> QED BY <2>1, <2>2, <2>3
<1>10. SentGood(r, u, n, v)
  <2> SUFFICES ASSUME NEW q \in s.sent
               PROVE  /\ q < n
                      /\ ~Listed(r, q) => ~OpenIn(u, q) /\ (f = NoFailure => v[q] = "ok")
    BY <1>2 DEF SentGood
  <2>1. q < n
    BY DEF Good, SentGood
  <2>2. ASSUME ~Listed(r, q), f = NoFailure
        PROVE  v[q] = "ok"
    <3>1. NoFailure \notin QuestionIds
      BY DEF NoFailure, QuestionIds
    <3>2. s.failure = NoFailure /\ \A j \in 1 .. k : v[s.qids[j]] = "ok"
      BY <1>1, <2>2, <3>1 DEF FirstBad, Streams
    <3>3. CASE Listed(s, q)
      BY <1>9, <2>2, <3>2, <3>3
    <3>4. CASE ~Listed(s, q)
      BY <3>2, <3>4 DEF Good, SentGood
    <3> QED BY <3>3, <3>4
  <2> QED BY <1>9, <2>1, <2>2
<1>11. FailureGood(r, v)
  <2> SUFFICES ASSUME f # NoFailure
               PROVE  /\ f \in s.sent /\ ~Listed(r, f) /\ v[f] # "ok"
                      /\ \A q \in s.sent : q < f => ~Listed(r, q) /\ v[q] = "ok"
    BY <1>2 DEF FailureGood
  <2>1. CASE s.failure # NoFailure /\ f = s.failure
    <3>1. /\ f \in s.sent /\ ~Listed(s, f) /\ v[f] # "ok"
          /\ \A q \in s.sent : q < f => ~Listed(s, q) /\ v[q] = "ok"
      BY <2>1 DEF Good, FailureGood
    <3>2. \A q : Listed(r, q) => Listed(s, q)
      BY <1>7 DEF Listed
    <3> QED BY <3>1, <3>2
  <2>2. ASSUME s.failure = NoFailure, NEW i \in 1 .. k, f = s.qids[i], v[f] # "ok",
               \A j \in 1 .. k : j < i => v[s.qids[j]] = "ok"
        PROVE  /\ f \in s.sent /\ ~Listed(r, f) /\ v[f] # "ok"
               /\ \A q \in s.sent : q < f => ~Listed(r, q) /\ v[q] = "ok"
    <3>1. i \in DOMAIN s.qids
      BY <1>1
    <3>2. f \in s.sent
      BY <2>2, <3>1 DEF Good, WindowGood
    <3>3. ~Listed(r, f)
      BY <1>1, <1>6, <1>7, <2>2, <3>1, SMTT(30)
    <3>4. ASSUME NEW q \in s.sent, q < f
          PROVE  ~Listed(r, q) /\ v[q] = "ok"
      <4>1. CASE ~Listed(s, q)
        <5>1. v[q] = "ok"
          BY <2>2, <4>1 DEF Good, SentGood
        <5> QED BY <1>7, <4>1, <5>1 DEF Listed
      <4>2. ASSUME NEW j \in DOMAIN s.qids, s.qids[j] = q
            PROVE  j < i
        <5>1. i < j => f < q
          BY <2>2, <3>1, <4>2 DEF Good, WindowGood
        <5>2. q \in Nat /\ f \in Nat /\ i \in Nat /\ j \in Nat
          BY <1>1, <2>2, <3>1
        <5>3. ~(f < q) /\ f # q
          BY <3>4, <5>2
        <5> QED BY <2>2, <4>2, <5>1, <5>2, <5>3
      <4>3. CASE Listed(s, q)
        <5>1. PICK j \in DOMAIN s.qids : s.qids[j] = q
          BY <4>3 DEF Listed
        <5>2. j < i /\ j \in 1 .. k
          BY <1>1, <4>2, <5>1
        <5>3. v[q] = "ok"
          BY <2>2, <5>1, <5>2
        <5>4. ~Listed(r, q)
          BY <1>1, <1>7, <4>2
        <5> QED BY <5>3, <5>4
      <4> QED BY <4>1, <4>3
    <3> QED BY <2>2, <3>2, <3>3, <3>4
  <2> QED BY <2>1, <2>2 DEF FirstBad
<1> QED BY <1>5, <1>8, <1>10, <1>11 DEF Good, r

\* An id that has been spent.
LEMMA SpendGood ==
  ASSUME NEW s \in Streams, NEW t \in [QuestionSlots -> Question \cup {NoQuestion}],
         NEW n \in Nat, NEW v, Good(s, t, n, v)
  PROVE  Good(s, t, n + 1, v)
<1>1. s.sent \subseteq Nat /\ QuestionIds \subseteq Nat
  BY Ranges DEF Streams
<1>2. \A i \in QuestionSlots : t[i] # NoQuestion => t[i].qid \in Nat
  BY <1>1 DEF Question
<1>3. TableGood(t, n + 1, v)
  BY <1>1, <1>2 DEF Good, TableGood
<1>4. SentGood(s, t, n + 1, v)
  BY <1>1 DEF Good, SentGood
<1> QED BY <1>3, <1>4 DEF Good

\* A question that is asked takes a free slot of the table, and its id has no verdict.
LEMMA AskGood ==
  ASSUME NEW s \in Streams, NEW t \in [QuestionSlots -> Question \cup {NoQuestion}],
         NEW n \in QuestionIds, NEW v, Good(s, t, n, v), NEW i \in QuestionSlots,
         t[i] = NoQuestion, NEW req \in Request, req.qid = n
  PROVE  Good(s, [t EXCEPT ![i] = Asked(req)], n + 1, v)
<1> DEFINE u == [t EXCEPT ![i] = Asked(req)]
<1>1. n \in Nat /\ QuestionIds \subseteq Nat
  BY Ranges
<1>2. u[i] = Asked(req) /\ \A j \in QuestionSlots : j # i => u[j] = t[j]
  OBVIOUS
<1>3. Asked(req).qid = n /\ Verdict(Asked(req)) = "none"
  BY DEF Asked, Verdict
<1>4. \A j \in QuestionSlots : t[j] # NoQuestion => t[j].qid < n /\ t[j].qid \in Nat
  BY <1>1 DEF Good, TableGood, Question
<1>5. Good(s, t, n + 1, v)
  BY <1>1, SpendGood
<1>6. v[n] = "none"
  BY <1>1 DEF Good, TableGood
<1> HIDE DEF u
<1>7. TableGood(u, n + 1, v)
  <2>1. ASSUME NEW j \in QuestionSlots, NEW k \in QuestionSlots, u[j] # NoQuestion,
               u[k] # NoQuestion, u[j].qid = u[k].qid
        PROVE  j = k
    <3>1. CASE j = i \/ k = i
      BY <1>1, <1>2, <1>3, <1>4, <2>1, <3>1
    <3>2. CASE j # i /\ k # i
      BY <1>2, <2>1, <3>2 DEF Good, TableGood
    <3> QED BY <3>1, <3>2
  <2>2. ASSUME NEW j \in QuestionSlots, u[j] # NoQuestion
        PROVE  u[j].qid < n + 1 /\ v[u[j].qid] = Verdict(u[j])
    <3>1. CASE j = i
      BY <1>1, <1>2, <1>3, <1>6, <3>1
    <3>2. CASE j # i
      BY <1>2, <1>5, <2>2, <3>2 DEF Good, TableGood
    <3> QED BY <3>1, <3>2
  <2>3. \A q \in QuestionIds : q >= n + 1 => v[q] = "none"
    BY <1>5 DEF Good, TableGood
  <2> QED BY <2>1, <2>2, <2>3 DEF TableGood
<1>8. \A q : OpenIn(u, q) => OpenIn(t, q) \/ q = n
  BY <1>2, <1>3 DEF OpenIn
<1>9. \A q : OpenIn(t, q) => OpenIn(u, q)
  BY <1>2 DEF OpenIn
<1>10. WindowGood(s, u)
  BY <1>9 DEF Good, WindowGood
<1>11. SentGood(s, u, n + 1, v)
  <2> SUFFICES ASSUME NEW q \in s.sent
               PROVE  /\ q < n + 1
                      /\ ~Listed(s, q) => ~OpenIn(u, q) /\ (s.failure = NoFailure => v[q] = "ok")
    BY DEF SentGood
  <2>1. q < n /\ q \in Nat
    BY <1>1 DEF Good, SentGood, Streams
  <2>2. q < n + 1
    BY <1>5 DEF Good, SentGood
  <2>3. ~Listed(s, q) => ~OpenIn(t, q) /\ (s.failure = NoFailure => v[q] = "ok")
    BY DEF Good, SentGood
  <2>4. q # n
    BY <1>1, <2>1
  <2> QED BY <1>8, <2>2, <2>3, <2>4
<1> QED BY <1>7, <1>10, <1>11 DEF Good, u

\* The call that was asked last joins the window.
Joins(s, n) == [s EXCEPT !.qids = Append(@, n), !.sent = @ \cup {n}]

LEMMA JoinsGood ==
  ASSUME NEW s \in Streams, NEW t \in [QuestionSlots -> Question \cup {NoQuestion}],
         NEW n \in QuestionIds, NEW v, Good(s, t, n + 1, v), OpenIn(t, n), v[n] = "none",
         \A q \in s.sent : q < n, s.failure = NoFailure, Len(s.qids) < s.window
  PROVE  Good(Joins(s, n), t, n + 1, v)
<1> DEFINE r == Joins(s, n)
           m == Len(s.qids)
<1>1. /\ r.qids = Append(s.qids, n) /\ r.sent = s.sent \cup {n}
      /\ r.window = s.window /\ r.failure = NoFailure
  BY DEF Joins, Streams
<1>2. s.qids \in Seq(QuestionIds) /\ m \in Nat /\ n \in Nat /\ DOMAIN s.qids = 1 .. m
      /\ QuestionIds \subseteq Nat
  BY Ranges DEF Streams
<1>3. /\ Len(r.qids) = m + 1 /\ DOMAIN r.qids = 1 .. (m + 1) /\ r.qids[m + 1] = n
      /\ \A i \in 1 .. m : r.qids[i] = s.qids[i]
  BY <1>1, <1>2
<1> HIDE DEF r
<1>4. \A i \in 1 .. (m + 1) : i \in 1 .. m \/ i = m + 1
  BY <1>2
<1>5. \A q : Listed(r, q) <=> Listed(s, q) \/ q = n
  <2>1. \A i \in 1 .. m : i \in 1 .. (m + 1)
    BY <1>2
  <2>2. m + 1 \in 1 .. (m + 1)
    BY <1>2
  <2> HIDE DEF m
  <2> QED BY <1>2, <1>3, <1>4, <2>1, <2>2 DEF Listed
<1>6. WindowGood(r, t)
  <2>1. Len(r.qids) <= r.window
    <3>1. s.window \in Int
      BY StreamAssumption DEF Streams, StreamAssumption
    <3> QED BY <1>1, <1>2, <1>3, <3>1
  <2>2. ASSUME NEW i \in DOMAIN r.qids, NEW k \in DOMAIN r.qids, i < k
        PROVE  r.qids[i] < r.qids[k]
    <3>1. i \in 1 .. m
      BY <1>2, <1>3, <2>2
    <3>2. CASE k \in 1 .. m
      BY <1>2, <1>3, <2>2, <3>1, <3>2 DEF Good, WindowGood
    <3>3. CASE k = m + 1
      <4>1. s.qids[i] \in s.sent
        BY <1>2, <3>1 DEF Good, WindowGood
      <4> QED BY <1>3, <3>1, <3>3, <4>1
    <3> QED BY <1>3, <1>4, <3>2, <3>3
  <2>3. \A i \in DOMAIN r.qids : r.qids[i] \in r.sent /\ OpenIn(t, r.qids[i])
    <3> TAKE i \in DOMAIN r.qids
    <3>1. CASE i \in 1 .. m
      BY <1>1, <1>2, <1>3, <3>1 DEF Good, WindowGood
    <3>2. CASE i = m + 1
      BY <1>1, <1>3, <3>2
    <3> QED BY <1>3, <1>4, <3>1, <3>2
  <2> QED BY <2>1, <2>2, <2>3 DEF WindowGood
<1>7. SentGood(r, t, n + 1, v)
  <2>1. n < n + 1
    BY <1>2
  <2> QED BY <1>1, <1>5, <2>1 DEF Good, SentGood
<1>8. FailureGood(r, v) /\ TableGood(t, n + 1, v)
  BY <1>1 DEF Good, FailureGood
<1> QED BY <1>6, <1>7, <1>8 DEF Good, r

\* The verdicts w say of question q what v says, but for the one that r answers.
VerdictsMoved(v, w, r) ==
  w[r.qid] = Verdict(r) /\ \A q \in QuestionIds : q # r.qid => w[q] = v[q]

\* A Return that is recorded changes one slot and one verdict.
LEMMA RecordGood ==
  ASSUME NEW s \in Streams, NEW t \in [QuestionSlots -> Question \cup {NoQuestion}],
         NEW n \in Nat, NEW v, Good(s, t, n, v), NEW i \in QuestionSlots, t[i] # NoQuestion,
         NEW r \in Question, r.qid = t[i].qid, NEW w, VerdictsMoved(v, w, r)
  PROVE  Good(s, [t EXCEPT ![i] = r], n, w)
<1> DEFINE u == [t EXCEPT ![i] = r]
<1>1. u[i] = r /\ \A j \in QuestionSlots : j # i => u[j] = t[j]
  OBVIOUS
<1>2. r # NoQuestion /\ r.qid \in QuestionIds
  BY UnusedQuestionAssumption DEF Question
<1>3. \A j \in QuestionSlots : t[j] # NoQuestion => t[j].qid \in QuestionIds
  BY DEF Question
<1> HIDE DEF u
<1>4. \A j \in QuestionSlots : (u[j] # NoQuestion <=> t[j] # NoQuestion)
                               /\ (t[j] # NoQuestion => u[j].qid = t[j].qid)
  BY <1>1, <1>2
<1>5. w[r.qid] = Verdict(r) /\ \A q \in QuestionIds : q # r.qid => w[q] = v[q]
  BY DEF VerdictsMoved
<1>6. TableGood(u, n, w)
  <2>1. \A j, k \in QuestionSlots :
          u[j] # NoQuestion /\ u[k] # NoQuestion /\ u[j].qid = u[k].qid => j = k
    BY <1>4 DEF Good, TableGood
  <2>2. ASSUME NEW j \in QuestionSlots, u[j] # NoQuestion
        PROVE  u[j].qid < n /\ w[u[j].qid] = Verdict(u[j])
    <3>1. u[j].qid = t[j].qid /\ t[j].qid < n /\ v[t[j].qid] = Verdict(t[j])
      BY <1>4, <2>2 DEF Good, TableGood
    <3>2. CASE j = i
      BY <1>1, <1>5, <3>1, <3>2
    <3>3. CASE j # i
      <4>1. t[j].qid # t[i].qid
        BY <1>4, <2>2, <3>3 DEF Good, TableGood
      <4> QED BY <1>1, <1>3, <1>4, <1>5, <2>2, <3>1, <3>3, <4>1
    <3> QED BY <3>2, <3>3
  <2>3. ASSUME NEW q \in QuestionIds, q >= n
        PROVE  w[q] = "none"
    <3>1. t[i].qid < n
      BY DEF Good, TableGood
    <3>2. q # r.qid
      BY <1>2, <2>3, <3>1, Ranges
    <3> QED BY <1>5, <2>3, <3>2 DEF Good, TableGood
  <2> QED BY <2>1, <2>2, <2>3 DEF TableGood
<1>7. \A q : OpenIn(u, q) <=> OpenIn(t, q)
  BY <1>4 DEF OpenIn
<1>8. WindowGood(s, u)
  BY <1>7 DEF Good, WindowGood
<1>9. \A q \in s.sent : ~Listed(s, q) => w[q] = v[q]
  <2>1. OpenIn(t, r.qid)
    BY DEF OpenIn
  <2>2. \A q \in s.sent : ~Listed(s, q) => q # r.qid
    BY <2>1 DEF Good, SentGood
  <2>3. s.sent \subseteq QuestionIds
    BY DEF Streams
  <2> QED BY <1>5, <2>2, <2>3
<1>10. SentGood(s, u, n, w)
  BY <1>7, <1>9 DEF Good, SentGood
<1>11. FailureGood(s, w)
  BY <1>9 DEF Good, FailureGood
<1> QED BY <1>6, <1>8, <1>10, <1>11 DEF Good, u

\* A question that is finished where nothing streams.
LEMMA ForgetGood ==
  ASSUME NEW s, s = NoStream, NEW t, NEW n, NEW v, Good(s, t, n, v),
         NEW u, \A i \in QuestionSlots : u[i] \in {t[i], NoQuestion}
  PROVE  Good(s, u, n, v)
<1>1. s.sent = {} /\ s.qids = <<>> /\ s.failure = NoFailure
  BY DEF NoStream
<1>2. \A i \in QuestionSlots : u[i] # NoQuestion => t[i] # NoQuestion /\ u[i] = t[i]
  OBVIOUS
<1>3. TableGood(u, n, v)
  BY <1>2 DEF Good, TableGood
<1>4. WindowGood(s, u)
  BY <1>1 DEF Good, WindowGood
<1> QED BY <1>1, <1>3, <1>4 DEF Good, SentGood, FailureGood

-----------------------------------------------------------------------------
(* The steps of the connections *)

\* What a step of the connections does to the tables of questions, at f.
TableStep(f) ==
  \/ UNCHANGED questions /\ nextQid' \in {nextQid, [nextQid EXCEPT ![f] = @ + 1]}
  \/ \E m \in Return : \E i \in SlotsOf(f, m.qid) : Records(f, m, i) /\ UNCHANGED nextQid
  \/ \E req \in Request, i \in FreeQuestions(f) :
       /\ req.qid = nextQid[f] /\ req.qid \in QuestionIds /\ Claims(f, i, req)
       /\ nextQid' = [nextQid EXCEPT ![f] = @ + 1]
  \/ /\ "finish" \in Ops[f] \/ "earlyFinish" \in Ops[f]
     /\ \E q : Forget(f, q)
     /\ UNCHANGED nextQid

LEMMA RequestsTableStep ==
  ASSUME NEW f \in Ends, TypeInv, Requests(f)
  PROVE  TableStep(f)
<1>1. PICK req \in Request : req.qid = nextQid[f] /\ Ask(f, req)
  BY DEF Requests
<1>2. req.qid \in QuestionIds
  BY <1>1, NextQidType DEF Ask, TypeInv
<1>3. nextQid' = [nextQid EXCEPT ![f] = @ + 1]
  BY <1>1 DEF Ask
<1>4. CASE Claim(f, req)
  <2>1. FreeQuestions(f) \subseteq Nat /\ FreeQuestions(f) # {}
    BY <1>1, Ranges DEF Ask, FreeQuestions
  <2>2. PICK i \in FreeQuestions(f) : i = Min(FreeQuestions(f))
    BY <2>1, MinInNat
  <2>3. Claims(f, i, req)
    BY <1>4, <2>2 DEF Claim, Claims
  <2> QED BY <1>1, <1>2, <1>3, <2>3 DEF TableStep
<1>5. CASE UNCHANGED questions
  BY <1>3, <1>5 DEF TableStep
<1> QED BY <1>1, <1>4, <1>5 DEF Ask

\* Every step of the connections is such a step.
LEMMA NextTableStep ==
  ASSUME TypeInv, Next
  PROVE  \E f \in Ends : TableStep(f)
<1>1. PICK f \in Ends : Receive(f) \/ Acts(f)
  BY DEF Next
<1>2. UNCHANGED clientVars => TableStep(f)
  BY DEF clientVars, TableStep
<1>3. CASE Receive(f)
  <2>1. CASE RecvReturn(f)
    <3> DEFINE m == Head(inbox[f])
    <3>1. m \in Return
      BY <2>1, HandlerFacts, MessageFields DEF RecvReturn, Given
    <3>2. CASE Recorded(f, m)
      <4>1. PICK i \in SlotsOf(f, m.qid) : i = Min(SlotsOf(f, m.qid))
        BY <3>2, MinInNat, Ranges DEF Recorded, SlotsOf
      <4>2. Records(f, m, i) /\ UNCHANGED nextQid
        BY <2>1, <3>2, <4>1 DEF RecvReturn, HandleReturn, Records
      <4> HIDE DEF m
      <4> QED BY <3>1, <4>2 DEF TableStep
    <3>3. CASE ~Recorded(f, m)
      BY <2>1, <3>3 DEF RecvReturn, HandleReturn, TableStep
    <3> QED BY <3>2, <3>3
  <2>2. CASE ~RecvReturn(f)
    <3>1. UNCHANGED <<questions, nextQid>>
      BY <1>3, <2>2 DEF Receive, RecvBootstrap, RecvCall, RecvFinish, RecvRelease, RecvJoin,
            RecvDisembargo, RecvProvide, RecvAccept, RecvOther, clientVars
    <3> QED BY <3>1 DEF TableStep
  <2> QED BY <2>1, <2>2
<1>4. CASE Acts(f)
  <2>1. CASE Asks(f)
    BY <2>1, AsksRequest, RequestsTableStep DEF TypeInv
  <2>2. CASE Tells(f)
    BY <2>2 DEF Tells, SendFinish, SendRelease, SendDisembargo, SendResolve, clientVars, TableStep
  <2>3. CASE Hosts(f) \/ ReturnsIntroduction(f) \/ PicksUp(f)
    BY <1>2, <2>3 DEF Hosts, ReturnsIntroduction, PicksUp
  <2>4. CASE Introduces(f)
    BY <2>4, IntroducesTypes, RequestsTableStep DEF TypeInv
  <2> QED BY <1>4, <2>1, <2>2, <2>3, <2>4 DEF Acts
<1> QED BY <1>1, <1>3, <1>4

\* A question has one slot of t.
OneSlotEach(t) ==
  \A i, j \in QuestionSlots :
    t[i] # NoQuestion /\ t[j] # NoQuestion /\ t[i].qid = t[j].qid => i = j

\* The ghost after a step of the connections.
LEMMA GhostFollows ==
  ASSUME NEW e \in Ends, Other, NEW u, u = questions'[e], OneSlotEach(u), NEW q \in QuestionIds
  PROVE  /\ \A i \in QuestionSlots :
              u[i] # NoQuestion /\ u[i].qid = q /\ u[i].answered => replied'[e][q] = Verdict(u[i])
         /\ (\A i \in QuestionSlots : u[i] # NoQuestion /\ u[i].qid = q => ~u[i].answered)
              => replied'[e][q] = replied[e][q]
<1> DEFINE Ok == \E r \in OpenQuestions(e)' : r.qid = q /\ r.answered /\ ~r.failed
           Bad1 == \E r \in OpenQuestions(e)' : r.qid = q /\ r.answered /\ r.failed
<1>1. replied'[e][q] = CASE Ok -> "ok" [] Bad1 -> "failed" [] OTHER -> replied[e][q]
  BY DEF Other
<1>2. OpenQuestions(e)' = {u[i] : i \in {j \in QuestionSlots : u[j] # NoQuestion}}
  BY DEF OpenQuestions, FreeQuestions
<1>3. /\ Ok <=> \E i \in QuestionSlots : u[i] # NoQuestion /\ u[i].qid = q /\ u[i].answered
                                         /\ ~u[i].failed
      /\ Bad1 <=> \E i \in QuestionSlots : u[i] # NoQuestion /\ u[i].qid = q /\ u[i].answered
                                           /\ u[i].failed
  BY <1>2
<1> HIDE DEF Ok, Bad1
<1>4. ASSUME NEW i \in QuestionSlots, u[i] # NoQuestion, u[i].qid = q, u[i].answered
      PROVE  replied'[e][q] = Verdict(u[i])
  <2>1. \A j \in QuestionSlots : u[j] # NoQuestion /\ u[j].qid = q => j = i
    BY <1>4 DEF OneSlotEach
  <2>2. CASE u[i].failed
    <3>1. Bad1 /\ ~Ok
      BY <1>3, <1>4, <2>1, <2>2
    <3>2. replied'[e][q] = "failed"
      BY <1>1, <3>1
    <3> QED BY <1>4, <2>2, <3>2 DEF Verdict
  <2>3. CASE ~u[i].failed
    <3>1. ~Bad1 /\ Ok
      BY <1>3, <1>4, <2>1, <2>3
    <3>2. replied'[e][q] = "ok"
      BY <1>1, <3>1
    <3> QED BY <1>4, <2>3, <3>2 DEF Verdict
  <2> QED BY <2>2, <2>3
<1>5. ASSUME \A i \in QuestionSlots : u[i] # NoQuestion /\ u[i].qid = q => ~u[i].answered
      PROVE  replied'[e][q] = replied[e][q]
  <2>1. ~Ok /\ ~Bad1
    BY <1>3, <1>5
  <2> QED BY <1>1, <2>1
<1> QED BY <1>4, <1>5

\* It does not change as long as the table says of every open question what the ghost says.
LEMMA GhostStays ==
  ASSUME NEW e \in Ends, Other, NEW u, u = questions'[e], OneSlotEach(u),
         replied[e] \in [QuestionIds -> {"none", "ok", "failed"}],
         \A i \in QuestionSlots : u[i] # NoQuestion =>
           u[i].qid \in QuestionIds /\ replied[e][u[i].qid] = Verdict(u[i])
  PROVE  replied'[e] = replied[e]
<1>1. \A q \in QuestionIds : replied'[e][q] = replied[e][q]
  <2> TAKE q \in QuestionIds
  <2>1. CASE \E i \in QuestionSlots : u[i] # NoQuestion /\ u[i].qid = q /\ u[i].answered
    <3>1. PICK i \in QuestionSlots : u[i] # NoQuestion /\ u[i].qid = q /\ u[i].answered
      BY <2>1
    <3> QED BY <3>1, GhostFollows
  <2>2. CASE ~\E i \in QuestionSlots : u[i] # NoQuestion /\ u[i].qid = q /\ u[i].answered
    BY <2>2, GhostFollows
  <2> QED BY <2>1, <2>2
<1>2. replied'[e] = [q \in QuestionIds |-> replied'[e][q]]
  <2> DEFINE New(d, q) ==
               CASE \E r \in OpenQuestions(d)' : r.qid = q /\ r.answered /\ ~r.failed -> "ok"
                 [] \E r \in OpenQuestions(d)' : r.qid = q /\ r.answered /\ r.failed -> "failed"
                 [] OTHER -> replied[d][q]
  <2>1. replied' = [d \in Ends |-> [q \in QuestionIds |-> New(d, q)]]
    BY DEF Other
  <2> HIDE DEF New
  <2>2. replied'[e] = [q \in QuestionIds |-> New(e, q)]
    BY <2>1, Zenon
  <2> QED BY <2>2
<1>3. replied[e] = [q \in QuestionIds |-> replied[e][q]]
  OBVIOUS
<1> QED BY <1>1, <1>2, <1>3, Zenon

\* A Return that is recorded is all that the ghost learns.
LEMMA GhostLearns ==
  ASSUME NEW e \in Ends, Other, TypeInv,
         Good(stream[e], questions[e], nextQid[e], replied[e]), NEW m \in Return,
         NEW i, i \in SlotsOf(e, m.qid), Records(e, m, i)
  PROVE  \E r \in Question : /\ r.qid = questions[e][i].qid
                             /\ questions'[e] = [questions[e] EXCEPT ![i] = r]
                             /\ VerdictsMoved(replied[e], replied'[e], r)
<1> DEFINE t == questions[e]
           v == replied[e]
           r0 == [t[i] EXCEPT !.answered = TRUE, !.failed = ~m.results, !.reply = m]
<1>1. questions \in [Ends -> [QuestionSlots -> Question \cup {NoQuestion}]]
      /\ i \in QuestionSlots /\ t[i] # NoQuestion /\ t[i].qid = m.qid
  BY DEF TypeInv, TypeOK, ClientTypeOK, SlotsOf
<1>2. t[i] \in Question /\ m.results \in BOOLEAN
  BY <1>1 DEF Return
<1>3. r0 \in Question /\ r0.qid = t[i].qid /\ r0.answered
  BY <1>2 DEF Question
<1>4. PICK r \in Question : r = r0
  BY <1>3
<1>5. PICK u : u = questions'[e]
  OBVIOUS
<1>6. u = [t EXCEPT ![i] = r]
  BY <1>1, <1>4, <1>5 DEF Records
<1>7. r.qid = t[i].qid /\ r.answered /\ r.qid \in QuestionIds /\ r # NoQuestion
  BY <1>3, <1>4, UnusedQuestionAssumption DEF Question
<1> HIDE DEF r0
<1>8. u[i] = r /\ \A j \in QuestionSlots : j # i => u[j] = t[j]
  BY <1>1, <1>6
<1>9. OneSlotEach(u)
  <2>1. \A j \in QuestionSlots : (u[j] # NoQuestion <=> t[j] # NoQuestion)
                                 /\ (t[j] # NoQuestion => u[j].qid = t[j].qid)
    BY <1>1, <1>7, <1>8
  <2> QED BY <2>1 DEF Good, TableGood, OneSlotEach
<1>10. replied'[e][r.qid] = Verdict(r)
  BY <1>1, <1>5, <1>7, <1>8, <1>9, GhostFollows
<1>11. ASSUME NEW q \in QuestionIds, q # r.qid
       PROVE  replied'[e][q] = v[q]
  <2>1. CASE \E j \in QuestionSlots : u[j] # NoQuestion /\ u[j].qid = q /\ u[j].answered
    <3>1. PICK j \in QuestionSlots : u[j] # NoQuestion /\ u[j].qid = q /\ u[j].answered
      BY <2>1
    <3>2. u[j] = t[j]
      BY <1>8, <1>11, <3>1
    <3>3. v[q] = Verdict(u[j])
      BY <3>1, <3>2 DEF Good, TableGood
    <3> QED BY <1>5, <1>9, <3>1, <3>3, GhostFollows
  <2>2. CASE ~\E j \in QuestionSlots : u[j] # NoQuestion /\ u[j].qid = q /\ u[j].answered
    BY <1>5, <1>9, <2>2, GhostFollows
  <2> QED BY <2>1, <2>2
<1>12. VerdictsMoved(v, replied'[e], r)
  BY <1>10, <1>11 DEF VerdictsMoved
<1> QED BY <1>5, <1>6, <1>7, <1>12

\* The ghost holds verdicts.
LEMMA GhostType ==
  ASSUME Other, replied \in [Ends -> [QuestionIds -> {"none", "ok", "failed"}]]
  PROVE  replied' \in [Ends -> [QuestionIds -> {"none", "ok", "failed"}]]
<1> DEFINE New(d, q) ==
             CASE \E r \in OpenQuestions(d)' : r.qid = q /\ r.answered /\ ~r.failed -> "ok"
               [] \E r \in OpenQuestions(d)' : r.qid = q /\ r.answered /\ r.failed -> "failed"
               [] OTHER -> replied[d][q]
<1>1. replied' = [d \in Ends |-> [q \in QuestionIds |-> New(d, q)]]
  BY DEF Other
<1>2. ASSUME NEW d \in Ends, NEW q \in QuestionIds
      PROVE  New(d, q) \in {"none", "ok", "failed"}
  <2> DEFINE A == \E r \in OpenQuestions(d)' : r.qid = q /\ r.answered /\ ~r.failed
             B == \E r \in OpenQuestions(d)' : r.qid = q /\ r.answered /\ r.failed
  <2>1. replied[d][q] \in {"none", "ok", "failed"}
    OBVIOUS
  <2>2. New(d, q) = CASE A -> "ok" [] B -> "failed" [] OTHER -> replied[d][q]
    OBVIOUS
  <2> HIDE DEF A, B, New
  <2>3. CASE A /\ B
    <3>1. New(d, q) = "ok" \/ New(d, q) = "failed"
      BY <2>2, <2>3
    <3> QED BY <3>1
  <2>4. CASE A /\ ~B
    BY <2>2, <2>4
  <2>5. CASE ~A /\ B
    BY <2>2, <2>5
  <2>6. CASE ~A /\ ~B
    BY <2>1, <2>2, <2>6
  <2> QED BY <2>3, <2>4, <2>5, <2>6
<1> HIDE DEF New
<1> QED BY <1>1, <1>2

\* What the stream proofs know of the state of one end.
EndTypes(e) ==
  /\ stream[e] \in Streams
  /\ questions[e] \in [QuestionSlots -> Question \cup {NoQuestion}]
  /\ nextQid[e] \in Nat
  /\ replied[e] \in [QuestionIds -> {"none", "ok", "failed"}]

LEMMA EndTyped ==
  ASSUME StreamTypeOK, NEW e \in Ends
  PROVE  EndTypes(e)
BY WireAssumption DEF StreamTypeOK, TypeOK, ClientTypeOK, Streams, EndTypes, WireAssumption

\* A step of the connections keeps the streams in order.
LEMMA OtherGood ==
  ASSUME StreamsFinishTheirCalls, StreamInv, Other, NEW f \in Ends, TableStep(f), NEW e \in Ends
  PROVE  Good(stream[e], questions'[e], nextQid'[e], replied'[e])
<1> DEFINE s == stream[e]
           t == questions[e]
           n == nextQid[e]
           v == replied[e]
<1>1. Good(s, t, n, v) /\ StreamUsed(e) /\ TypeInv
  BY DEF StreamInv
<1>2. EndTypes(e)
  BY EndTyped DEF StreamInv
<1>3. questions \in [Ends -> [QuestionSlots -> Question \cup {NoQuestion}]]
      /\ nextQid \in [Ends -> 0 .. MaxAsks]
  BY DEF StreamInv, TypeInv, TypeOK, ClientTypeOK
<1>4. PICK u : u = questions'[e]
  OBVIOUS
<1>5. ASSUME NEW k, Good(s, u, k, v)
      PROVE  replied'[e] = v
  <2>1. OneSlotEach(u) /\ \A i \in QuestionSlots : u[i] # NoQuestion => v[u[i].qid] = Verdict(u[i])
    BY <1>5 DEF Good, TableGood, OneSlotEach
  <2>2. \A i \in QuestionSlots : u[i] # NoQuestion => u[i].qid \in QuestionIds
    <3>1. TypeInv'
      BY <1>1, TypeStep DEF Other
    <3>2. \A i \in QuestionSlots : questions'[e][i] \in Question \cup {NoQuestion}
      BY <3>1 DEF TypeInv, TypeOK, ClientTypeOK
    <3> QED BY <1>4, <3>2 DEF Question
  <2> QED BY <1>2, <1>4, <2>1, <2>2, GhostStays DEF EndTypes
<1>6. ASSUME Good(s, u, nextQid'[e], v)
      PROVE  Good(stream[e], questions'[e], nextQid'[e], replied'[e])
  BY <1>4, <1>5, <1>6
<1>7. CASE UNCHANGED questions /\ nextQid' \in {nextQid, [nextQid EXCEPT ![f] = @ + 1]}
  <2>1. u = t /\ nextQid'[e] \in {n, n + 1}
    BY <1>3, <1>4, <1>7
  <2>2. Good(s, u, n + 1, v)
    BY <1>1, <1>2, <2>1, SpendGood DEF EndTypes
  <2> HIDE DEF s, n, v
  <2>3. Good(s, u, nextQid'[e], v)
    BY <1>1, <2>1, <2>2
  <2> QED BY <1>6, <2>3
<1>8. CASE \E m \in Return : \E i \in SlotsOf(f, m.qid) : Records(f, m, i) /\ UNCHANGED nextQid
  <2>0. PICK m \in Return : \E i \in SlotsOf(f, m.qid) : Records(f, m, i) /\ UNCHANGED nextQid
    BY <1>8
  <2>1. PICK i \in SlotsOf(f, m.qid) : Records(f, m, i) /\ UNCHANGED nextQid
    BY <2>0
  <2>2. CASE e = f
    <3>1. PICK r \in Question : /\ r.qid = questions[e][i].qid
                                /\ questions'[e] = [questions[e] EXCEPT ![i] = r]
                                /\ VerdictsMoved(v, replied'[e], r)
      <4>1. i \in SlotsOf(e, m.qid) /\ Records(e, m, i)
        BY <2>1, <2>2
      <4>2. Good(stream[e], questions[e], nextQid[e], replied[e]) /\ TypeInv
        BY <1>1
      <4> HIDE DEF s, t, n, v
      <4>3. \E r \in Question : /\ r.qid = questions[e][i].qid
                                /\ questions'[e] = [questions[e] EXCEPT ![i] = r]
                                /\ VerdictsMoved(replied[e], replied'[e], r)
        BY <4>1, <4>2, GhostLearns
      <4> QED BY <4>3 DEF v
    <3>2. i \in QuestionSlots /\ t[i] # NoQuestion
      BY <2>2 DEF SlotsOf
    <3>3. PICK w : w = replied'[e]
      OBVIOUS
    <3>4. Good(s, [t EXCEPT ![i] = r], n, w)
      BY <1>1, <1>2, <3>1, <3>2, <3>3, RecordGood DEF EndTypes
    <3> QED BY <2>1, <3>1, <3>3, <3>4
  <2>3. CASE e # f
    <3>1. u = t /\ nextQid'[e] = n
      BY <1>3, <1>4, <2>1, <2>3 DEF Records
    <3> QED BY <1>1, <1>6, <3>1
  <2> QED BY <2>2, <2>3
<1>9. CASE \E req \in Request, i \in FreeQuestions(f) :
             /\ req.qid = nextQid[f] /\ req.qid \in QuestionIds /\ Claims(f, i, req)
             /\ nextQid' = [nextQid EXCEPT ![f] = @ + 1]
  <2>1. PICK req \in Request, i \in FreeQuestions(f) :
          /\ req.qid = nextQid[f] /\ req.qid \in QuestionIds /\ Claims(f, i, req)
          /\ nextQid' = [nextQid EXCEPT ![f] = @ + 1]
    BY <1>9
  <2>2. CASE e = f
    <3>1. i \in QuestionSlots /\ t[i] = NoQuestion /\ n \in QuestionIds /\ req.qid = n
      BY <2>1, <2>2 DEF FreeQuestions
    <3>2. u = [t EXCEPT ![i] = Asked(req)] /\ nextQid'[e] = n + 1
      BY <1>3, <1>4, <2>1, <2>2 DEF Claims
    <3>3. Good(s, u, n + 1, v)
      BY <1>1, <1>2, <3>1, <3>2, AskGood DEF EndTypes
    <3> QED BY <1>6, <3>2, <3>3
  <2>3. CASE e # f
    <3>1. u = t /\ nextQid'[e] = n
      BY <1>3, <1>4, <2>1, <2>3 DEF Claims
    <3> QED BY <1>1, <1>6, <3>1
  <2> QED BY <2>2, <2>3
<1>10. CASE /\ "finish" \in Ops[f] \/ "earlyFinish" \in Ops[f]
            /\ \E q : Forget(f, q)
            /\ UNCHANGED nextQid
  <2>1. PICK q : Forget(f, q)
    BY <1>10
  <2>2. CASE e = f
    <3>1. s = NoStream
      BY <1>1, <1>10, <2>2 DEF StreamsFinishTheirCalls, StreamUsed
    <3>2. \A i \in QuestionSlots : u[i] \in {t[i], NoQuestion}
      <4>1. PICK x : x = Min(SlotsOf(f, q))
        OBVIOUS
      <4>2. questions' = questions \/ questions' = [questions EXCEPT ![f][x] = NoQuestion]
        BY <2>1, <4>1 DEF Forget
      <4> QED BY <1>3, <1>4, <2>2, <4>2
    <3>3. Good(s, u, n, v)
      BY <1>1, <3>1, <3>2, ForgetGood
    <3> QED BY <1>6, <1>10, <3>3
  <2>3. CASE e # f
    <3>1. u = t /\ nextQid'[e] = n
      BY <1>3, <1>4, <1>10, <2>1, <2>3 DEF Forget
    <3> QED BY <1>1, <1>6, <3>1
  <2> QED BY <2>2, <2>3
<1> QED BY <1>7, <1>8, <1>9, <1>10 DEF TableStep

\* So it keeps the invariant.
LEMMA OtherKeeps ==
  ASSUME StreamsFinishTheirCalls, StreamInv, Other
  PROVE  StreamInv'
<1>1. TypeInv'
  BY TypeStep DEF StreamInv, Other
<1>2. UNCHANGED <<stream, result>>
  BY DEF Other
<1>3. StreamTypeOK'
  BY <1>1, <1>2, GhostType DEF StreamInv, StreamTypeOK, TypeInv
<1>4. PICK f \in Ends : TableStep(f)
  BY NextTableStep DEF Other, StreamInv
<1>5. ASSUME NEW e \in Ends
      PROVE  Good(stream'[e], questions'[e], nextQid'[e], replied'[e]) /\ StreamUsed(e)'
  <2>1. Good(stream[e], questions'[e], nextQid'[e], replied'[e])
    BY <1>4, OtherGood
  <2>2. StreamUsed(e)'
    BY <1>2 DEF StreamInv, StreamUsed
  <2> QED BY <1>2, <2>1, <2>2
<1> QED BY <1>1, <1>3, <1>5 DEF StreamInv

-----------------------------------------------------------------------------
(* The stream API *)

\* The k oldest calls.
LEMMA OldestFacts ==
  ASSUME NEW s \in Streams, NEW k \in 0 .. Len(s.qids), NEW g, g = SubSeq(s.qids, 1, k)
  PROVE  /\ g \in Seq(QuestionIds) /\ DOMAIN g = 1 .. k
         /\ \A i \in 1 .. k : i \in DOMAIN s.qids /\ g[i] = s.qids[i]
<1>1. s.qids \in Seq(QuestionIds) /\ Len(s.qids) \in Nat /\ DOMAIN s.qids = 1 .. Len(s.qids)
  BY DEF Streams
<1>2. \A i \in 1 .. k : s.qids[i] \in QuestionIds
  BY <1>1
<1>3. /\ g \in Seq(QuestionIds)
      /\ Len(g) = IF 1 <= k THEN k - 1 + 1 ELSE 0
      /\ \A i \in 1 .. k - 1 + 1 : g[i] = s.qids[1 + i - 1]
  BY <1>2, SubSeqProperties
<1> QED BY <1>1, <1>3

\* What the stream reads of an open question is what the ghost says.
LEMMA BadMeans ==
  ASSUME NEW e \in Ends, EndTypes(e), TableGood(questions[e], nextQid[e], replied[e]), NEW q,
         OpenIn(questions[e], q)
  PROVE  Bad(e, q) <=> replied[e][q] # "ok"
<1> DEFINE t == questions[e]
<1>1. PICK i \in QuestionSlots : t[i] # NoQuestion /\ t[i].qid = q
  BY DEF OpenIn
<1>2. SlotsOf(e, q) = {i}
  BY <1>1 DEF TableGood, SlotsOf
<1>3. Min(SlotsOf(e, q)) = i
  <2>1. SlotsOf(e, q) \subseteq Nat /\ SlotsOf(e, q) # {}
    BY <1>2, Ranges
  <2> QED BY <1>2, <2>1, MinInNat
<1>4. replied[e][q] = Verdict(t[i])
  BY <1>1 DEF TableGood
<1>5. t[i].answered \in BOOLEAN /\ t[i].failed \in BOOLEAN
  <2>1. t[i] \in Question
    BY <1>1 DEF EndTypes
  <2> QED BY <2>1 DEF Question
<1>6. IsAnswered(e, q) <=> t[i].answered
  BY <1>2, <1>3 DEF IsAnswered
<1>7. IsFailed(e, q) <=> t[i].answered /\ t[i].failed
  BY <1>3, <1>6 DEF IsFailed
<1> HIDE DEF t
<1>8. Verdict(t[i]) # "ok" <=> ~t[i].answered \/ t[i].failed
  BY <1>5 DEF Verdict
<1> QED BY <1>4, <1>6, <1>7, <1>8 DEF Bad

\* The failure that retiring records is the first.
LEMMA FailureMeans ==
  ASSUME NEW e \in Ends, EndTypes(e),
         Good(stream[e], questions[e], nextQid[e], replied[e]),
         NEW k \in 0 .. Len(stream[e].qids), NEW g, g = SubSeq(stream[e].qids, 1, k)
  PROVE  FirstBad(stream[e], k, replied[e], FailureAfter(e, stream[e], g))
<1> DEFINE s == stream[e]
           v == replied[e]
           bad == {i \in DOMAIN g : Bad(e, g[i])}
           f == FailureAfter(e, s, g)
<1>1. DOMAIN g = 1 .. k /\ \A i \in 1 .. k : i \in DOMAIN s.qids /\ g[i] = s.qids[i]
  BY OldestFacts DEF EndTypes
<1>2. \A i \in 1 .. k : Bad(e, g[i]) <=> v[s.qids[i]] # "ok"
  <2> TAKE i \in 1 .. k
  <2>1. OpenIn(questions[e], s.qids[i])
    BY <1>1 DEF Good, WindowGood
  <2> QED BY <1>1, <2>1, BadMeans DEF Good
<1>3. f = IF s.failure # NoFailure \/ bad = {} THEN s.failure ELSE g[Min(bad)]
  BY DEF FailureAfter
<1>4. bad = {i \in 1 .. k : v[s.qids[i]] # "ok"}
  BY <1>1, <1>2
<1> SUFFICES FirstBad(s, k, v, f)
  OBVIOUS
<1> HIDE DEF f, bad, s, v
<1>5. CASE s.failure # NoFailure
  BY <1>3, <1>5 DEF FirstBad
<1>6. CASE s.failure = NoFailure /\ bad = {}
  <2>1. f = NoFailure
    BY <1>3, <1>6
  <2>2. \A j \in 1 .. k : v[s.qids[j]] = "ok"
    BY <1>4, <1>6
  <2> QED BY <1>6, <2>1, <2>2 DEF FirstBad
<1>7. CASE s.failure = NoFailure /\ bad # {}
  <2>1. bad \subseteq Nat
    BY <1>4
  <2>2. PICK i : i = Min(bad) /\ i \in bad /\ \A j \in bad : i <= j
    BY <1>7, <2>1, MinIsLeast
  <2>3. i \in 1 .. k /\ f = s.qids[i] /\ v[s.qids[i]] # "ok"
    BY <1>1, <1>3, <1>4, <1>7, <2>2
  <2>4. \A j \in 1 .. k : j < i => v[s.qids[j]] = "ok"
    BY <1>4, <2>2, <2>3
  <2> QED BY <1>7, <2>3, <2>4 DEF FirstBad
<1> QED BY <1>5, <1>6, <1>7

\* Retiring the k oldest calls of a stream.
RetiresWell(e, k, r, u) ==
  /\ r \in Streams /\ u \in [QuestionSlots -> Question \cup {NoQuestion}]
  /\ r.window = stream[e].window /\ r.sent = stream[e].sent
  /\ r.qids = Rest(stream[e], k) /\ Len(r.qids) = Len(stream[e].qids) - k
  /\ Good(r, u, nextQid[e], replied[e])

LEMMA RetiringGood ==
  ASSUME NEW e \in Ends, EndTypes(e),
         Good(stream[e], questions[e], nextQid[e], replied[e]),
         NEW k \in 0 .. Len(stream[e].qids),
         NEW g, g \in Seq(QuestionIds), DOMAIN g = 1 .. k,
         \A i \in 1 .. k : g[i] = stream[e].qids[i]
  PROVE  RetiresWell(e, k, Retired(e, stream[e], k), TableWithout(e, g))
<1> DEFINE s == stream[e]
           t == questions[e]
           v == replied[e]
           h == SubSeq(s.qids, 1, k)
           f == FailureAfter(e, s, h)
           r == Retired(e, s, k)
           u == TableWithout(e, g)
<1>1. s \in Streams /\ t \in [QuestionSlots -> Question \cup {NoQuestion}]
      /\ nextQid[e] \in Nat
  BY DEF EndTypes
<1>2. FirstBad(s, k, v, f)
  BY FailureMeans
<1>3. r = Retires(s, k, f)
  BY <1>1 DEF Retired, Retires, Rest, Streams
<1>4. LosesOldest(s, k, t, u)
  BY DEF TableWithout, LosesOldest
<1>5. u \in [QuestionSlots -> Question \cup {NoQuestion}]
  BY <1>1 DEF TableWithout
<1>6. f \in QuestionIds \cup {NoFailure}
  <2>1. DOMAIN h = 1 .. k /\ h \in Seq(QuestionIds) /\ \A i \in 1 .. k : h[i] = s.qids[i]
    BY <1>1, OldestFacts
  <2>2. \A i \in 1 .. k : s.qids[i] \in QuestionIds
    BY <2>1
  <2>3. s.failure \in QuestionIds \cup {NoFailure}
    BY <1>1 DEF Streams
  <2> HIDE DEF f, h, s, v
  <2> QED BY <1>2, <2>2, <2>3 DEF FirstBad
<1>7. Rest(s, k) \in Seq(QuestionIds) /\ Len(Rest(s, k)) = Len(s.qids) - k
  BY <1>1, RestFacts
<1> HIDE DEF f, h
<1>8. /\ r \in Streams /\ r.window = s.window /\ r.sent = s.sent /\ r.qids = Rest(s, k)
  BY <1>1, <1>3, <1>6, <1>7 DEF Retires, Streams
<1>9. Good(r, u, nextQid[e], v)
  <2> HIDE DEF r, u, s, t, v
  <2>1. Good(s, t, nextQid[e], v)
    BY DEF s, t, v
  <2>2. k \in 0 .. Len(s.qids)
    BY DEF s
  <2> QED BY <1>1, <1>2, <1>3, <1>4, <2>1, <2>2, RetireGood
<1> HIDE DEF r, u
<1> QED BY <1>5, <1>7, <1>8, <1>9 DEF RetiresWell, r, u

\* A step of the stream API at e is one of its values s, u, n and r for the stream, the
\* table, the next id and the result of e.
ApiStep(e, s, u, n, r) ==
  /\ stream' = [stream EXCEPT ![e] = s]
  /\ questions' = [questions EXCEPT ![e] = u]
  /\ nextQid' = [nextQid EXCEPT ![e] = n]
  /\ result' = [result EXCEPT ![e] = r]
  /\ inbox' \in [Ends -> Seq(Message)]
  /\ vain' \in [Ends -> SUBSET QuestionIds]
  /\ UNCHANGED <<imports, serverVars, handoffVars, replied>>

\* It keeps the invariant if the values are in order.
LEMMA ApiKeeps ==
  ASSUME StreamInv, NEW e \in Ends, "stream" \in Ops[e],
         NEW s \in Streams, NEW u \in [QuestionSlots -> Question \cup {NoQuestion}],
         NEW n \in 0 .. MaxAsks, NEW r \in {"none", "ok", "error"}, ApiStep(e, s, u, n, r),
         Good(s, u, n, replied[e]), s.window >= 1,
         r = "ok" => s.failure = NoFailure /\ s.qids = <<>>
  PROVE  StreamInv'
<1>1. TypeInv /\ StreamTypeOK /\ TypeOK
  BY DEF StreamInv, StreamTypeOK
<1>2. ClientTypeOK'
  <2>1. questions' \in [Ends -> [QuestionSlots -> Question \cup {NoQuestion}]]
    BY <1>1 DEF TypeOK, ClientTypeOK, ApiStep
  <2>2. nextQid' \in [Ends -> 0 .. MaxAsks]
    BY <1>1 DEF TypeOK, ClientTypeOK, ApiStep
  <2>3. imports' \in [Ends -> [ExportIds -> [n : Nat, obj : Servers \cup {NoServer}]]]
    BY <1>1 DEF TypeOK, ClientTypeOK, ApiStep
  <2> QED BY <2>1, <2>2, <2>3 DEF ClientTypeOK, ApiStep
<1>3. ServerTypeOK' /\ HandoffTypeOK' /\ EmbargoedAreClaimed'
  BY <1>1 DEF TypeInv, TypeOK, ServerTypeOK, HandoffTypeOK, EmbargoedAreClaimed, ApiStep,
     serverVars, handoffVars
<1>4. TypeInv' /\ TypeOK'
  BY <1>2, <1>3 DEF TypeInv, TypeOK, ApiStep
<1>5. StreamTypeOK'
  <2>1. stream' \in [Ends -> Streams]
    BY <1>1 DEF StreamTypeOK, Streams, ApiStep
  <2>2. result' \in [Ends -> {"none", "ok", "error"}]
    BY <1>1 DEF StreamTypeOK, ApiStep
  <2> QED BY <1>1, <1>4, <2>1, <2>2 DEF StreamTypeOK, Streams, ApiStep
<1>6. ASSUME NEW d \in Ends
      PROVE  Good(stream'[d], questions'[d], nextQid'[d], replied'[d]) /\ StreamUsed(d)'
  <2>1. Good(stream[d], questions[d], nextQid[d], replied[d]) /\ StreamUsed(d)
    BY DEF StreamInv
  <2>2. /\ stream \in [Ends -> Streams] /\ DOMAIN questions = Ends /\ DOMAIN nextQid = Ends
        /\ DOMAIN result = Ends
    BY <1>1 DEF StreamTypeOK, TypeOK, ClientTypeOK, Streams
  <2>3. CASE d = e
    <3>1. stream'[d] = s /\ questions'[d] = u /\ nextQid'[d] = n /\ result'[d] = r
          /\ replied' = replied
      BY <2>2, <2>3 DEF ApiStep
    <3>2. Good(stream'[d], questions'[d], nextQid'[d], replied'[d])
      BY <2>3, <3>1
    <3> QED BY <2>3, <3>1, <3>2 DEF StreamUsed
  <2>4. CASE d # e
    <3>1. stream'[d] = stream[d] /\ questions'[d] = questions[d] /\ nextQid'[d] = nextQid[d]
          /\ result'[d] = result[d] /\ replied' = replied
      BY <2>2, <2>4 DEF ApiStep
    <3> QED BY <2>1, <3>1 DEF StreamUsed
  <2> QED BY <2>3, <2>4
<1> QED BY <1>4, <1>5, <1>6 DEF StreamInv

\* capnp_rpc_stream_init
LEMMA OpenKeeps ==
  ASSUME StreamInv, NEW e \in Ends, NEW w \in Windows, Open(e, w)
  PROVE  StreamInv'
<1>0. PICK s, u, n, r : /\ s = [NoStream EXCEPT !.window = Clamp(w)]
                        /\ u = questions[e] /\ n = nextQid[e] /\ r = result[e]
  OBVIOUS
<1>1. Clamp(w) \in 0 .. MaxWindow /\ Clamp(w) >= 1
  <2>1. w \in Int /\ MaxWindow \in Nat \ {0}
    BY StreamAssumption DEF StreamAssumption
  <2> QED BY <2>1 DEF Clamp
<1>2. s.window = Clamp(w) /\ s.qids = <<>> /\ s.failure = NoFailure /\ s.sent = {}
  BY <1>0 DEF NoStream
<1>3. s \in Streams
  <2>1. <<>> \in Seq(QuestionIds)
    OBVIOUS
  <2>2. s = [window |-> Clamp(w), qids |-> <<>>, failure |-> NoFailure, sent |-> {}]
    BY <1>0 DEF NoStream
  <2> QED BY <1>1, <2>1, <2>2 DEF Streams
<1>4. /\ Good(stream[e], u, n, replied[e]) /\ StreamUsed(e)
      /\ TypeOK /\ StreamTypeOK
  BY <1>0 DEF StreamInv, StreamTypeOK
<1>5. u \in [QuestionSlots -> Question \cup {NoQuestion}] /\ n \in 0 .. MaxAsks
      /\ r \in {"none", "ok", "error"}
  BY <1>0, <1>4 DEF StreamTypeOK, TypeOK, ClientTypeOK
<1>6. ApiStep(e, s, u, n, r)
  BY <1>0, <1>4 DEF ApiStep, Open, vars, serverVars, handoffVars, StreamTypeOK, TypeOK, ClientTypeOK
<1>7. Good(s, u, n, replied[e])
  <2>1. TableGood(u, n, replied[e])
    BY <1>4 DEF Good
  <2>2. WindowGood(s, u)
    BY <1>1, <1>2 DEF WindowGood
  <2>3. SentGood(s, u, n, replied[e]) /\ FailureGood(s, replied[e])
    BY <1>2 DEF SentGood, FailureGood
  <2> QED BY <2>1, <2>2, <2>3 DEF Good
<1>8. "stream" \in Ops[e]
  BY DEF Open
<1> QED BY <1>1, <1>2, <1>3, <1>5, <1>6, <1>7, <1>8, ApiKeeps

LEMMA FinishesType ==
  ASSUME NEW g \in Seq(QuestionIds)
  PROVE  Finishes(g) \in Seq(Message)
<1> DEFINE Finish(k) == [type |-> "Finish", qid |-> g[k]]
<1>1. DOMAIN g = 1 .. Len(g) /\ Len(g) \in Nat
  OBVIOUS
<1>2. \A k \in 1 .. Len(g) : Finish(k) \in Message
  BY DEF Message, Notice
<1>3. Finishes(g) = [k \in 1 .. Len(g) |-> Finish(k)]
  BY <1>1 DEF Finishes
<1> HIDE DEF Finish
<1> QED BY <1>1, <1>2, <1>3

\* The Finishes that e sends are for some of the questions it finishes.
LEMMA HeardTypes ==
  ASSUME NEW e \in Ends, NEW g \in Seq(QuestionIds), NEW told \in Heard(e, g)
  PROVE  told \in Seq(QuestionIds) /\ Unheard(g, told) \in SUBSET QuestionIds
<1>1. told \in Seq(QuestionIds)
  <2>1. CASE told = g
    BY <2>1
  <2>2. CASE told \in Subsequences(g)
    <3>1. PICK n \in 0 .. Len(g) :
            \E at \in [1 .. n -> DOMAIN g] : told = [i \in DOMAIN at |-> g[at[i]]]
      BY <2>2 DEF Subsequences
    <3>2. told \in [1 .. n -> QuestionIds] /\ n \in Nat
      BY <3>1
    <3> QED BY <3>2
  <2> QED BY <2>1, <2>2 DEF Heard
<1>2. \A k \in DOMAIN g : g[k] \in QuestionIds
  OBVIOUS
<1> QED BY <1>1, <1>2 DEF Unheard

\* What the stream API knows of an end whose stream is open.
LEMMA OpenFacts ==
  ASSUME StreamInv, NEW e \in Ends, stream[e] # NoStream
  PROVE  /\ EndTypes(e) /\ Good(stream[e], questions[e], nextQid[e], replied[e])
         /\ stream[e].window >= 1 /\ stream[e].window \in Nat
         /\ stream[e].qids \in Seq(QuestionIds) /\ Len(stream[e].qids) \in Nat
         /\ Len(stream[e].qids) <= stream[e].window
         /\ nextQid[e] \in 0 .. MaxAsks
         /\ inbox \in [Ends -> Seq(Message)] /\ Peer[e] \in Ends
<1>1. EndTypes(e)
  BY EndTyped DEF StreamInv
<1>2. Good(stream[e], questions[e], nextQid[e], replied[e]) /\ StreamUsed(e)
  BY DEF StreamInv
<1>3. stream[e].window >= 1 /\ Len(stream[e].qids) <= stream[e].window
  BY <1>2 DEF StreamUsed, Good, WindowGood
<1>4. stream[e].window \in Nat /\ stream[e].qids \in Seq(QuestionIds)
  BY <1>1, StreamAssumption DEF EndTypes, Streams, StreamAssumption
<1>5. nextQid[e] \in 0 .. MaxAsks /\ inbox \in [Ends -> Seq(Message)]
  BY DEF StreamInv, StreamTypeOK, TypeOK, ClientTypeOK
<1>6. Peer[e] \in Ends
  BY PeerFacts
<1>7. Len(stream[e].qids) \in Nat
  BY <1>4
<1> QED BY <1>1, <1>2, <1>3, <1>4, <1>5, <1>6, <1>7

\* capnp_rpc_stream_finish
LEMMA FinishKeeps ==
  ASSUME StreamInv, NEW e \in Ends, StreamFinish(e)
  PROVE  StreamInv'
<1>1. stream[e] # NoStream /\ "stream" \in Ops[e]
  BY DEF StreamFinish
<1>2. PICK k, g : k = Len(stream[e].qids) /\ g = stream[e].qids
  OBVIOUS
<1>3. PICK s, u, n, r : /\ s = Retired(e, stream[e], k) /\ u = TableWithout(e, g)
                        /\ n = nextQid[e]
                        /\ r = IF s.failure = NoFailure THEN "ok" ELSE "error"
  OBVIOUS
<1>4. g \in Seq(QuestionIds) /\ DOMAIN g = 1 .. k /\ k \in 0 .. Len(stream[e].qids)
  BY <1>1, <1>2, OpenFacts
<1>5. RetiresWell(e, k, s, u)
  BY <1>1, <1>2, <1>3, <1>4, OpenFacts, RetiringGood
<1>6. inbox' \in [Ends -> Seq(Message)] /\ vain' \in [Ends -> SUBSET QuestionIds]
  <2>1. PICK told \in Heard(e, g) :
          /\ inbox' = [inbox EXCEPT ![Peer[e]] = @ \o Finishes(told)]
          /\ InVain(e, Unheard(g, told))
    BY <1>2 DEF StreamFinish
  <2>2. told \in Seq(QuestionIds) /\ Unheard(g, told) \in SUBSET QuestionIds
    BY <1>4, HeardTypes
  <2>3. PICK fs \in Seq(Message) : fs = Finishes(told)
    BY <2>2, FinishesType
  <2>4. inbox' = [inbox EXCEPT ![Peer[e]] = @ \o fs]
    BY <2>1, <2>3
  <2>5. vain' \in [Ends -> SUBSET QuestionIds]
    BY <2>1, <2>2, InVainTypes DEF StreamInv, StreamTypeOK, TypeOK
  <2> QED BY <1>1, <2>3, <2>4, <2>5, OpenFacts
<1>7. ApiStep(e, s, u, n, r)
  <2>1. nextQid' = [nextQid EXCEPT ![e] = n]
    BY <1>3 DEF StreamFinish, StreamInv, StreamTypeOK, TypeOK, ClientTypeOK
  <2> QED BY <1>2, <1>3, <1>6, <2>1 DEF StreamFinish, ApiStep
<1>8. s.qids = <<>>
  <2>1. s.qids \in Seq(QuestionIds) /\ Len(s.qids) = k - k
    BY <1>2, <1>5 DEF RetiresWell, Streams
  <2>2. Len(s.qids) = 0
    BY <1>4, <2>1
  <2> QED BY <2>1, <2>2, EmptySeq
<1>9. s.window >= 1 /\ n \in 0 .. MaxAsks
  BY <1>1, <1>3, <1>5, OpenFacts DEF RetiresWell
<1>10. r \in {"none", "ok", "error"} /\ (r = "ok" => s.failure = NoFailure)
  BY <1>3
<1> QED BY <1>1, <1>3, <1>5, <1>7, <1>8, <1>9, <1>10, ApiKeeps DEF RetiresWell

\* capnp_rpc_stream_send
LEMMA SendKeeps ==
  ASSUME StreamInv, NEW e \in Ends, NEW x \in Held(e), StreamSend(e, x)
  PROVE  StreamInv'
<1> DEFINE full == Len(stream[e].qids) >= stream[e].window
<1>1. /\ stream[e] # NoStream /\ "stream" \in Ops[e] /\ stream[e].failure = NoFailure
      /\ nextQid[e] < MaxAsks
  BY DEF StreamSend
<1>2. PICK k, n : k = (IF full THEN 1 ELSE 0) /\ n = nextQid[e]
  OBVIOUS
<1>3. PICK g, s, req : /\ g = SubSeq(stream[e].qids, 1, k) /\ s = Retired(e, stream[e], k)
                       /\ req = [type |-> "Call", qid |-> nextQid[e], target |-> Import(x),
                                 intros |-> <<>>]
  OBVIOUS
<1>4. PICK u, free : u = TableWithout(e, g) /\ free = {i \in QuestionSlots : u[i] = NoQuestion}
  OBVIOUS
<1> DEFINE tried == s.failure = NoFailure /\ free # {}
<1>5. PICK made \in {tried, tried /\ e \notin SendMayFail}, told \in Heard(e, g) :
        /\ stream' = [stream EXCEPT ![e] =
                        IF made THEN [s EXCEPT !.qids = Append(@, req.qid),
                                               !.sent = @ \cup {req.qid}]
                        ELSE s]
        /\ questions' = [questions EXCEPT ![e] =
                           IF made THEN [u EXCEPT ![Min(free)] = Asked(req)] ELSE u]
        /\ inbox' = [inbox EXCEPT ![Peer[e]] =
                       @ \o Finishes(told) \o (IF made THEN <<req>> ELSE <<>>)]
        /\ InVain(e, Unheard(g, told))
        /\ nextQid' = [nextQid EXCEPT ![e] = IF tried THEN @ + 1 ELSE @]
        /\ result' = [result EXCEPT ![e] = "none"]
        /\ UNCHANGED <<imports, serverVars, handoffVars, replied>>
  BY <1>2, <1>3, <1>4, ZenonT(60) DEF StreamSend
<1>6. k \in 0 .. Len(stream[e].qids)
  BY <1>1, <1>2, OpenFacts
<1>7. g \in Seq(QuestionIds) /\ DOMAIN g = 1 .. k /\ \A i \in 1 .. k : g[i] = stream[e].qids[i]
  BY <1>1, <1>3, <1>6, OpenFacts, OldestFacts DEF EndTypes
<1>8. RetiresWell(e, k, s, u)
  BY <1>1, <1>3, <1>4, <1>6, <1>7, OpenFacts, RetiringGood
<1>9. n \in QuestionIds /\ n \in Nat /\ n + 1 \in 0 .. MaxAsks /\ n \in 0 .. MaxAsks
  BY <1>1, <1>2, OpenFacts, WireAssumption DEF QuestionIds, WireAssumption
<1>10. req \in Request /\ req \in Message /\ req.qid = n
  <2>1. x \in Nat
    BY Ranges DEF Held
  <2>2. Import(x) \in Target
    BY <2>1 DEF Import, Target
  <2>3. <<>> \in Seq(Descriptor)
    OBVIOUS
  <2> QED BY <1>2, <1>3, <1>9, <2>2, <2>3 DEF Request, Message
<1>11. inbox' \in [Ends -> Seq(Message)] /\ vain' \in [Ends -> SUBSET QuestionIds]
  <2>0. told \in Seq(QuestionIds) /\ Unheard(g, told) \in SUBSET QuestionIds
    BY <1>7, HeardTypes
  <2>1. PICK fs \in Seq(Message) : fs = Finishes(told)
    BY <2>0, FinishesType
  <2>2. PICK rs \in Seq(Message) : rs = IF made THEN <<req>> ELSE <<>>
    <3>1. <<req>> \in Seq(Message) /\ <<>> \in Seq(Message)
      BY <1>10
    <3>2. CASE made
      BY <3>1, <3>2, Zenon
    <3>3. CASE ~made
      BY <3>1, <3>3, Zenon
    <3> QED BY <3>2, <3>3
  <2>3. inbox' = [inbox EXCEPT ![Peer[e]] = @ \o fs \o rs]
    BY <1>5, <2>1, <2>2
  <2>4. vain' \in [Ends -> SUBSET QuestionIds]
    BY <1>5, <2>0, InVainTypes DEF StreamInv, StreamTypeOK, TypeOK
  <2> QED BY <1>1, <2>1, <2>2, <2>3, <2>4, OpenFacts
<1>12. /\ s.window >= 1 /\ s \in Streams /\ Good(s, u, n, replied[e])
       /\ u \in [QuestionSlots -> Question \cup {NoQuestion}]
  BY <1>1, <1>2, <1>8, OpenFacts DEF RetiresWell
<1>13. CASE made
  <2>0. Asked(req) \in Question
    BY <1>9, <1>10 DEF Asked, Question
  <2>1. made => tried
    BY <1>5
  <2>2. s.failure = NoFailure /\ free # {}
    BY <1>5, <1>13, <2>1
  <2>3. PICK i \in QuestionSlots : i = Min(free) /\ u[i] = NoQuestion
    <3>1. free \subseteq Nat
      BY <1>4, Ranges
    <3> QED BY <1>4, <2>2, <3>1, MinInNat
  <2>4. PICK w, j : w = [u EXCEPT ![i] = Asked(req)] /\ j = Joins(s, n)
    OBVIOUS
  <2>5. Good(s, w, n + 1, replied[e])
    BY <1>9, <1>10, <1>12, <2>3, <2>4, AskGood
  <2>6. w \in [QuestionSlots -> Question \cup {NoQuestion}]
    BY <1>12, <2>4, <2>0
  <2>7. OpenIn(w, n)
    <3>1. w[i] = Asked(req) /\ Asked(req).qid = n
      BY <1>10, <1>12, <2>4 DEF Asked
    <3>2. w[i] # NoQuestion
      BY <2>0, <3>1, UnusedQuestionAssumption
    <3> QED BY <3>1, <3>2 DEF OpenIn
  <2>8. replied[e][n] = "none" /\ \A q \in s.sent : q < n
    BY <1>9, <1>12 DEF Good, TableGood, SentGood
  <2>9. Len(s.qids) < s.window
    <3>1. Len(s.qids) = Len(stream[e].qids) - k /\ s.window = stream[e].window
      BY <1>8 DEF RetiresWell
    <3>2. PICK a, b : a = Len(stream[e].qids) /\ b = stream[e].window
      OBVIOUS
    <3>3. a \in Nat /\ b \in Nat /\ a <= b
      BY <1>1, <3>2, OpenFacts
    <3>4. k = IF a >= b THEN 1 ELSE 0
      BY <1>2, <3>2
    <3> HIDE DEF full
    <3>5. a - k < b
      BY <3>3, <3>4
    <3> QED BY <3>1, <3>2, <3>5
  <2>10. Good(j, w, n + 1, replied[e])
    BY <1>9, <1>12, <2>2, <2>4, <2>5, <2>6, <2>7, <2>8, <2>9, JoinsGood
  <2>11. j \in Streams /\ j.window >= 1
    <3>1. Append(s.qids, n) \in Seq(QuestionIds) /\ s.sent \cup {n} \subseteq QuestionIds
      BY <1>9, <1>12 DEF Streams
    <3> QED BY <1>12, <2>4, <3>1 DEF Streams, Joins
  <2>12. ApiStep(e, j, w, n + 1, "none")
    <3>1. stream' = [stream EXCEPT ![e] = j] /\ questions' = [questions EXCEPT ![e] = w]
      BY <1>5, <1>10, <1>13, <2>3, <2>4 DEF Joins
    <3>2. nextQid' = [nextQid EXCEPT ![e] = n + 1]
      BY <1>2, <1>5, <1>13, <2>1
    <3> QED BY <1>5, <1>11, <3>1, <3>2 DEF ApiStep
  <2> QED BY <1>1, <1>9, <2>6, <2>10, <2>11, <2>12, ApiKeeps
<1>14. CASE ~made
  <2>1. PICK m \in 0 .. MaxAsks : m = (IF tried THEN n + 1 ELSE n)
    BY <1>9
  <2>2. Good(s, u, m, replied[e])
    BY <1>9, <1>12, <2>1, SpendGood
  <2>3. ApiStep(e, s, u, m, "none")
    <3>1. nextQid' = [nextQid EXCEPT ![e] = m]
      <4>1. CASE tried
        BY <1>2, <1>5, <2>1, <4>1
      <4>2. CASE ~tried
        BY <1>2, <1>5, <2>1, <4>2
      <4> QED BY <4>1, <4>2
    <3> QED BY <1>5, <1>11, <1>14, <3>1 DEF ApiStep
  <2> QED BY <1>1, <1>12, <2>2, <2>3, ApiKeeps
<1> QED BY <1>13, <1>14

-----------------------------------------------------------------------------
(* Theorems *)

LEMMA StreamInvInit ==
  ASSUME Init, StreamInit
  PROVE  StreamInv
<1>1. TypeInv
  BY TypeInit
<1>2. \A e \in Ends : stream[e] = NoStream /\ result[e] = "none"
                      /\ replied[e] = [q \in QuestionIds |-> "none"]
  BY DEF StreamInit
<1>3. NoStream \in Streams
  <2>1. <<>> \in Seq(QuestionIds)
    OBVIOUS
  <2> QED BY <2>1, StreamAssumption DEF Streams, NoStream, StreamAssumption
<1>4. StreamTypeOK
  BY <1>1, <1>3 DEF StreamTypeOK, TypeInv, Streams, StreamInit
<1>5. ASSUME NEW e \in Ends
      PROVE  Good(stream[e], questions[e], nextQid[e], replied[e]) /\ StreamUsed(e)
  <2>1. \A i \in QuestionSlots : questions[e][i] = NoQuestion
    BY DEF Init, ClientInit
  <2>2. NoStream.qids = <<>> /\ NoStream.sent = {} /\ NoStream.failure = NoFailure
        /\ NoStream.window = 0
    BY DEF NoStream
  <2>3. TableGood(questions[e], nextQid[e], replied[e])
    BY <1>2, <2>1 DEF TableGood
  <2>4. WindowGood(stream[e], questions[e])
    BY <1>2, <2>2 DEF WindowGood
  <2>5. SentGood(stream[e], questions[e], nextQid[e], replied[e])
        /\ FailureGood(stream[e], replied[e])
    BY <1>2, <2>2 DEF SentGood, FailureGood
  <2> QED BY <1>2, <2>3, <2>4, <2>5 DEF Good, StreamUsed
<1> QED BY <1>1, <1>4, <1>5 DEF StreamInv

LEMMA StreamInvStep ==
  ASSUME StreamsFinishTheirCalls, StreamInv, [StreamNext]_allVars
  PROVE  StreamInv'
<1>1. CASE Other
  BY <1>1, OtherKeeps
<1>2. ASSUME NEW e \in Ends, NEW w \in Windows, Open(e, w)
      PROVE  StreamInv'
  BY <1>2, OpenKeeps
<1>3. ASSUME NEW e \in Ends, NEW x \in Held(e), StreamSend(e, x)
      PROVE  StreamInv'
  BY <1>3, SendKeeps
<1>4. ASSUME NEW e \in Ends, StreamFinish(e)
      PROVE  StreamInv'
  BY <1>4, FinishKeeps
<1>5. CASE UNCHANGED allVars
  <2>1. TypeInv'
    <3>1. UNCHANGED vars
      BY <1>5 DEF allVars
    <3> QED BY <3>1, TypeStep DEF StreamInv
  <2>2. StreamTypeOK'
    BY <1>5, <2>1 DEF StreamInv, StreamTypeOK, TypeInv, allVars, streamVars
  <2>3. UNCHANGED <<stream, questions, nextQid, replied, result>>
    BY <1>5 DEF allVars, vars, streamVars
  <2>4. \A e \in Ends :
          Good(stream'[e], questions'[e], nextQid'[e], replied'[e]) /\ StreamUsed(e)'
    BY <2>3 DEF StreamInv, StreamUsed
  <2> QED BY <2>1, <2>2, <2>4 DEF StreamInv
<1> QED BY <1>1, <1>2, <1>3, <1>4, <1>5 DEF StreamNext

\* Whatever the applications send on their streams, answer, fail or leave unanswered, the
\* calls of a stream are where the invariant says.
THEOREM StreamInvariant ==
  ASSUME StreamsFinishTheirCalls
  PROVE  StreamSpec => []StreamInv
<1>1. Init /\ StreamInit => StreamInv
  BY StreamInvInit
<1>2. StreamInv /\ [StreamNext]_allVars => StreamInv'
  BY StreamInvStep
<1> QED BY <1>1, <1>2, PTL DEF StreamSpec

\* The stream and its ghosts are well-formed.
THEOREM StreamTypeCorrect ==
  ASSUME StreamsFinishTheirCalls
  PROVE  StreamSpec => []StreamTypeOK
<1>1. StreamInv => StreamTypeOK
  BY DEF StreamInv
<1> QED BY <1>1, StreamInvariant, PTL

\* stream_retire_oldest and capnp_rpc_stream_send neither lose the slot of a call nor
\* finish a question that is still listed, whatever the window.
THEOREM StreamTracksCorrect ==
  ASSUME StreamsFinishTheirCalls
  PROVE  StreamSpec => []StreamTracksOpenCalls
<1>1. ASSUME StreamInv, NEW e \in Ends
      PROVE  LET q == stream[e].qids
             IN  /\ Len(q) <= stream[e].window
                 /\ \A i, k \in DOMAIN q : i < k => q[i] < q[k]
                 /\ \A i \in DOMAIN q : SlotsOf(e, q[i]) # {}
  <2>1. WindowGood(stream[e], questions[e])
    BY <1>1 DEF StreamInv, Good
  <2>2. \A i \in DOMAIN stream[e].qids : SlotsOf(e, stream[e].qids[i]) # {}
    BY <2>1 DEF WindowGood, OpenIn, SlotsOf
  <2> QED BY <2>1, <2>2 DEF WindowGood
<1>2. StreamInv => StreamTracksOpenCalls
  BY <1>1 DEF StreamTracksOpenCalls
<1> QED BY <1>2, StreamInvariant, PTL

\* When capnp_rpc_stream_finish returns CAPNP_OK, every call made on the stream has been
\* answered with results.
THEOREM FinishOkCorrect ==
  ASSUME StreamsFinishTheirCalls
  PROVE  StreamSpec => []FinishOkMeansAllSucceeded
<1>1. ASSUME StreamInv, NEW e \in Ends, result[e] = "ok", NEW q \in stream[e].sent
      PROVE  replied[e][q] = "ok"
  <2>1. stream[e].failure = NoFailure /\ stream[e].qids = <<>>
    BY <1>1 DEF StreamInv, StreamUsed
  <2>2. ~Listed(stream[e], q)
    BY <2>1 DEF Listed
  <2>3. SentGood(stream[e], questions[e], nextQid[e], replied[e])
    BY <1>1 DEF StreamInv, Good
  <2> QED BY <1>1, <2>1, <2>2, <2>3 DEF SentGood
<1>2. StreamInv => FinishOkMeansAllSucceeded
  BY <1>1 DEF FinishOkMeansAllSucceeded
<1> QED BY <1>2, StreamInvariant, PTL

\* first_failure names the first call that failed.
THEOREM FirstFailureCorrect ==
  ASSUME StreamsFinishTheirCalls
  PROVE  StreamSpec => []FirstFailureIsFirst
<1>1. ASSUME StreamInv, NEW e \in Ends
      PROVE  FailureGood(stream[e], replied[e])
  BY <1>1 DEF StreamInv, Good
<1>2. StreamInv => FirstFailureIsFirst
  BY <1>1 DEF FirstFailureIsFirst, FailureGood
<1> QED BY <1>2, StreamInvariant, PTL
=============================================================================
