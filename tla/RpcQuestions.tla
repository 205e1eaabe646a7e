----------------------------- MODULE RpcQuestions -----------------------------
(***************************************************************************)
(* What a connection promises the application that asks: the life of a     *)
(* question, seen from outside.  Ids are spent in order and never used     *)
(* again; a request reaches the peer once; it is replied to at most once;  *)
(* the verdict that is recorded is the one that was sent; and once the     *)
(* application has finished a question, nothing happens to it any more.    *)
(***************************************************************************)
EXTENDS Naturals

CONSTANTS
  Askers,   \* the connections that ask
  Ids       \* the ids their questions have

VARIABLE life   \* life[e][q]: how far question q of e has come, and the verdict

\* asked: the request is on its way.  held: the peer keeps the question, to
\* answer it later.  replied: the Return is on its way.  answered: the
\* application may read it.  lost: nothing is on its way and nobody will answer.
\* over: finished, or never sent.
Stages == {"unasked", "asked", "held", "replied", "answered", "lost", "over"}

At(stage, results) == [stage |-> stage, results |-> results]

Init == life = [e \in Askers |-> [q \in Ids |-> At("unasked", FALSE)]]

\* What the peer makes of a request, and what the transport makes of a Return.
Forward ==
  {<<"asked", "held">>, <<"asked", "replied">>, <<"asked", "lost">>, <<"held", "replied">>,
   <<"held", "lost">>, <<"replied", "answered">>, <<"replied", "lost">>}

\* Every id below q has been spent.
InTurn(e, q) == \A p \in Ids : p < q => life[e][p].stage # "unasked"

\* The application asks, or fails to.
Ask(e, q) ==
  /\ life[e][q].stage = "unasked"
  /\ InTurn(e, q)
  /\ life'[e][q] \in {At("asked", FALSE), At("over", FALSE)}

\* The question moves on; the verdict is fixed when the Return is sent.
Advance(e, q) ==
  /\ <<life[e][q].stage, life'[e][q].stage>> \in Forward
  /\ life'[e][q].stage = "answered" => life'[e][q].results = life[e][q].results

\* The application finishes the question.
Finish(e, q) ==
  /\ life[e][q].stage # "unasked"
  /\ life'[e][q] = At("over", FALSE)

\* One frame may settle several questions: a lifted embargo, a complete Join.
Next ==
  \A e \in Askers, q \in Ids :
    UNCHANGED life[e][q] \/ Ask(e, q) \/ Advance(e, q) \/ Finish(e, q)

Spec == Init /\ [][Next]_life
=============================================================================
