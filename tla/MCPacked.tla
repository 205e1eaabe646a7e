------------------------------ MODULE MCPacked ------------------------------
(***************************************************************************)
(* Words of three bytes and runs of at most three words more.                *)
(***************************************************************************)
EXTENDS Packed

\* The binary numbering of the sets of positions.
MCTagByte == [S \in SUBSET (1 .. WordBytes) |-> MapThenSumSet(LAMBDA k : 2 ^ (k - 1), S)]

\* No zero byte, one, two in two places, three.
MCWords == {<<0, 0, 0>>, <<0, 1, 0>>, <<2, 0, 0>>, <<1, 2, 0>>, <<1, 2, 3>>}

\* Every message of up to five words, and long runs of zero words on either side
\* of another word.
MCInputs == {FlattenSeq(words) : words \in
  UNION {[1 .. n -> MCWords] : n \in 0 .. 5}
  \cup {[i \in 1 .. n |-> IF i = k THEN <<2, 0, 0>> ELSE <<0, 0, 0>>] :
          n \in 6 .. 14, k \in 1 .. 14}}
=============================================================================
