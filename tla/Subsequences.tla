---------------------------- MODULE Subsequences ----------------------------
(***************************************************************************)
(* The items of a sequence that are in a set, in their order: what a loop  *)
(* over a list keeps.  A recursive function over the positions says it, of *)
(* which SequenceFacts proves what it returns; the provers know nothing of *)
(* SelectSeq.                                                              *)
(***************************************************************************)
EXTENDS Integers, Sequences

\* What is kept of the first i items.
KeptUpTo(s, keep) ==
  LET kept[i \in 0 .. Len(s)] ==
        IF i = 0 THEN <<>>
        ELSE IF s[i] \in keep THEN Append(kept[i - 1], s[i]) ELSE kept[i - 1]
  IN  kept

Those(s, keep) == KeptUpTo(s, keep)[Len(s)]
=============================================================================
