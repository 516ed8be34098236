------------------------------- MODULE Texts -------------------------------
(***************************************************************************)
(* The loop that half of the repository's parsers start with: what is left *)
(* of a text when only some characters are kept.  This is SelectSeq for a  *)
(* set of characters, written as a recursive function of the prefixes so   *)
(* that proofs can unfold it: the prover knows nothing of SelectSeq.       *)
(***************************************************************************)
EXTENDS Naturals, Sequences

\* What has been kept after n characters of s.
KeptUpTo(s, S) ==
    LET kept[n \in 0..Len(s)] ==
          IF n = 0 THEN <<>>
          ELSE IF s[n] \in S THEN Append(kept[n - 1], s[n])
          ELSE kept[n - 1]
    IN  kept

Keep(s, S) == KeptUpTo(s, S)[Len(s)]

\* A text taken character by character into what f makes of it, starting from e:
\* FoldLeft, for a function f.
FoldedUpTo(f, e, s) ==
    LET folded[n \in 0..Len(s)] ==
          IF n = 0 THEN e ELSE f[folded[n - 1]][s[n]]
    IN  folded

FoldText(f, e, s) == FoldedUpTo(f, e, s)[Len(s)]
=============================================================================
