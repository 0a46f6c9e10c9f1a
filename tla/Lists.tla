-------------------------------- MODULE Lists --------------------------------
(***************************************************************************)
(* Array.prototype.filter and sort, of sets instead of tests: definitions  *)
(* that proofs can unfold.                                                 *)
(***************************************************************************)
EXTENDS Integers, Sequences, FiniteSetsExt, SequencesExt

(* What SelectSeq is of the test to be in kept. *)
Only(seq, kept) ==
    LET Prefix[n \in 0 .. Len(seq)] ==
            IF n = 0 THEN <<>>
            ELSE IF seq[n] \in kept THEN Append(Prefix[n - 1], seq[n]) ELSE Prefix[n - 1]
    IN Prefix[Len(seq)]

(* Each one goes after those that it is not earlier than, so that a tie keeps its order. *)
PlaceOf(sorted, x, earlier) ==
    Max({0} \cup {k \in 1 .. Len(sorted) : <<x, sorted[k]>> \notin earlier}) + 1
Insert(sorted, x, earlier) == InsertAt(sorted, PlaceOf(sorted, x, earlier), x)
Sorted(seq, earlier) ==
    LET Prefix[n \in 0 .. Len(seq)] ==
            IF n = 0 THEN <<>> ELSE Insert(Prefix[n - 1], seq[n], earlier)
    IN Prefix[Len(seq)]
Pairs(seq) == ToSet(seq) \X ToSet(seq)
=============================================================================
