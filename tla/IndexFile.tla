------------------------------ MODULE IndexFile ------------------------------
(***************************************************************************)
(* The files that storage/log.go and storage/dlq.go append to.  An index   *)
(* is read in entries of a fixed size from the start of the file, so a     *)
(* piece of an entry moves all that is written after it off the boundaries *)
(* the reader uses.                                                        *)
(***************************************************************************)
EXTENDS Integers, Sequences, FiniteSets

CONSTANT Torn       \* what is left of a write that was cut short

\* What is in the file of the write of x, after an error or a crash.
Reached(x) == {<<>>, <<Torn>>, <<x>>}
ReachedPart == {<<>>, <<Torn>>}

\* The entries of index file f that are read at the right boundary, and the others.
Aligned(f) == {k \in DOMAIN f : \A j \in 1 .. k : f[j] # Torn}
Intact(f) == Aligned(f) = DOMAIN f
Misaligned(f) == {k \in DOMAIN f : \E j \in 1 .. k - 1 : f[j] = Torn}

=============================================================================
