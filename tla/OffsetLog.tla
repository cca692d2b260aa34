------------------------------ MODULE OffsetLog ------------------------------
(***************************************************************************)
(* What a partition log promises its callers: an answered append has an    *)
(* offset above all answered before it, and what is read there never       *)
(* changes, through any number of restarts, as long as the log is intact.  *)
(***************************************************************************)
EXTENDS Integers

CONSTANTS Offset, Record

VARIABLES
    served,     \* what is read at the offsets that were answered
    intact      \* FALSE once the files no longer say where the records are

Init == served = <<>> /\ intact = TRUE

Answer(o, r) ==
    /\ intact
    /\ \A p \in DOMAIN served : p < o
    /\ served' = [p \in DOMAIN served \cup {o} |-> IF p = o THEN r ELSE served[p]]
    /\ UNCHANGED intact

Lose == intact' = FALSE /\ served' = <<>>

Next == Lose \/ \E o \in Offset, r \in Record : Answer(o, r)

Spec == Init /\ [][Next]_<<served, intact>>

=============================================================================
