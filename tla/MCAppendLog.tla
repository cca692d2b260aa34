----------------------------- MODULE MCAppendLog -----------------------------
(***************************************************************************)
(* Values of the partition log's constants for TLC.                        *)
(***************************************************************************)
EXTENDS AppendLog, TLC

Records == Permutations(Record)     \* the log does not look into a record

=============================================================================
