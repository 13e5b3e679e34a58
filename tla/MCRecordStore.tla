--------------------------- MODULE MCRecordStore ---------------------------
(* Small instances of RecordStore for TLC. *)
EXTENDS RecordStore, TLC

(* Threads and ids are interchangeable in every safety property checked. *)
Symmetry == Permutations(Txs) \cup Permutations(Ids)
=============================================================================
