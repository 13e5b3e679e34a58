-------------------------- MODULE OptimisticStore --------------------------
(***************************************************************************)
(* What the REST resource promises to the clients of one model class: a    *)
(* record is replaced or deleted only by a client that was looking at      *)
(* exactly the record being replaced, and the records of one request       *)
(* change together or not at all.                                          *)
(*                                                                         *)
(* RecordStore, which models Resource.java, JPA.java and the database      *)
(* transactions under them, is shown to implement this specification.      *)
(***************************************************************************)
EXTENDS Naturals

CONSTANTS
  Ids,      \* record ids the sequence of the table can hand out
  Vals,     \* contents a record can have
  Absent    \* no record under this id

Rows == [ver : Nat, val : Vals]

(* One record of a request: the row its client had read (Absent when it    *)
(* creates the record) and the row it leaves behind (Absent when it        *)
(* deletes it).                                                            *)
Changes == [id : Ids, base : Rows \cup {Absent}, new : Rows \cup {Absent}]

VARIABLES
  store,    \* the committed records
  last      \* the changes of the latest committed request

vars == <<store, last>>

TypeOK ==
  /\ store \in [Ids -> Rows \cup {Absent}]
  /\ last \subseteq Changes

Init ==
  /\ store \in [Ids -> Rows \cup {Absent}]
  /\ last = {}

(* The version a change leaves behind, judged by the one it replaces. *)
Succeeds(c) ==
  c.new # Absent => c.new.ver = (IF c.base = Absent THEN 0 ELSE c.base.ver + 1)

(* A request commits: every record it touches is still the one its client  *)
(* saw, and all of its changes appear at once.                             *)
Apply ==
  /\ last' \subseteq Changes
  /\ store' \in [Ids -> Rows \cup {Absent}]
  /\ \A c \in last' : c.base = store[c.id] /\ c.new = store'[c.id] /\ Succeeds(c)
  /\ \A i \in Ids : (\A c \in last' : c.id # i) => store'[i] = store[i]

Next == Apply

Spec == Init /\ [][Next]_vars
=============================================================================
