---------------------------- MODULE RecordStore ----------------------------
(***************************************************************************)
(* The write path of one model class behind /ws/rest: Resource.save,       *)
(* updateMass and the two remove methods, JPA.edit / verify / checkVersion *)
(* / persist / remove below them, and the transactions of the database.    *)
(*                                                                         *)
(* Each server thread serves one request in one transaction with its own   *)
(* EntityManager.  The database (external) runs at READ COMMITTED: a read  *)
(* sees the latest committed row, a write takes the row's lock until the   *)
(* transaction ends, and Hibernate's UPDATE and DELETE of a versioned      *)
(* entity name the version that was loaded and fail when no row matches.   *)
(*                                                                         *)
(* Clients need no state of their own: whatever row was once committed,    *)
(* some browser may still display, so a request may carry any of `seen'.   *)
(***************************************************************************)
EXTENDS Naturals

CONSTANTS
  Ids,          \* record ids the table's sequence can hand out
  Vals,         \* contents a record can have
  Txs,          \* server threads, each with its own EntityManager
  Kinds,        \* the request kinds in use, a subset of AllKinds
  MaxRequests,  \* bound on the number of requests ever submitted
  Absent,       \* no row
  Free          \* the row is not locked

(* "saveVerified" is the save of a form's action engine, which sends the   *)
(* record's _original; "removeOne" deletes by the id of the URL; "remove"  *)
(* is DataSource.removeAll, which sends id and version of each record.     *)
AllKinds == {"save", "saveVerified", "remove", "removeOne", "mass"}
Saves == {"save", "saveVerified"}
Removes == {"remove", "removeOne"}

ASSUME KindsAssumption == Kinds \subseteq AllKinds
ASSUME MaxRequestsAssumption == MaxRequests \in Nat
ASSUME AbsentAssumption == Absent \notin [ver : Nat, val : Vals]
ASSUME FreeAssumption == Free \notin Txs
ASSUME ValsAssumption == Vals # {}

Rows == [ver : Nat, val : Vals]
MaybeRows == Rows \cup {Absent}

(* A record of a request on its way through the EntityManager: the row the *)
(* client had read, the content it asks for, and the row loaded by find.   *)
Stages == {"none", "sent", "edited", "flushed"}
Entities == [st : Stages, base : MaybeRows, val : Vals, old : MaybeRows]

VARIABLES
  db,       \* the committed rows
  seen,     \* per id, the rows ever committed
  taken,    \* the ids handed out by the sequence
  lock,     \* per id, the transaction holding the row lock
  kind,     \* per thread, the kind of the request it serves
  ent,      \* per thread and id, the entity in its EntityManager
  served,   \* number of requests submitted so far
  last      \* the changes of the latest committed request

vars == <<db, seen, taken, lock, kind, ent, served, last>>

Unused == [st |-> "none", base |-> Absent, val |-> CHOOSE v \in Vals : TRUE, old |-> Absent]

TypeOK ==
  /\ db \in [Ids -> MaybeRows]
  /\ seen \in [Ids -> SUBSET Rows]
  /\ taken \in SUBSET Ids
  /\ lock \in [Ids -> Txs \cup {Free}]
  /\ kind \in [Txs -> AllKinds \cup {"idle"}]
  /\ ent \in [Txs -> [Ids -> Entities]]
  /\ served \in 0..MaxRequests
  /\ last \subseteq [id : Ids, base : MaybeRows, new : MaybeRows]

Init ==
  /\ taken \in SUBSET Ids
  /\ \E v \in [Ids -> Vals] :
       db = [i \in Ids |-> IF i \in taken THEN [ver |-> 0, val |-> v[i]] ELSE Absent]
  /\ seen = [i \in Ids |-> {db[i]} \ {Absent}]
  /\ lock = [i \in Ids |-> Free]
  /\ kind = [t \in Txs |-> "idle"]
  /\ ent = [t \in Txs |-> [i \in Ids |-> Unused]]
  /\ served = 0
  /\ last = {}

(***************************************************************************)
(* Requests.                                                               *)
(***************************************************************************)
(* What any client may still display. *)
SeenRows == UNION {seen[i] : i \in Ids}

In(t, stage) == {i \in Ids : ent[t][i].st = stage}

(* Mutants of NewRow: a flush that keeps, or winds back, the version; a    *)
(* bulk UPDATE that writes the version of a fresh bean.                    *)
NewRowKeepsVersion(k, e) ==
  IF k \in Removes THEN Absent
  ELSE [ver |-> IF e.old = Absent THEN 0 ELSE e.old.ver, val |-> e.val]
NewRowWindsBack(k, e) ==
  IF k \in Removes THEN Absent
  ELSE [ver |-> IF e.old = Absent THEN 0 ELSE e.old.ver - 1, val |-> e.val]
NewRowMassResets(k, e) ==
  CASE k \in Removes -> Absent
    [] k = "mass" -> [ver |-> 0, val |-> e.val]
    [] OTHER -> [ver |-> IF e.old = Absent THEN 0 ELSE e.old.ver + 1, val |-> e.val]

(* The row an entity becomes when it is written: the version counter       *)
(* starts at 0, a flush of a changed entity increments it, and the bulk    *)
(* UPDATE of Query.update does not mention it.                             *)
NewRow(k, e) ==
  CASE k \in Removes -> Absent
    [] k = "mass" -> [ver |-> e.old.ver, val |-> e.val]
    [] OTHER -> [ver |-> IF e.old = Absent THEN 0 ELSE e.old.ver + 1, val |-> e.val]

(* A request arrives: for each record it names the row its client last     *)
(* read and the content wanted.  A save may create records as well.  The   *)
(* order in which the records are then processed is left open.             *)
Created(chosen, base) == {i \in chosen : base[i] = Absent}

WellFormed(k, chosen, base, val) ==
  /\ \A i \in chosen \ Created(chosen, base) : base[i] \in seen[i]
  /\ Created(chosen, base) \cap taken = {}
  /\ Created(chosen, base) # {} => k \in Saves
  /\ k = "removeOne" => \E i \in Ids : chosen = {i}
  /\ k = "mass" => \A i, j \in chosen : val[i] = val[j]
  /\ k \in Removes => \A i \in chosen : val[i] = base[i].val
  /\ \A i \in Ids \ chosen : base[i] = Absent /\ val[i] = Unused.val

Accept(t, k, chosen, base, val) ==
  /\ WellFormed(k, chosen, base, val)
  /\ kind' = [kind EXCEPT ![t] = k]
  /\ taken' = taken \cup Created(chosen, base)
  /\ ent' = [ent EXCEPT ![t] = [i \in Ids |->
              IF i \in chosen
              THEN [st |-> "sent", base |-> base[i], val |-> val[i], old |-> Absent]
              ELSE Unused]]

Submit(t) ==
  /\ kind[t] = "idle"
  /\ served < MaxRequests
  /\ \E k \in Kinds, chosen \in (SUBSET Ids) \ {{}}, val \in [Ids -> Vals],
        base \in [Ids -> SeenRows \cup {Absent}] : Accept(t, k, chosen, base, val)
  /\ served' = served + 1
  /\ UNCHANGED <<db, seen, lock, last>>

(* Mutant of Close: the thread moves on without ending its transaction. *)
CloseKeepsLocks(t) ==
  /\ kind' = [kind EXCEPT ![t] = "idle"]
  /\ ent' = [ent EXCEPT ![t] = [i \in Ids |-> Unused]]
  /\ UNCHANGED lock

(* The transaction is over: locks released, EntityManager discarded. *)
Close(t) ==
  /\ lock' = [i \in Ids |-> IF lock[i] = t THEN Free ELSE lock[i]]
  /\ kind' = [kind EXCEPT ![t] = "idle"]
  /\ ent' = [ent EXCEPT ![t] = [i \in Ids |-> Unused]]

Rollback(t) ==
  /\ Close(t)
  /\ UNCHANGED <<db, seen, taken, served, last>>

(***************************************************************************)
(* Loading and editing one record of the request.                          *)
(***************************************************************************)

(* The record was changed by someone else since the client read it. *)
Outdated(e, row) == e.base.ver # row.ver

(* save and verify look at one record after the other: the record loaded   *)
(* last is flushed by persist before the next one is edited.               *)
CanEdit(t, i) ==
  /\ ent[t][i].st = "sent"
  /\ kind[t] \in Saves => In(t, "edited") = {}

Moved(e, stage, row) == [st |-> stage, base |-> e.base, val |-> e.val, old |-> row]

SetStage(t, i, stage, row) ==
  /\ ent' = [ent EXCEPT ![t][i] = Moved(@, stage, row)]
  /\ UNCHANGED <<db, seen, taken, lock, kind, served, last>>

(* Mutant of EditNew: a record that is missing is instantiated as well. *)
EditNewOrMissing(t, i) ==
  /\ CanEdit(t, i) /\ kind[t] \in Saves
  /\ ent[t][i].base = Absent \/ db[i] = Absent
  /\ SetStage(t, i, "edited", Absent)

(* A record without id is instantiated: there is nothing to compare. *)
EditNew(t, i) ==
  /\ CanEdit(t, i) /\ kind[t] \in Saves
  /\ ent[t][i].base = Absent
  /\ SetStage(t, i, "edited", Absent)

(* Mutant of Refused: a save without _original compares no version. *)
RefusedOnlyVerified(t, i) ==
  /\ ent[t][i].base # Absent
  /\ \/ db[i] = Absent /\ kind[t] # "mass"
     \/ /\ kind[t] \in {"saveVerified", "remove"}
        /\ db[i] # Absent
        /\ Outdated(ent[t][i], db[i])

(* The record must exist and, when _original came with it, must be the one *)
(* the client read; so must it be when a field changes.                    *)
Refused(t, i) ==
  LET e == ent[t][i]
      row == db[i]
  IN /\ e.base # Absent
     /\ \/ row = Absent /\ kind[t] # "mass"
        \/ /\ row # Absent
           /\ Outdated(e, row)
           /\ \/ kind[t] \in {"saveVerified", "remove"}
              \/ kind[t] = "save" /\ e.val # row.val

EditRefused(t, i) ==
  /\ CanEdit(t, i)
  /\ Refused(t, i)
  /\ Rollback(t)

(* The content asked for is what the row holds: beanChanged stays false,   *)
(* the entity is clean and flush writes nothing.                           *)
EditUnchanged(t, i) ==
  /\ CanEdit(t, i) /\ kind[t] \in Saves
  /\ ent[t][i].base # Absent /\ ~Refused(t, i)
  /\ ent[t][i].val = db[i].val
  /\ SetStage(t, i, "none", Absent)

EditChanged(t, i) ==
  /\ CanEdit(t, i) /\ kind[t] \in Saves
  /\ ent[t][i].base # Absent /\ ~Refused(t, i)
  /\ ent[t][i].val # db[i].val
  /\ SetStage(t, i, "edited", db[i])

(* remove(Request) loads and checks every record before it removes any;    *)
(* remove(id, Request) goes through JPA.edit, which sets no field and so   *)
(* never compares the version it was given.                                *)
LoadForRemove(t, i) ==
  /\ CanEdit(t, i) /\ kind[t] \in Removes
  /\ ~Refused(t, i)
  /\ SetStage(t, i, "edited", db[i])

(* The subselect of the bulk UPDATE finds the row, or does not. *)
SelectForMass(t, i) ==
  /\ CanEdit(t, i) /\ kind[t] = "mass"
  /\ IF db[i] = Absent THEN SetStage(t, i, "none", Absent)
                       ELSE SetStage(t, i, "edited", db[i])

Edit(t) ==
  \E i \in Ids : \/ EditNew(t, i) \/ EditUnchanged(t, i) \/ EditChanged(t, i)
                 \/ EditRefused(t, i) \/ LoadForRemove(t, i) \/ SelectForMass(t, i)

(***************************************************************************)
(* Flushing: the SQL statement of one entity.  A save flushes after each   *)
(* record, removals are flushed by the commit.                             *)
(***************************************************************************)
CanFlush(t, i) ==
  /\ ent[t][i].st = "edited"
  /\ kind[t] \notin Saves => In(t, "sent") = {}

(* WHERE id = ? AND version = ? matches the row the statement now sees. *)
Matches(t, i) ==
  LET old == ent[t][i].old
  IN IF old = Absent THEN db[i] = Absent ELSE db[i] # Absent /\ db[i].ver = old.ver

FlushWrites(t, i) ==
  /\ CanFlush(t, i) /\ kind[t] # "mass"
  /\ lock[i] \in {Free, t}
  /\ Matches(t, i)
  /\ lock' = [lock EXCEPT ![i] = t]
  /\ ent' = [ent EXCEPT ![t][i].st = "flushed"]
  /\ UNCHANGED <<db, seen, taken, kind, served, last>>

(* No row updated: Hibernate throws StaleObjectStateException. *)
FlushStale(t, i) ==
  /\ CanFlush(t, i) /\ kind[t] # "mass"
  /\ lock[i] \in {Free, t}
  /\ ~Matches(t, i)
  /\ Rollback(t)

(* The bulk UPDATE names no version: it applies to whatever the row is by  *)
(* the time its lock is granted.                                           *)
FlushMass(t, i) ==
  /\ CanFlush(t, i) /\ kind[t] = "mass"
  /\ lock[i] \in {Free, t}
  /\ IF db[i] = Absent
     THEN /\ ent' = [ent EXCEPT ![t][i] = Moved(@, "none", Absent)]
          /\ UNCHANGED lock
     ELSE /\ ent' = [ent EXCEPT ![t][i] = Moved(@, "flushed", db[i])]
          /\ lock' = [lock EXCEPT ![i] = t]
  /\ UNCHANGED <<db, seen, taken, kind, served, last>>

Flush(t) == \E i \in Ids : FlushWrites(t, i) \/ FlushStale(t, i) \/ FlushMass(t, i)

(***************************************************************************)
(* The end of a transaction.                                               *)
(***************************************************************************)
Commit(t) ==
  /\ kind[t] # "idle"
  /\ In(t, "sent") \cup In(t, "edited") = {}
  /\ LET written == In(t, "flushed")
         row == [i \in Ids |-> IF i \in written THEN NewRow(kind[t], ent[t][i]) ELSE db[i]]
     IN /\ db' = row
        /\ seen' = [i \in Ids |-> seen[i] \cup ({row[i]} \ {Absent})]
        /\ last' = {[id |-> i, base |-> ent[t][i].base, new |-> row[i]] : i \in written}
  /\ Close(t)
  /\ UNCHANGED <<taken, served>>

(* Any other exception, a lost connection or a stopped server. *)
Fail(t) ==
  /\ kind[t] # "idle"
  /\ Rollback(t)

WaitsFor(t, u) ==
  /\ t # u
  /\ \E i \in Ids : CanFlush(t, i) /\ lock[i] = u

(* The database notices a cycle of waiting transactions and aborts one. *)
DeadlockVictim(t) ==
  /\ \E cycle \in SUBSET Txs : t \in cycle /\ \A u \in cycle : \E w \in cycle : WaitsFor(u, w)
  /\ Rollback(t)

Next == \E t \in Txs : Submit(t) \/ Edit(t) \/ Flush(t) \/ Commit(t) \/ Fail(t) \/ DeadlockVictim(t)

Spec == Init /\ [][Next]_vars

(* A thread runs on until its request ends, and the database grants row    *)
(* locks in the order they were asked for, hence the strong fairness.      *)
Fairness ==
  \A t \in Txs : /\ WF_vars(Edit(t))
                 /\ SF_vars(Flush(t))
                 /\ WF_vars(Commit(t))
                 /\ WF_vars(DeadlockVictim(t))

FairSpec == Spec /\ Fairness

(***************************************************************************)
(* Properties.                                                             *)
(***************************************************************************)

(* The kinds whose request states the version it was made for. *)
VersionedKinds == Saves \cup {"remove"}

(***************************************************************************)
(* Refinement: without the operations that skip the version, the resource  *)
(* implements OptimisticStore: no client overwrites or deletes a row it    *)
(* has not seen, and a request's records change together.  This is about   *)
(* JPA.checkVersion, the versioned UPDATE and the transaction of save.     *)
(***************************************************************************)
Store == INSTANCE OptimisticStore WITH store <- db, last <- last
ImplementsStore == Store!Spec

(* From its flush to its commit, a save or removeAll stands on the version *)
(* its client had read: neither the window between find and flush nor the  *)
(* one between flush and commit lets another request slip in.              *)
FlushedOverBase ==
  \A t \in Txs : \A i \in In(t, "flushed") :
    kind[t] \in VersionedKinds =>
      LET base == ent[t][i].base
      IN IF base = Absent THEN db[i] = Absent
                          ELSE db[i] # Absent /\ db[i].ver = base.ver

(* The pair id, version stands for one content: what the clients' diff and *)
(* checkVersion both presume of Model.version.                             *)
VersionIdentifiesContent ==
  \A i \in Ids : \A p, q \in seen[i] : p.ver = q.ver => p = q

(* A record that was deleted stays deleted, whatever saves of it were      *)
(* still on their way (JPA.edit refuses a missing row, the flush a row     *)
(* that went missing since).                                               *)
DeletedStaysDeleted ==
  [][\A i \in Ids : seen[i] # {} /\ db[i] = Absent => db'[i] = Absent]_vars

(* A row's version never goes back, so a client can order what it reads.   *)
VersionsOnlyGrow ==
  [][\A i \in Ids : db[i] # Absent /\ db'[i] # Absent => db'[i].ver >= db[i].ver]_vars

(* Every request is answered: waiting for row locks, also in opposite      *)
(* orders, ends with a commit or a rollback.                               *)
RequestsEnd == \A t \in Txs : kind[t] # "idle" ~> kind[t] = "idle"
=============================================================================
