------------------------- MODULE RecordStoreProofs -------------------------
(***************************************************************************)
(* Proofs about RecordStore, for any number of ids, threads and requests:  *)
(* its inductive invariant, what saves and removals may rely on, and that  *)
(* it implements OptimisticStore when every request states its version.    *)
(***************************************************************************)
EXTENDS RecordStore, TLAPS

(* A row and a loaded row agree: both missing, or of one version. *)
SameVersion(row, old) ==
  IF old = Absent THEN row = Absent ELSE row # Absent /\ row.ver = old.ver

(* Idle threads hold nothing; threads serve only the kinds in use. *)
IdleClean ==
  \A t \in Txs : /\ kind[t] \in Kinds \cup {"idle"}
                 /\ kind[t] = "idle" => \A i \in Ids : ent[t][i].st = "none"

(* What is flushed is locked, and the row below it is of the loaded        *)
(* version.                                                                *)
FlushedLocked ==
  \A t \in Txs, i \in Ids :
    ent[t][i].st = "flushed" => lock[i] = t /\ SameVersion(db[i], ent[t][i].old)

(* What was loaded is what the client had read, up to the version. *)
LoadedOnBase ==
  \A t \in Txs, i \in Ids :
    ent[t][i].st \in {"edited", "flushed"} =>
      /\ ent[t][i].old = Absent <=> ent[t][i].base = Absent
      /\ kind[t] \in VersionedKinds => SameVersion(ent[t][i].base, ent[t][i].old)

(* Requests carry rows that were committed; only saves create records.     *)
BaseSeen ==
  \A t \in Txs, i \in Ids :
    ent[t][i].st # "none" =>
      IF ent[t][i].base = Absent THEN kind[t] \in Saves ELSE ent[t][i].base \in seen[i]

(* The committed row is the newest one seen. *)
NewestSeen ==
  \A i \in Ids : db[i] # Absent =>
    db[i] \in seen[i] /\ \A row \in seen[i] : row.ver <= db[i].ver

(* An id was either never handed out, or it is used by one creation only   *)
(* until that creation commits.                                            *)
FreshIds ==
  /\ \A i \in Ids \ taken :
       seen[i] = {} /\ db[i] = Absent /\ \A t \in Txs : ent[t][i].st = "none"
  /\ \A t, u \in Txs, i \in Ids :
       ent[t][i].st # "none" /\ ent[t][i].base = Absent =>
         /\ seen[i] = {} /\ db[i] = Absent
         /\ ent[u][i].st # "none" => t = u

Inv == /\ TypeOK /\ IdleClean /\ FlushedLocked /\ LoadedOnBase
       /\ BaseSeen /\ NewestSeen /\ FreshIds

(***************************************************************************)
(* The invariant is inductive.                                             *)
(***************************************************************************)

(* The entity standing for no request is well formed. *)
LEMMA UnusedType == Unused \in Entities /\ Unused.st = "none"
  BY ValsAssumption DEF Unused, Entities, Stages, MaybeRows

LEMMA InitInv == Init => Inv
  <1> SUFFICES ASSUME Init PROVE Inv
    OBVIOUS
  <1>1. TypeOK
    BY UnusedType, MaxRequestsAssumption, AbsentAssumption
    DEF Init, TypeOK, MaybeRows, Rows
  <1>2. IdleClean /\ FlushedLocked /\ LoadedOnBase /\ BaseSeen
    BY UnusedType DEF Init, IdleClean, FlushedLocked, LoadedOnBase, BaseSeen
  <1>3. NewestSeen /\ FreshIds
    BY UnusedType, AbsentAssumption DEF Init, NewestSeen, FreshIds, Rows
  <1> QED
    BY <1>1, <1>2, <1>3 DEF Inv

(* Ending a transaction without writing anything keeps the invariant. *)
LEMMA RollbackInv ==
  ASSUME Inv, NEW t \in Txs, Rollback(t)
  PROVE  Inv'
  <1> USE DEF Inv, Rollback, Close
  <1>1. TypeOK'
    BY UnusedType, FreeAssumption DEF TypeOK
  <1>2. \A u \in Txs, i \in Ids : u # t => ent'[u][i] = ent[u][i]
    BY DEF TypeOK
  <1>3. \A i \in Ids : ent'[t][i].st = "none"
    BY UnusedType DEF TypeOK
  <1>4. IdleClean' /\ FlushedLocked'
    BY <1>2, <1>3 DEF TypeOK, IdleClean, FlushedLocked, SameVersion
  <1>5. LoadedOnBase' /\ BaseSeen'
    BY <1>2, <1>3 DEF TypeOK, LoadedOnBase, BaseSeen, SameVersion
  <1>6. NewestSeen' /\ FreshIds'
    BY <1>2, <1>3 DEF TypeOK, NewestSeen, FreshIds
  <1> QED
    BY <1>1, <1>4, <1>5, <1>6

(* A request arrives at an idle thread. *)
LEMMA SubmitInv ==
  ASSUME Inv, NEW t \in Txs, Submit(t)
  PROVE  Inv'
  <1> USE DEF Inv
  <1>1. PICK k \in Kinds, chosen \in (SUBSET Ids) \ {{}}, val \in [Ids -> Vals],
             base \in [Ids -> SeenRows \cup {Absent}] : Accept(t, k, chosen, base, val)
    BY DEF Submit
  <1>0. /\ \A i \in chosen : base[i] # Absent => base[i] \in seen[i]
        /\ \A i \in chosen : base[i] = Absent => i \notin taken /\ k \in Saves
    BY <1>1 DEF Accept, WellFormed, Created
  <1>2. /\ kind[t] = "idle" /\ served < MaxRequests /\ served' = served + 1
        /\ UNCHANGED <<db, seen, lock, last>>
    BY DEF Submit
  <1>3. \A i \in Ids : base[i] \in MaybeRows
    BY DEF Accept, Created, TypeOK, SeenRows, MaybeRows
  <1>4. TypeOK'
    <2>1. \A i \in Ids : [st |-> "sent", base |-> base[i], val |-> val[i], old |-> Absent] \in Entities
      BY <1>3 DEF Entities, Stages, MaybeRows
    <2>2. ent' \in [Txs -> [Ids -> Entities]]
      BY <2>1, <1>1, UnusedType DEF Accept, Created, TypeOK
    <2> QED
      BY <2>2, <1>1, <1>2, KindsAssumption, MaxRequestsAssumption DEF Accept, Created, TypeOK
  <1>5. \A u \in Txs, i \in Ids : u # t => ent'[u][i] = ent[u][i] /\ kind'[u] = kind[u]
    BY <1>1 DEF Accept, Created, TypeOK
  <1>6. \A i \in Ids :
          /\ ent'[t][i].st \in {"none", "sent"}
          /\ ent'[t][i].st = "sent" =>
               /\ ent'[t][i].base = base[i]
               /\ i \in chosen
          /\ ent[t][i].st = "none"
    BY <1>1, <1>2, UnusedType DEF Accept, Created, TypeOK, IdleClean
  <1>7. kind'[t] = k
    BY <1>1 DEF Accept, Created, TypeOK
  <1>8. IdleClean' /\ FlushedLocked' /\ LoadedOnBase'
    <2>1. IdleClean'
      BY <1>5, <1>6, <1>7, KindsAssumption DEF IdleClean, AllKinds
    <2>2. FlushedLocked'
      BY <1>2, <1>5, <1>6 DEF FlushedLocked, SameVersion
    <2>3. LoadedOnBase'
      BY <1>5, <1>6 DEF LoadedOnBase, SameVersion
    <2> QED
      BY <2>1, <2>2, <2>3
  <1>9. BaseSeen' /\ NewestSeen'
    BY <1>0, <1>1, <1>2, <1>5, <1>6, <1>7 DEF Accept, Created, BaseSeen, NewestSeen
  <1>10. FreshIds'
    <2>1. \A i \in Ids \ taken' : i \notin taken /\ ent'[t][i].st = "none"
      BY <1>1, <1>6, <1>2, <1>9 DEF Accept, Created, BaseSeen, FreshIds
    <2>2. \A i \in Ids \ taken' :
            seen'[i] = {} /\ db'[i] = Absent /\ \A u \in Txs : ent'[u][i].st = "none"
      BY <2>1, <1>2, <1>5 DEF FreshIds
    <2>3. ASSUME NEW u \in Txs, NEW w \in Txs, NEW i \in Ids,
                 ent'[u][i].st # "none", ent'[u][i].base = Absent
          PROVE  seen'[i] = {} /\ db'[i] = Absent /\ (ent'[w][i].st # "none" => u = w)
      <3>1. CASE u = t
        <4>1. i \notin taken
          BY <3>1, <2>3, <1>0, <1>6
        <4> QED
          BY <4>1, <3>1, <1>2, <1>5 DEF FreshIds
      <3>2. CASE u # t
        <4>1. i \in taken /\ seen[i] = {} /\ db[i] = Absent
          BY <3>2, <2>3, <1>5 DEF FreshIds
        <4>2. ent'[t][i].st = "none"
          BY <4>1, <1>0, <1>1, <1>2, <1>6 DEF FreshIds
        <4> QED
          BY <4>1, <4>2, <3>2, <2>3, <1>2, <1>5 DEF FreshIds
      <3> QED
        BY <3>1, <3>2
    <2> QED
      BY <2>2, <2>3 DEF FreshIds
  <1> QED
    BY <1>4, <1>8, <1>9, <1>10

(* Any step of an unflushed entity to a stage in which it is not flushed,  *)
(* provided an edited entity was loaded over the base of its client.       *)
LEMMA SetStageInv ==
  ASSUME Inv, NEW t \in Txs, NEW i \in Ids, NEW stage \in {"none", "edited"},
         NEW row \in MaybeRows, kind[t] # "idle", ent[t][i].st = "sent",
         SetStage(t, i, stage, row),
         stage = "edited" => /\ row = Absent <=> ent[t][i].base = Absent
                             /\ kind[t] \in VersionedKinds => SameVersion(ent[t][i].base, row)
  PROVE  Inv'
  <1> USE DEF Inv, SetStage, Moved
  <1>1. TypeOK'
    <2>1. Moved(ent[t][i], stage, row) \in Entities
      BY DEF TypeOK, Entities, Stages
    <2> QED
      BY <2>1 DEF TypeOK
  <1>2. \A u \in Txs, j \in Ids : u # t \/ j # i => ent'[u][j] = ent[u][j]
    BY DEF TypeOK
  <1>3. /\ ent'[t][i].st = stage
        /\ ent'[t][i].old = row
        /\ ent'[t][i].base = ent[t][i].base
    BY DEF TypeOK, Entities
  <1>4. IdleClean' /\ FlushedLocked' /\ LoadedOnBase'
    BY <1>2, <1>3 DEF IdleClean, FlushedLocked, LoadedOnBase, SameVersion
  <1>5. BaseSeen' /\ NewestSeen' /\ FreshIds'
    BY <1>2, <1>3 DEF BaseSeen, NewestSeen, FreshIds
  <1> QED
    BY <1>1, <1>4, <1>5

(* Loading, editing or refusing one record. *)
LEMMA EditInv ==
  ASSUME Inv, NEW t \in Txs, Edit(t)
  PROVE  Inv'
  <1> USE DEF Inv
  <1>1. PICK i \in Ids : \/ EditNew(t, i) \/ EditUnchanged(t, i) \/ EditChanged(t, i)
                         \/ EditRefused(t, i) \/ LoadForRemove(t, i) \/ SelectForMass(t, i)
    BY DEF Edit
  <1>2. db[i] \in MaybeRows /\ Absent \in MaybeRows
    BY DEF TypeOK, MaybeRows
  <1>3. CanEdit(t, i) => ent[t][i].st = "sent" /\ kind[t] # "idle"
    BY DEF CanEdit, IdleClean
  <1>4. kind[t] \notin Saves => ent[t][i].st = "none" \/ ent[t][i].base # Absent
    BY DEF BaseSeen
  <1>5. CASE EditNew(t, i)
    BY <1>2, <1>3, <1>5, SetStageInv DEF EditNew, SameVersion
  <1>6. CASE EditUnchanged(t, i)
    BY <1>2, <1>3, <1>6, SetStageInv DEF EditUnchanged
  <1>7. CASE EditChanged(t, i)
    <2>1. db[i] # Absent /\ ent[t][i].base # Absent /\ ent[t][i].base.ver = db[i].ver
      BY <1>7 DEF EditChanged, Refused, Outdated, Saves
    <2> QED
      BY <2>1, <1>2, <1>3, <1>7, SetStageInv DEF EditChanged, SameVersion
  <1>8. CASE EditRefused(t, i)
    BY <1>8, RollbackInv DEF EditRefused
  <1>9. CASE LoadForRemove(t, i)
    <2>1. /\ db[i] # Absent /\ ent[t][i].base # Absent
          /\ kind[t] = "remove" => ent[t][i].base.ver = db[i].ver
      BY <1>3, <1>4, <1>9 DEF LoadForRemove, Refused, Outdated, Saves, Removes
    <2>2. kind[t] \in VersionedKinds => kind[t] = "remove"
      BY <1>9 DEF LoadForRemove, VersionedKinds, Saves, Removes
    <2> QED
      BY <2>1, <2>2, <1>2, <1>3, <1>9, SetStageInv DEF LoadForRemove, SameVersion
  <1>10. CASE SelectForMass(t, i)
    <2>1. kind[t] \notin VersionedKinds /\ kind[t] \notin Saves
      BY <1>10 DEF SelectForMass, VersionedKinds, Saves
    <2>2. CASE db[i] = Absent
      BY <2>2, <1>2, <1>3, <1>10, SetStageInv DEF SelectForMass
    <2>3. CASE db[i] # Absent
      BY <2>1, <2>3, <1>2, <1>3, <1>4, <1>10, SetStageInv DEF SelectForMass
    <2> QED
      BY <2>2, <2>3
  <1> QED
    BY <1>1, <1>5, <1>6, <1>7, <1>8, <1>9, <1>10

(* The SQL statement of one entity. *)
LEMMA FlushInv ==
  ASSUME Inv, NEW t \in Txs, Flush(t)
  PROVE  Inv'
  <1> USE DEF Inv
  <1>1. PICK i \in Ids : FlushWrites(t, i) \/ FlushStale(t, i) \/ FlushMass(t, i)
    BY DEF Flush
  <1>2. CanFlush(t, i) => ent[t][i].st = "edited" /\ kind[t] # "idle"
    BY DEF CanFlush, IdleClean
  <1>3. CASE FlushStale(t, i)
    BY <1>3, RollbackInv DEF FlushStale
  <1>4. CASE FlushMass(t, i) /\ db[i] = Absent
    <2> USE <1>4 DEF FlushMass, Moved
    <2>1. Moved(ent[t][i], "none", Absent) \in Entities
      BY DEF TypeOK, Entities, Stages, MaybeRows
    <2>2. TypeOK'
      BY <2>1 DEF TypeOK
    <2>3. \A u \in Txs, j \in Ids : u # t \/ j # i => ent'[u][j] = ent[u][j]
      BY DEF TypeOK
    <2>4. ent'[t][i].st = "none"
      BY DEF TypeOK
    <2>5. IdleClean' /\ FlushedLocked' /\ LoadedOnBase'
      BY <2>3, <2>4 DEF IdleClean, FlushedLocked, LoadedOnBase, SameVersion
    <2>6. BaseSeen' /\ NewestSeen' /\ FreshIds'
      BY <2>3, <2>4 DEF BaseSeen, NewestSeen, FreshIds
    <2> QED
      BY <2>2, <2>5, <2>6
  <1>5. CASE FlushWrites(t, i) \/ (FlushMass(t, i) /\ db[i] # Absent)
    <2>1. PICK row \in MaybeRows :
            /\ ent' = [ent EXCEPT ![t][i] = Moved(@, "flushed", row)]
            /\ row = Absent <=> ent[t][i].old = Absent
            /\ kind[t] \in VersionedKinds => row = ent[t][i].old
            /\ SameVersion(db[i], row)
      <3>1. CASE FlushWrites(t, i)
        <4>1. [ent[t][i] EXCEPT !.st = "flushed"] = Moved(ent[t][i], "flushed", ent[t][i].old)
          BY DEF TypeOK, Entities, Moved
        <4>2. ent' = [ent EXCEPT ![t][i] = Moved(@, "flushed", ent[t][i].old)]
          BY <3>1, <4>1 DEF FlushWrites
        <4>3. ent[t][i].old \in MaybeRows /\ SameVersion(db[i], ent[t][i].old)
          BY <3>1 DEF FlushWrites, Matches, SameVersion, TypeOK, Entities
        <4> QED
          BY <4>2, <4>3
      <3>2. CASE FlushMass(t, i) /\ db[i] # Absent
        <4>1. kind[t] \notin VersionedKinds /\ kind[t] \notin Saves
          BY <3>2 DEF FlushMass, VersionedKinds, Saves
        <4>2. ent[t][i].old # Absent
          BY <3>2, <4>1, <1>2 DEF LoadedOnBase, BaseSeen, FlushMass
        <4>3. db[i] \in MaybeRows /\ SameVersion(db[i], db[i])
          BY <3>2 DEF TypeOK, SameVersion
        <4> QED
          BY <3>2, <4>1, <4>2, <4>3 DEF FlushMass
      <3> QED
        BY <1>5, <3>1, <3>2
    <2>2. /\ lock' = [lock EXCEPT ![i] = t]
          /\ lock[i] \in {Free, t}
          /\ ent[t][i].st = "edited" /\ kind[t] # "idle"
          /\ UNCHANGED <<db, seen, taken, kind, served, last>>
      BY <1>2, <1>5 DEF FlushWrites, FlushMass
    <2>3. Moved(ent[t][i], "flushed", row) \in Entities
      BY DEF TypeOK, Entities, Stages, Moved
    <2>4. TypeOK'
      BY <2>1, <2>2, <2>3 DEF TypeOK
    <2>5. \A u \in Txs, j \in Ids : u # t \/ j # i => ent'[u][j] = ent[u][j]
      BY <2>1 DEF TypeOK
    <2>6. /\ ent'[t][i].st = "flushed" /\ ent'[t][i].base = ent[t][i].base
          /\ ent'[t][i].old = row
      BY <2>1 DEF TypeOK, Moved
    <2>7. IdleClean'
      BY <2>2, <2>5 DEF IdleClean
    <2>8. FlushedLocked'
      <3> SUFFICES ASSUME NEW u \in Txs, NEW j \in Ids, ent'[u][j].st = "flushed"
                   PROVE  lock'[j] = u /\ SameVersion(db'[j], ent'[u][j].old)
        BY DEF FlushedLocked, SameVersion
      <3>1. CASE u = t /\ j = i
        BY <3>1, <2>1, <2>2, <2>6 DEF TypeOK
      <3>2. CASE u # t \/ j # i
        BY <3>2, <2>2, <2>5, FreeAssumption DEF FlushedLocked, TypeOK
      <3> QED
        BY <3>1, <3>2
    <2>9. LoadedOnBase'
      BY <2>1, <2>2, <2>5, <2>6 DEF LoadedOnBase, SameVersion
    <2>10. BaseSeen' /\ NewestSeen' /\ FreshIds'
      BY <2>2, <2>5, <2>6 DEF BaseSeen, NewestSeen, FreshIds
    <2> QED
      BY <2>4, <2>7, <2>8, <2>9, <2>10
  <1> QED
    BY <1>1, <1>3, <1>4, <1>5

(* The row a written record becomes succeeds the committed one: a record   *)
(* that is absent is created only by its creator, and versions do not go   *)
(* back.                                                                   *)
LEMMA WrittenRow ==
  ASSUME Inv, NEW t \in Txs, NEW i \in Ids, ent[t][i].st = "flushed"
  PROVE  LET row == NewRow(kind[t], ent[t][i])
         IN /\ row \in MaybeRows
            /\ row # Absent /\ db[i] = Absent => row.ver = 0 /\ ent[t][i].base = Absent
            /\ row # Absent /\ db[i] # Absent =>
                 row.ver = IF kind[t] = "mass" THEN db[i].ver ELSE db[i].ver + 1
  <1> DEFINE e == ent[t][i]
  <1>1. e \in Entities /\ db[i] \in MaybeRows /\ kind[t] \in AllKinds
    <2>1. kind[t] # "idle"
      BY DEF Inv, IdleClean
    <2> QED
      BY <2>1 DEF Inv, TypeOK
  <1>2. SameVersion(db[i], e.old) /\ (e.old = Absent <=> e.base = Absent)
    BY DEF Inv, FlushedLocked, LoadedOnBase
  <1>3. kind[t] \notin Saves => e.base # Absent
    BY DEF Inv, BaseSeen
  <1>4. CASE kind[t] \in Removes
    BY <1>4 DEF NewRow, MaybeRows, Removes
  <1>5. CASE kind[t] = "mass"
    <2>1. e.old \in Rows /\ e.val \in Vals
      <3>1. e.old # Absent
        BY <1>2, <1>3, <1>5 DEF Saves
      <3> QED
        BY <3>1, <1>1 DEF Entities, MaybeRows
    <2>2. NewRow(kind[t], e) = [ver |-> e.old.ver, val |-> e.val]
      BY <1>5 DEF NewRow, Removes
    <2>3. db[i] # Absent /\ db[i].ver = e.old.ver
      BY <1>2, <1>3, <1>5 DEF Saves, SameVersion
    <2>4. NewRow(kind[t], e) \in Rows /\ NewRow(kind[t], e).ver = e.old.ver
      BY <2>1, <2>2 DEF Rows
    <2> QED
      BY <2>3, <2>4, <1>5 DEF MaybeRows
  <1>6. CASE kind[t] \in Saves
    <2>1. NewRow(kind[t], e) =
            [ver |-> IF e.old = Absent THEN 0 ELSE e.old.ver + 1, val |-> e.val]
      BY <1>6 DEF NewRow, Removes, Saves
    <2>2. e.val \in Vals /\ (e.old # Absent => e.old.ver \in Nat)
      BY <1>1 DEF Entities, MaybeRows, Rows
    <2>3. kind[t] # "mass"
      BY <1>6 DEF Saves
    <2> QED
      BY <2>1, <2>2, <2>3, <1>2, AbsentAssumption DEF Rows, MaybeRows, SameVersion
  <1> QED
    BY <1>1, <1>4, <1>5, <1>6 DEF AllKinds, Saves, Removes

(* The end of a transaction whose changes are written. *)
LEMMA CommitInv ==
  ASSUME Inv, NEW t \in Txs, Commit(t)
  PROVE  Inv'
  <1> USE DEF Inv
  <1> DEFINE new(i) == IF ent[t][i].st = "flushed" THEN NewRow(kind[t], ent[t][i]) ELSE db[i]
  <1>1. /\ db' = [i \in Ids |-> new(i)]
        /\ seen' = [i \in Ids |-> seen[i] \cup ({new(i)} \ {Absent})]
        /\ UNCHANGED <<taken, served>>
    BY DEF Commit, In
  <1>2. \A i \in Ids : ent[t][i].st = "flushed" => lock[i] = t
    BY DEF FlushedLocked
  <1>3. ASSUME NEW i \in Ids
        PROVE  /\ db'[i] \in MaybeRows
               /\ seen'[i] = seen[i] \cup ({db'[i]} \ {Absent})
               /\ ent[t][i].st # "flushed" => db'[i] = db[i]
               /\ db'[i] # Absent /\ db[i] = Absent =>
                    ent[t][i].st = "flushed" /\ db'[i].ver = 0 /\ ent[t][i].base = Absent
               /\ db'[i] # Absent /\ db[i] # Absent => db'[i].ver >= db[i].ver
    <2>1. db[i] \in MaybeRows /\ (db[i] # Absent => db[i].ver \in Nat)
      BY DEF TypeOK, MaybeRows, Rows
    <2>2. db'[i] = new(i) /\ seen'[i] = seen[i] \cup ({db'[i]} \ {Absent})
      BY <1>1
    <2>3. CASE ent[t][i].st = "flushed"
      BY <2>1, <2>2, <2>3, WrittenRow
    <2>4. CASE ent[t][i].st # "flushed"
      BY <2>1, <2>2, <2>4
    <2> QED
      BY <2>3, <2>4
  <1>4. TypeOK'
    <2>1. db' \in [Ids -> MaybeRows] /\ seen' \in [Ids -> SUBSET Rows]
      BY <1>1, <1>3 DEF TypeOK, MaybeRows
    <2>2. last' \subseteq [id : Ids, base : MaybeRows, new : MaybeRows]
      <3>1. last' = {[id |-> i, base |-> ent[t][i].base, new |-> new(i)] : i \in In(t, "flushed")}
        BY DEF Commit, In
      <3>2. \A i \in In(t, "flushed") : i \in Ids /\ ent[t][i].base \in MaybeRows /\ new(i) \in MaybeRows
        BY <1>1, <1>3 DEF In, TypeOK, Entities
      <3> QED
        BY <3>1, <3>2
    <2>3. lock' \in [Ids -> Txs \cup {Free}] /\ kind' \in [Txs -> AllKinds \cup {"idle"}]
      BY DEF Commit, Close, TypeOK
    <2>4. ent' \in [Txs -> [Ids -> Entities]]
      BY UnusedType DEF Commit, Close, TypeOK
    <2> QED
      BY <2>1, <2>2, <2>3, <2>4, <1>1 DEF TypeOK
  <1>5. \A u \in Txs : u # t => ent'[u] = ent[u] /\ kind'[u] = kind[u]
    BY DEF Commit, Close, TypeOK
  <1>6. kind'[t] = "idle" /\ \A i \in Ids : ent'[t][i].st = "none"
    BY UnusedType DEF Commit, Close, TypeOK
  <1>7. IdleClean' /\ LoadedOnBase'
    <2>1. IdleClean'
      BY <1>5, <1>6 DEF IdleClean
    <2>2. ASSUME NEW u \in Txs, NEW i \in Ids, ent'[u][i].st \in {"edited", "flushed"}
          PROVE  u # t /\ ent'[u][i] = ent[u][i] /\ kind'[u] = kind[u]
      BY <2>2, <1>5, <1>6
    <2>3. LoadedOnBase'
      BY <2>2 DEF LoadedOnBase, SameVersion
    <2> QED
      BY <2>1, <2>3
  <1>8. FlushedLocked'
    <2>1. SUFFICES ASSUME NEW u \in Txs, NEW i \in Ids, ent'[u][i].st = "flushed"
                   PROVE  lock'[i] = u /\ SameVersion(db'[i], ent'[u][i].old)
      BY DEF FlushedLocked, SameVersion
    <2>2. u # t /\ ent'[u][i] = ent[u][i] /\ lock[i] = u
      BY <2>1, <1>5, <1>6 DEF FlushedLocked
    <2>3. lock'[i] = u
      BY <2>2 DEF Commit, Close, TypeOK
    <2>4. db'[i] = db[i]
      BY <2>2, <1>2, <1>3
    <2> QED
      BY <2>1, <2>2, <2>3, <2>4 DEF FlushedLocked
  <1>9. BaseSeen'
    <2> SUFFICES ASSUME NEW u \in Txs, NEW i \in Ids, ent'[u][i].st # "none",
                        ent'[u][i].base # Absent \/ kind'[u] \notin Saves
                 PROVE  ent'[u][i].base # Absent /\ ent'[u][i].base \in seen'[i]
      BY DEF BaseSeen
    <2> QED
      BY <1>3, <1>5, <1>6 DEF BaseSeen
  <1>10. NewestSeen'
    <2> SUFFICES ASSUME NEW i \in Ids, db'[i] # Absent
                 PROVE  db'[i] \in seen'[i] /\ \A row \in seen'[i] : row.ver <= db'[i].ver
      BY DEF NewestSeen
    <2>1. db'[i] \in seen'[i] /\ db'[i].ver \in Nat
      BY <1>3 DEF MaybeRows, Rows
    <2>2. CASE db[i] = Absent
      <3>1. seen[i] = {}
        BY <2>2, <1>3 DEF FreshIds
      <3> QED
        BY <3>1, <2>1, <1>3
    <2>3. CASE db[i] # Absent
      <3>1. \A row \in seen[i] : row.ver \in Nat /\ row.ver <= db[i].ver
        BY <2>3 DEF NewestSeen, TypeOK, Rows
      <3>2. db'[i].ver >= db[i].ver /\ db[i].ver \in Nat
        BY <2>3, <1>3 DEF TypeOK, MaybeRows, Rows
      <3> QED
        BY <3>1, <3>2, <2>1, <1>3
    <2> QED
      BY <2>2, <2>3
  <1>11. FreshIds'
    <2>1. ASSUME NEW i \in Ids, i \notin taken'
          PROVE  ent[t][i].st = "none" /\ db'[i] = Absent /\ seen'[i] = {}
      <3>1. ent[t][i].st = "none" /\ db[i] = Absent /\ seen[i] = {}
        BY <2>1, <1>1 DEF FreshIds
      <3> QED
        BY <3>1, <1>3
    <2>2. ASSUME NEW u \in Txs, NEW i \in Ids, ent'[u][i].st # "none", ent'[u][i].base = Absent
          PROVE  u # t /\ db'[i] = Absent /\ seen'[i] = {}
      <3>1. u # t /\ ent[t][i].st = "none" /\ db[i] = Absent /\ seen[i] = {}
        BY <2>2, <1>5, <1>6 DEF FreshIds
      <3> QED
        BY <3>1, <1>3
    <2>3. \A i \in Ids \ taken' :
            seen'[i] = {} /\ db'[i] = Absent /\ \A u \in Txs : ent'[u][i].st = "none"
      BY <2>1, <1>1, <1>5, <1>6 DEF FreshIds
    <2>4. ASSUME NEW u \in Txs, NEW w \in Txs, NEW i \in Ids,
                 ent'[u][i].st # "none", ent'[u][i].base = Absent
          PROVE  seen'[i] = {} /\ db'[i] = Absent /\ (ent'[w][i].st # "none" => u = w)
      BY <2>2, <2>4, <1>5, <1>6 DEF FreshIds
    <2> QED
      BY <2>3, <2>4 DEF FreshIds
  <1> QED
    BY <1>4, <1>7, <1>8, <1>9, <1>10, <1>11

(* Every step keeps the invariant. *)
LEMMA NextInv == Inv /\ [Next]_vars => Inv'
  <1> SUFFICES ASSUME Inv, [Next]_vars PROVE Inv'
    OBVIOUS
  <1>1. CASE UNCHANGED vars
    BY <1>1 DEF vars, Inv, TypeOK, IdleClean, FlushedLocked, LoadedOnBase, BaseSeen,
                NewestSeen, FreshIds, SameVersion
  <1>2. CASE Next
    <2>1. PICK t \in Txs : Submit(t) \/ Edit(t) \/ Flush(t) \/ Commit(t)
                           \/ Fail(t) \/ DeadlockVictim(t)
      BY <1>2 DEF Next
    <2>2. Fail(t) \/ DeadlockVictim(t) => Rollback(t)
      BY DEF Fail, DeadlockVictim
    <2> QED
      BY <2>1, <2>2, SubmitInv, EditInv, FlushInv, CommitInv, RollbackInv
  <1> QED
    BY <1>1, <1>2

THEOREM Invariance == Spec => []Inv
  BY InitInv, NextInv, PTL DEF Spec

(***************************************************************************)
(* What follows from it, whatever requests are in use.                     *)
(***************************************************************************)

(* Every value keeps its type; in particular no version is negative. *)
THEOREM TypeCorrect == Spec => []TypeOK
  <1>1. Inv => TypeOK
    BY DEF Inv
  <1> QED
    BY <1>1, Invariance, PTL

(* A save or removeAll whose changes are flushed stands on the version its *)
(* client had read until it commits (JPA.checkVersion and the versioned    *)
(* UPDATE close the windows together).                                     *)
THEOREM FlushesStandOnBase == Spec => []FlushedOverBase
  <1>1. Inv => FlushedOverBase
    BY DEF Inv, FlushedLocked, LoadedOnBase, SameVersion, FlushedOverBase, In
  <1> QED
    BY <1>1, Invariance, PTL

(* Only a commit changes committed rows, and only those it flushed. *)
LEMMA OnlyCommitWrites ==
  ASSUME Inv, Next, <<db, seen, last>>' # <<db, seen, last>>
  PROVE  \E t \in Txs : Commit(t)
  <1>1. \A t \in Txs : ~Submit(t)
    BY DEF Submit
  <1>2. \A t \in Txs : ~Rollback(t)
    BY DEF Rollback
  <1>3. \A t \in Txs : ~Fail(t) /\ ~DeadlockVictim(t)
    BY <1>2 DEF Fail, DeadlockVictim
  <1>4. \A t \in Txs, i \in Ids : \A stage, row : ~SetStage(t, i, stage, row)
    BY DEF SetStage
  <1>5. \A t \in Txs : ~Edit(t)
    BY <1>2, <1>4 DEF Edit, EditNew, EditUnchanged, EditChanged, EditRefused,
                      LoadForRemove, SelectForMass
  <1>6. \A t \in Txs : ~Flush(t)
    BY <1>2 DEF Flush, FlushWrites, FlushStale, FlushMass
  <1> QED
    BY <1>1, <1>3, <1>5, <1>6 DEF Next

(* How one row changes when a request commits. *)
LEMMA CommittedRow ==
  ASSUME Inv, NEW t \in Txs, Commit(t), NEW i \in Ids
  PROVE  /\ ent[t][i].st # "flushed" => db'[i] = db[i]
         /\ ent[t][i].st = "flushed" => db'[i] = NewRow(kind[t], ent[t][i])
         /\ seen'[i] = seen[i] \cup ({db'[i]} \ {Absent})
         /\ db[i] = Absent /\ db'[i] # Absent => seen[i] = {}
         /\ db[i] # Absent /\ db'[i] # Absent => db'[i].ver >= db[i].ver
  <1>1. /\ db'[i] = IF ent[t][i].st = "flushed" THEN NewRow(kind[t], ent[t][i]) ELSE db[i]
        /\ seen'[i] = seen[i] \cup ({db'[i]} \ {Absent})
    BY DEF Commit, In
  <1>2. db[i] # Absent => db[i].ver \in Nat
    BY DEF Inv, TypeOK, MaybeRows, Rows
  <1>3. CASE ent[t][i].st = "flushed"
    <2>1. ent[t][i].base = Absent => seen[i] = {}
      BY <1>3 DEF Inv, FreshIds
    <2> QED
      BY <2>1, <1>1, <1>2, <1>3, WrittenRow
  <1>4. CASE ent[t][i].st # "flushed"
    BY <1>1, <1>2, <1>4
  <1> QED
    BY <1>3, <1>4

(* No save brings a deleted record back. *)
THEOREM DeletionIsFinal == Spec => DeletedStaysDeleted
  <1>1. Inv /\ [Next]_vars =>
          [\A i \in Ids : seen[i] # {} /\ db[i] = Absent => db'[i] = Absent]_vars
    BY OnlyCommitWrites, CommittedRow DEF vars
  <1> QED
    BY <1>1, Invariance, PTL DEF Spec, DeletedStaysDeleted

(* The version of a row that stays never goes back. *)
THEOREM VersionsAreMonotone == Spec => VersionsOnlyGrow
  <1>1. Inv /\ [Next]_vars =>
          [\A i \in Ids : db[i] # Absent /\ db'[i] # Absent => db'[i].ver >= db[i].ver]_vars
    <2> SUFFICES ASSUME Inv, Next, NEW i \in Ids, db[i] # Absent, db'[i] # Absent
                 PROVE  db'[i].ver >= db[i].ver
      BY DEF vars
    <2>1. db[i].ver \in Nat
      BY DEF Inv, TypeOK, MaybeRows, Rows
    <2>2. CASE db' = db
      BY <2>1, <2>2
    <2>3. CASE db' # db
      BY <2>3, OnlyCommitWrites, CommittedRow
    <2> QED
      BY <2>2, <2>3
  <1> QED
    BY <1>1, Invariance, PTL DEF Spec, VersionsOnlyGrow

(***************************************************************************)
(* Without updateMass, the version identifies the content; without         *)
(* remove(id) either, the resource implements OptimisticStore.             *)
(***************************************************************************)

LEMMA UniqueStep ==
  ASSUME "mass" \notin Kinds, Inv, VersionIdentifiesContent, [Next]_vars
  PROVE  VersionIdentifiesContent'
  <1>1. CASE <<db, seen, last>>' = <<db, seen, last>>
    BY <1>1 DEF VersionIdentifiesContent
  <1>2. CASE <<db, seen, last>>' # <<db, seen, last>>
    <2>1. PICK t \in Txs : Commit(t)
      BY <1>2, OnlyCommitWrites DEF vars
    <2>2. SUFFICES ASSUME NEW i \in Ids PROVE \A p, q \in seen'[i] : p.ver = q.ver => p = q
      BY DEF VersionIdentifiesContent
    <2>3. CASE db'[i] = db[i]
      <3>1. seen'[i] = seen[i]
        <4>1. {db[i]} \ {Absent} \subseteq seen[i]
          BY DEF Inv, NewestSeen
        <4>2. seen'[i] = seen[i] \cup ({db[i]} \ {Absent})
          BY <2>1, <2>3, CommittedRow
        <4> QED
          BY <4>1, <4>2
      <3> QED
        BY <3>1 DEF VersionIdentifiesContent
    <2>4. CASE db'[i] = Absent
      <3>1. seen'[i] = seen[i]
        BY <2>1, <2>4, CommittedRow
      <3> QED
        BY <3>1 DEF VersionIdentifiesContent
    <2>5. CASE db'[i] # Absent /\ db'[i] # db[i]
      <3>1. ent[t][i].st = "flushed" /\ kind[t] # "mass"
        BY <2>1, <2>5, CommittedRow DEF Inv, IdleClean
      <3>2. \A p \in seen[i] : p.ver # db'[i].ver
        <4>1. CASE db[i] = Absent
          BY <4>1, <2>1, <2>5, CommittedRow
        <4>2. CASE db[i] # Absent
          <5>1. db'[i].ver = db[i].ver + 1 /\ db[i].ver \in Nat
            BY <4>2, <3>1, <2>1, <2>5, CommittedRow, WrittenRow DEF Inv, TypeOK, MaybeRows, Rows
          <5>2. \A p \in seen[i] : p.ver \in Nat /\ p.ver <= db[i].ver
            BY <4>2 DEF Inv, NewestSeen, TypeOK, Rows
          <5> QED
            BY <5>1, <5>2
        <4> QED
          BY <4>1, <4>2
      <3>3. seen'[i] = seen[i] \cup {db'[i]}
        BY <2>1, <2>5, CommittedRow
      <3> QED
        BY <3>2, <3>3 DEF VersionIdentifiesContent
    <2> QED
      BY <2>3, <2>4, <2>5
  <1> QED
    BY <1>1, <1>2

(* A pair of id and version has one content, however many saves race. *)
THEOREM VersionIdentifies ==
  ASSUME "mass" \notin Kinds
  PROVE  Spec => []VersionIdentifiesContent
  <1>1. Init => VersionIdentifiesContent
    BY DEF Init, VersionIdentifiesContent
  <1>2. Inv /\ VersionIdentifiesContent /\ [Next]_vars => VersionIdentifiesContent'
    BY UniqueStep
  <1> QED
    BY <1>1, <1>2, Invariance, PTL DEF Spec

(* A commit of a versioned request is one step of the abstract store. *)
LEMMA CommitApplies ==
  ASSUME Kinds \subseteq VersionedKinds, Inv, Inv', VersionIdentifiesContent,
         NEW t \in Txs, Commit(t)
  PROVE  Store!Apply
  <1>1. last' = {[id |-> i, base |-> ent[t][i].base, new |-> db'[i]] : i \in In(t, "flushed")}
    BY DEF Commit
  <1>2. last' \subseteq Store!Changes
    BY DEF Inv, TypeOK, Store!Changes, Store!Rows, MaybeRows, Rows
  <1>3. db' \in [Ids -> Store!Rows \cup {Absent}]
    BY DEF Inv, TypeOK, Store!Rows, MaybeRows, Rows
  <1>4. ASSUME NEW i \in Ids, ent[t][i].st = "flushed"
        PROVE  /\ ent[t][i].base = db[i]
               /\ db'[i] # Absent => db'[i].ver = IF db[i] = Absent THEN 0 ELSE db[i].ver + 1
    <2>1. kind[t] \in VersionedKinds
      BY <1>4 DEF Inv, IdleClean
    <2>2. IF ent[t][i].base = Absent THEN db[i] = Absent
                                     ELSE db[i] # Absent /\ db[i].ver = ent[t][i].base.ver
      BY <2>1, <1>4 DEF Inv, FlushedLocked, LoadedOnBase, SameVersion
    <2>3. ent[t][i].base # Absent => ent[t][i].base \in seen[i] /\ db[i] \in seen[i]
      BY <2>2, <1>4 DEF Inv, BaseSeen, NewestSeen
    <2>4. ent[t][i].base = db[i]
      BY <2>2, <2>3 DEF VersionIdentifiesContent
    <2>5. kind[t] # "mass"
      BY <2>1 DEF VersionedKinds, Saves
    <2> QED
      BY <2>4, <2>5, <1>4, WrittenRow, CommittedRow
  <1>5. \A c \in last' : c.base = db[c.id] /\ c.new = db'[c.id] /\ Store!Succeeds(c)
    BY <1>1, <1>4 DEF In, Store!Succeeds
  <1>6. ASSUME NEW i \in Ids, \A c \in last' : c.id # i
        PROVE  db'[i] = db[i]
    <2>1. ent[t][i].st # "flushed"
      <3> SUFFICES ASSUME i \in In(t, "flushed") PROVE FALSE
        BY DEF In
      <3> DEFINE c == [id |-> i, base |-> ent[t][i].base, new |-> db'[i]]
      <3>1. c \in last' /\ c.id = i
        BY <1>1
      <3> QED
        BY <3>1, <1>6
    <2> QED
      BY <2>1, CommittedRow
  <1> QED
    BY <1>2, <1>3, <1>5, <1>6 DEF Store!Apply

(* No lost update, no half request: the resource implements the store.     *)
THEOREM StoreRefinement ==
  ASSUME Kinds \subseteq VersionedKinds
  PROVE  Spec => ImplementsStore
  <1>1. Init => Store!Init
    BY ValsAssumption DEF Init, Store!Init, Store!Rows
  <1>2. Inv /\ Inv' /\ VersionIdentifiesContent /\ [Next]_vars => [Store!Next]_(Store!vars)
    BY OnlyCommitWrites, CommitApplies DEF vars, Store!Next, Store!vars
  <1>3. "mass" \notin Kinds
    BY DEF VersionedKinds, Saves
  <1> QED
    BY <1>1, <1>2, <1>3, Invariance, VersionIdentifies, PTL DEF Spec, ImplementsStore, Store!Spec
=============================================================================
