-------------------------- MODULE MemoryStoreProofs --------------------------
(***************************************************************************)
(* What holds of MemoryStore for every value of its constants.             *)
(***************************************************************************)
EXTENDS MemoryStore, MemoryRowsProofs, FiniteSetTheorems

LEMMA UpsertFacts ==
    /\ None \notin Upsert
    /\ \A u \in Upsert : u.episode \in Episode /\ u.document \in Document /\ u.occurred \in Time
    /\ \A d \in Deletion : d.document \in Document /\ d.occurred \in Time
    /\ \A claims \in Extraction : claims \in Seq(Claim)
  BY EventAssumption, ExtractionAssumption, NoneIsNoInput

\* The proposal at hand is a claim, and the episode it is made from an input.
LEMMA PendingFacts ==
    ASSUME TypeOK, Pending
    PROVE  /\ writer \in Upsert /\ writer.episode \in Episode /\ writer.occurred \in Time
           /\ Head(todo) \in Claim /\ Tail(todo) \in Seq(Claim)
  BY UpsertFacts DEF TypeOK, Pending, Idle

-----------------------------------------------------------------------------
(* Types. *)

LEMMA InitType == Init => TypeOK
  <1>1. Init => IsTable(memories)
    BY DEF Init, IsTable
  <1>2. Init => todo \in Seq(Claim) /\ episodes \in [Episode -> Document \cup {None}]
    BY DEF Init
  <1>3. Init => sweep \in [Replica -> SUBSET Update] /\ group \in [Replica -> Group \cup {None}]
              /\ counted \in [Replica -> SUBSET (Kind \X Topic)]
    BY DEF Init
  <1>4. QED
    BY <1>1, <1>2, <1>3 DEF Init, TypeOK, Idle

LEMMA RollbackType ==
    ASSUME TypeOK, ~Idle, Rollback, collided' \in BOOLEAN
    PROVE  TypeOK'
  BY DEF TypeOK, Rollback, Idle, jobVars, IsTable

LEMMA WriteType ==
    ASSUME TypeOK, Pending, NEW written, NEW result, NEW links, NEW records,
           Write(written, result, links, records),
           IsTable(result), links \subseteq MemoryId \X Episode, records \subseteq Invalidation
    PROVE  TypeOK'
  <1>1. CASE \A table \in written : SchemaAccepts(table)
    <2>1. /\ memories' = result
          /\ provenance' = provenance \cup links
          /\ invalidations' = invalidations \cup records
          /\ todo' = Tail(todo)
          /\ UNCHANGED <<episodes, ingested, purged, writer, saved, collided, jobVars, deleted>>
      BY <1>1 DEF Write
    <2>2. IsTable(memories')
      BY <2>1
    <2>3. todo' \in Seq(Claim)
      BY <2>1, PendingFacts
    <2>4. QED
      BY <2>1, <2>2, <2>3 DEF TypeOK, Idle, Pending, jobVars, IsTable
  <1>2. CASE ~\A table \in written : SchemaAccepts(table)
    BY <1>2, RollbackType DEF Write, Pending
  <1>3. QED
    BY <1>1, <1>2

LEMMA CreateType == ASSUME TypeOK, NEW id \in Fresh, Create(id) PROVE TypeOK'
  <1> DEFINE row == NewRow(Head(todo), writer.occurred, None, None)
             created == Insert(memories, id, row)
  <1>1. Pending /\ Write({created}, created, {<<id, writer.episode>>}, {})
    BY DEF Create
  <1>2. id \in MemoryId /\ IsTable(memories)
    BY DEF Fresh, TypeOK
  <1>3. row \in Row
    BY <1>1, PendingFacts, NewRowType
  <1>4. IsTable(created)
    BY <1>2, <1>3, InsertType
  <1>5. QED
    BY <1>1, <1>2, <1>4, PendingFacts, WriteType

LEMMA ReinforceType ==
    ASSUME TypeOK, NEW current \in DOMAIN memories, Reinforce(current) PROVE TypeOK'
  <1> DEFINE row == Reinforced(memories[current], Head(todo), writer.occurred)
             again == [memories EXCEPT ![current] = row]
  <1>1. Pending /\ Write({again}, again, {<<current, writer.episode>>}, {})
    BY DEF Reinforce
  <1>2. current \in MemoryId /\ memories[current] \in Row
    BY DEF TypeOK, IsTable
  <1>3. row \in Row
    BY <1>1, <1>2, PendingFacts, ReinforcedType
  <1>4. IsTable(again)
    BY <1>2, <1>3 DEF TypeOK, IsTable
  <1>5. QED
    BY <1>1, <1>2, <1>4, PendingFacts, WriteType

LEMMA BackfillType ==
    ASSUME TypeOK, NEW id \in Fresh, NEW current \in DOMAIN memories, Backfill(id, current)
    PROVE  TypeOK'
  <1> DEFINE taken == memories[current].from
             row == NewRow(Head(todo), writer.occurred, taken, current)
             filed == Insert(memories, id, row)
             record == [memory |-> id, by |-> current, at |-> taken]
  <1>1. Pending /\ Write({filed}, filed, {<<id, writer.episode>>}, {record})
    BY DEF Backfill, Historical, recordInvalidation
  <1>2. id \in MemoryId /\ current \in MemoryId /\ taken \in Time
    BY DEF Fresh, TypeOK, IsTable, Row
  <1>3. row \in Row
    BY <1>1, <1>2, PendingFacts, NewRowType
  <1>4. IsTable(filed)
    BY <1>2, <1>3, InsertType DEF TypeOK
  <1>5. record \in Invalidation
    BY <1>2 DEF Invalidation
  <1>6. QED
    BY <1>1, <1>2, <1>4, <1>5, PendingFacts, WriteType

LEMMA SupersedeType ==
    ASSUME TypeOK, NEW id \in Fresh, NEW current \in DOMAIN memories, Supersede(id, current)
    PROVE  TypeOK'
  <1> DEFINE at == writer.occurred
             row == NewRow(Head(todo), at, None, None)
             closed == [memories EXCEPT ![current].to = at]
             inserted == Insert(closed, id, row)
             linked == [inserted EXCEPT ![current].by = id]
             record == [memory |-> current, by |-> id, at |-> at]
  <1>1. Pending /\ Write({closed, inserted, linked}, linked, {<<id, writer.episode>>}, {record})
    BY DEF Supersede, Linked, recordInvalidation
  <1>2. id \in MemoryId /\ current \in MemoryId /\ at \in Time
    BY <1>1, PendingFacts DEF Fresh, TypeOK, IsTable
  <1>3. row \in Row
    BY <1>1, PendingFacts, NewRowType
  <1>4. IsTable(closed)
    <2>1. [memories[current] EXCEPT !.to = at] \in Row
      BY <1>2 DEF TypeOK, IsTable, Row
    <2>2. IsTable(memories)
      BY DEF TypeOK
    <2>3. QED
      BY <2>1, <2>2 DEF IsTable
  <1>5. IsTable(inserted)
    BY <1>2, <1>3, <1>4, InsertType
  <1>6. IsTable(linked)
    <2> HIDE DEF inserted
    <2>1. QED
      BY <1>2, <1>5 DEF IsTable, Row
  <1>7. record \in Invalidation
    BY <1>2 DEF Invalidation
  <1>8. QED
    BY <1>1, <1>2, <1>6, <1>7, PendingFacts, WriteType

LEMMA CommitType == ASSUME TypeOK, CommitStep PROVE TypeOK'
  <1>1. ASSUME NEW u \in Upsert, NEW claims \in Extraction, BeginCommit(u, claims)
        PROVE  TypeOK'
    <2>1. u \in Upsert /\ u # None /\ u.episode \in Episode /\ u.document \in Document
          /\ claims \in Seq(Claim)
      BY UpsertFacts
    <2>2. episodes' \in [Episode -> Document \cup {None}]
      BY <1>1, <2>1 DEF TypeOK, BeginCommit
    <2>3. /\ saved'.memories = memories /\ saved'.provenance = provenance
          /\ saved'.invalidations = invalidations /\ saved'.episodes = episodes
          /\ writer' = u /\ todo' = claims /\ memories' = memories
      BY <1>1 DEF BeginCommit
    <2>4. QED
      BY <1>1, <2>1, <2>2, <2>3 DEF TypeOK, BeginCommit, Idle, jobVars, IsTable
  <1>2. ASSUME FinishCommit PROVE TypeOK'
    <2>1. writer.episode \in Episode
      BY <1>2, UpsertFacts DEF TypeOK, FinishCommit, Idle
    <2>2. QED
      BY <1>2, <2>1 DEF TypeOK, FinishCommit, Idle, tables, jobVars, IsTable
  <1>3. ASSUME AbortCommit PROVE TypeOK'
    BY <1>3, RollbackType DEF AbortCommit, TypeOK
  <1>4. QED
    BY <1>1, <1>2, <1>3, CreateType, ReinforceType, BackfillType, SupersedeType DEF CommitStep

LEMMA DerivedFacts ==
    ASSUME TypeOK, NEW document
    PROVE  /\ DerivedFrom(document) \subseteq DOMAIN memories
           /\ DerivedFrom(document) \subseteq MemoryId
           /\ Closing(document) \subseteq DOMAIN memories
           /\ \A i \in Closing(document) : memories[i].to = None
  BY DEF DerivedFrom, Closing, TypeOK, IsTable

LEMMA InvalidateType == ASSUME TypeOK, NEW d \in Deletion, InvalidateByDocument(d) PROVE TypeOK'
  <1>1. d.document \in Document /\ d.occurred \in Time
    BY UpsertFacts
  <1>2. /\ Idle /\ deleted' = deleted \cup {d.document}
        /\ UNCHANGED <<ingested, commitVars, jobVars>>
    BY DEF InvalidateByDocument
  <1>3. CASE CloseDerived(d.document, d.occurred)
    <2>1. IsTable(memories')
      BY <1>1, <1>3, ClosedType DEF CloseDerived, TypeOK
    <2>2. invalidations' \subseteq Invalidation
      BY <1>1, <1>3, DerivedFacts DEF CloseDerived, TypeOK, recordInvalidation, Invalidation
    <2>3. QED
      BY <1>1, <1>2, <1>3, <2>1, <2>2 DEF CloseDerived, TypeOK, Idle, commitVars, jobVars, IsTable
  <1>4. CASE PurgeDerived(d.document)
    <2>1. IsTable(memories')
      BY <1>4, WithoutType DEF PurgeDerived, TypeOK
    <2>2. episodes' \in [Episode -> Document \cup {None}] /\ provenance' \subseteq provenance
      BY <1>4 DEF PurgeDerived, TypeOK
    <2>3. invalidations' \subseteq Invalidation
      BY <1>4 DEF PurgeDerived, TypeOK, AuditAfterPurge, Unlinked, Invalidation
    <2>4. purged' \subseteq MemoryId
      BY <1>4, DerivedFacts DEF PurgeDerived, TypeOK, Gone
    <2>5. QED
      BY <1>1, <1>2, <2>1, <2>2, <2>3, <2>4 DEF TypeOK, Idle, commitVars, jobVars, IsTable
  <1>5. QED
    BY <1>3, <1>4 DEF InvalidateByDocument

LEMMA DecayScanType == ASSUME TypeOK, NEW r \in Replica, DecayScan(r) PROVE TypeOK'
  <1>1. PICK decayed \in SUBSET {i \in DOMAIN memories : IsCurrent(memories[i])} :
        \E faded \in SUBSET {i \in decayed : Archivable(memories[i].kind)} :
          sweep' = [sweep EXCEPT ![r] = {[id |-> i, archive |-> i \in faded] : i \in decayed}]
    BY DEF DecayScan
  <1>2. PICK faded \in SUBSET {i \in decayed : Archivable(memories[i].kind)} :
          sweep' = [sweep EXCEPT ![r] = {[id |-> i, archive |-> i \in faded] : i \in decayed}]
    BY <1>1
  <1>3. {[id |-> i, archive |-> i \in faded] : i \in decayed} \subseteq Update
    <2>1. SUFFICES ASSUME NEW i \in decayed
                   PROVE  [id |-> i, archive |-> i \in faded] \in Update
      BY Zenon
    <2>2. i \in MemoryId
      BY DEF TypeOK, IsTable
    <2>3. CASE i \in faded
      <3>1. [id |-> i, archive |-> i \in faded] = [id |-> i, archive |-> TRUE]
        BY <2>3, Zenon
      <3>2. QED
        BY <2>2, <3>1 DEF Update
    <2>4. CASE i \notin faded
      <3>1. (i \in faded) = FALSE
        BY <2>4
      <3>2. [id |-> i, archive |-> i \in faded] = [id |-> i, archive |-> FALSE]
        BY <3>1, Zenon
      <3>3. QED
        BY <2>2, <3>2 DEF Update
    <2>5. QED
      BY <2>3, <2>4
  <1>4. sweep' \in [Replica -> SUBSET Update]
    BY <1>2, <1>3 DEF TypeOK
  <1>5. QED
    BY <1>4 DEF DecayScan, TypeOK, tables, commitVars, Idle, IsTable

LEMMA DecayUpdateType ==
    ASSUME TypeOK, NEW r \in Replica, NEW u \in sweep[r], DecayUpdate(r, u) PROVE TypeOK'
  <1>1. u.id \in MemoryId /\ u.archive \in BOOLEAN
    BY DEF TypeOK, Update
  <1>2. IsTable(memories')
    <2>1. CASE memories' = memories
      BY <2>1 DEF TypeOK, IsTable
    <2>2. CASE u.id \in DOMAIN memories /\ memories' = [memories EXCEPT ![u.id].archived = u.archive]
      <3>1. memories[u.id] \in Row
        BY <2>2 DEF TypeOK, IsTable
      <3>2. [memories[u.id] EXCEPT !.archived = u.archive] \in Row
        BY <1>1, <3>1 DEF Row
      <3>3. QED
        BY <2>2, <3>2 DEF TypeOK, IsTable
    <2>3. QED
      BY <2>1, <2>2 DEF DecayUpdate
  <1>3. sweep' \in [Replica -> SUBSET Update]
    BY DEF DecayUpdate, TypeOK
  <1>4. QED
    BY <1>2, <1>3 DEF DecayUpdate, TypeOK, commitVars, Idle, IsTable

LEMMA ReadGroupType ==
    ASSUME TypeOK, NEW r \in Replica, NEW kind \in Kind, NEW topic \in Topic, NEW now \in Time,
           ReadGroup(r, kind, topic, now)
    PROVE  group' \in [Replica -> Group \cup {None}]
  <1> DEFINE ids == AsOf(memories, kind, topic, now)
  <1>1. ids \subseteq DOMAIN memories
    BY DEF AsOf
  <1>2. PICK first \in ids :
          group' = [group EXCEPT ![r] = [ids |-> ids, kind |-> kind, topic |-> topic,
                                         from |-> memories[first].from, asOf |-> now]]
    BY DEF ReadGroup
  <1>3. ids \in SUBSET MemoryId /\ memories[first].from \in Time
    BY <1>1 DEF TypeOK, IsTable, Row
  <1> HIDE DEF ids
  <1>4. [ids |-> ids, kind |-> kind, topic |-> topic,
         from |-> memories[first].from, asOf |-> now] \in Group
    BY <1>3 DEF Group
  <1>5. QED
    BY <1>2, <1>4 DEF TypeOK

LEMMA FindConsolidationGroupType ==
    ASSUME TypeOK, NEW r \in Replica, NEW kind \in Kind, NEW topic \in Topic, NEW now \in Time,
           FindConsolidationGroup(r, kind, topic, now)
    PROVE  TypeOK'
  <1>1. group' \in [Replica -> Group \cup {None}]
    BY ReadGroupType DEF FindConsolidationGroup, SkipGroup, TypeOK
  <1>2. counted' \in [Replica -> SUBSET (Kind \X Topic)]
    BY DEF FindConsolidationGroup, TypeOK
  <1>3. QED
    BY <1>1, <1>2 DEF FindConsolidationGroup, TypeOK, tables, commitVars, Idle, IsTable

LEMMA CountGroupsType == ASSUME TypeOK, NEW r \in Replica, CountGroups(r) PROVE TypeOK'
  <1>1. counted' \in [Replica -> SUBSET (Kind \X Topic)]
    BY DEF CountGroups, TypeOK
  <1>2. QED
    BY <1>1 DEF CountGroups, TypeOK, tables, commitVars, Idle, IsTable

\* What Consolidate starts from and inserts.
LEMMA ConsolidateFacts ==
    ASSUME TypeOK, NEW r \in Replica, NEW id \in Fresh, NEW statement \in Statement,
           NEW now \in Time, Consolidate(r, id, statement, now)
    PROVE  /\ group[r] \in Group
           /\ group[r].ids \in SUBSET DOMAIN memories
           /\ id \in MemoryId \ DOMAIN memories
           /\ SummaryRow(group[r], statement, now) \in Row
           /\ {i \in group[r].ids \cap DOMAIN memories : memories[i].to = None}
                = {i \in group[r].ids : memories[i].to = None}
  <1>1. group[r] \in Group /\ group[r].ids \subseteq DOMAIN memories
    BY DEF Consolidate, TypeOK
  <1>2. id \in MemoryId \ DOMAIN memories
    BY DEF Fresh
  <1>3. SummaryRow(group[r], statement, now) \in Row
    BY <1>1 DEF SummaryRow, Row, Group
  <1>4. QED
    BY <1>1, <1>2, <1>3

LEMMA ConsolidateType ==
    ASSUME TypeOK, NEW r \in Replica, NEW id \in Fresh, NEW statement \in Statement,
           NEW now \in Time, Consolidate(r, id, statement, now)
    PROVE  TypeOK'
  <1> DEFINE g == group[r]
             closed == Closed(memories, {i \in g.ids : memories[i].to = None}, now)
             inserted == Insert(closed, id, SummaryRow(g, statement, now))
             linked == Replaced(inserted, g.ids, id)
  <1>1. /\ g \in Group /\ g.ids \subseteq MemoryId /\ id \in MemoryId
        /\ SummaryRow(g, statement, now) \in Row
    BY ConsolidateFacts DEF TypeOK, IsTable
  <1>2. memories' = linked
    BY ConsolidateFacts DEF Consolidate, Retired
  <1>3. IsTable(memories')
    <2>1. IsTable(closed)
      BY ClosedType DEF TypeOK
    <2>2. IsTable(inserted)
      BY <1>1, <2>1, InsertType
    <2>3. QED
      BY <1>1, <1>2, <2>2, ReplacedType
  <1>4. provenance' \subseteq MemoryId \X Episode
    BY <1>1 DEF Consolidate, Inherited, TypeOK
  <1>5. invalidations' \subseteq Invalidation
    BY <1>1 DEF Consolidate, TypeOK, recordInvalidation, Invalidation
  <1>6. group' \in [Replica -> Group \cup {None}]
    BY DEF Consolidate, TypeOK
  <1>7. UNCHANGED <<episodes, ingested, purged, commitVars, sweep, counted, deleted>> /\ Idle
    BY DEF Consolidate
  <1>8. QED
    BY <1>3, <1>4, <1>5, <1>6, <1>7 DEF TypeOK, commitVars, Idle, IsTable

LEMMA MaintenanceType == ASSUME TypeOK, MaintenanceStep PROVE TypeOK'
  <1>1. ASSUME NEW r \in Replica, DecayStops(r) PROVE TypeOK'
    BY <1>1 DEF DecayStops, TypeOK, tables, commitVars, Idle, IsTable
  <1>2. ASSUME NEW r \in Replica, ConsolidationFails(r) PROVE TypeOK'
    <2>1. /\ group' \in [Replica -> Group \cup {None}]
          /\ counted' \in [Replica -> SUBSET (Kind \X Topic)]
      BY <1>2 DEF ConsolidationFails, TypeOK
    <2>2. QED
      BY <1>2, <2>1 DEF ConsolidationFails, TypeOK, tables, commitVars, Idle, IsTable
  <1>3. QED
    BY <1>1, <1>2, DecayScanType, DecayUpdateType, CountGroupsType, FindConsolidationGroupType,
       ConsolidateType
    DEF MaintenanceStep

LEMMA StepType == ASSUME TypeOK, [Next]_vars PROVE TypeOK'
  <1>1. CASE UNCHANGED vars
    BY <1>1 DEF TypeOK, vars, tables, commitVars, jobVars, Idle, IsTable
  <1>2. CASE Next
    BY <1>2, CommitType, InvalidateType, MaintenanceType DEF Next
  <1>3. QED
    BY <1>1, <1>2

\* Whatever commits, deletions and maintenance do, and wherever a Commit fails, the
\* tables hold what their columns can hold and the transaction's snapshot is there
\* exactly while a Commit is open.
THEOREM TypeCorrect == Spec => []TypeOK
  BY InitType, StepType, PTL DEF Spec

-----------------------------------------------------------------------------
(* The inductive invariant.  The schema alone is not inductive: a rollback *)
(* brings the saved tables back, and a consolidation closes whatever its   *)
(* group names, however long ago that was read.                            *)

\* Every key a replica counted and every group it holds is of events, and the ids of a group
\* are not given again.
GroupsHoldEvents(table) ==
    \A r \in Replica :
        /\ \A key \in counted[r] : key[1] = "event"
        /\ group[r] # None =>
              /\ group[r].kind = "event"
              /\ group[r].ids \subseteq DOMAIN table \cup purged
              /\ \A i \in group[r].ids \cap DOMAIN table : table[i].kind = "event"

Inv ==
    /\ TypeOK
    /\ Sound(memories)
    /\ GroupsHoldEvents(memories)
    /\ ~Idle => /\ Sound(saved.memories)
                /\ Extends(saved.memories, memories)
                /\ GroupsHoldEvents(saved.memories)
    /\ ~collided

\* One step of HistoryIsKept.
HistoryStep ==
    \A i \in DOMAIN Committed :
        \/ i \in DOMAIN Committed' /\ SameMemory(Committed[i], Committed'[i])
        \/ i \notin DOMAIN Committed' /\ i \in purged'

LEMMA InitInv == Init => Inv
  <1> SUFFICES ASSUME Init PROVE Inv
    OBVIOUS
  <1>1. DOMAIN memories = {} /\ Idle /\ ~collided
        /\ \A r \in Replica : group[r] = None /\ counted[r] = {}
    BY DEF Init, Idle
  <1>2. Sound(memories)
    <2>1. IsTable(memories)
      BY InitType DEF TypeOK
    <2>2. SchemaAccepts(memories)
      BY <1>1 DEF SchemaAccepts, memories_interval_ck, memories_supersede_ck,
                  memories_current_topic_uidx, superseded_by_fk
    <2>3. Gapless(memories) /\ Wellfounded(memories)
      BY <1>1 DEF Gapless, Wellfounded
    <2>4. QED
      BY <2>1, <2>2, <2>3 DEF Sound
  <1>3. QED
    BY <1>1, <1>2, InitType DEF Inv, GroupsHoldEvents

\* A table that keeps the rows and adds none under a purged id keeps the groups right.
LEMMA GroupsKept ==
    ASSUME NEW old, NEW new, GroupsHoldEvents(old), Extends(old, new),
           DOMAIN new \cap purged \subseteq DOMAIN old
    PROVE  GroupsHoldEvents(new)
  <1>1. SUFFICES ASSUME NEW r \in Replica, group[r] # None
                 PROVE  /\ group[r].kind = "event"
                        /\ group[r].ids \subseteq DOMAIN new \cup purged
                        /\ \A i \in group[r].ids \cap DOMAIN new : new[i].kind = "event"
    BY DEF GroupsHoldEvents
  <1>2. \A i \in DOMAIN old : i \in DOMAIN new /\ new[i].kind = old[i].kind
    BY DEF Extends, SameMemory, SameKey
  <1>3. \A i \in group[r].ids \cap DOMAIN new : i \in DOMAIN old
    BY <1>1 DEF GroupsHoldEvents
  <1>4. QED
    BY <1>1, <1>2, <1>3 DEF GroupsHoldEvents

LEMMA ExtendsReflexive == ASSUME NEW table PROVE Extends(table, table)
  BY DEF Extends, SameMemory, SameKey

\* The statements of a commitOne that the schema accepts.
LEMMA WriteInv ==
    ASSUME Inv, Pending, NEW written, NEW result, NEW links, NEW records,
           Write(written, result, links, records),
           \A table \in written : SchemaAccepts(table),
           Sound(result), Extends(memories, result),
           DOMAIN result \subseteq DOMAIN memories \cup Fresh,
           TypeOK'
    PROVE  Inv' /\ HistoryStep
  <1>1. /\ memories' = result /\ UNCHANGED <<purged, writer, saved, collided, group, counted>>
        /\ Idle' = Idle /\ ~Idle
    BY DEF Write, Pending, Idle, jobVars
  <1>2. DOMAIN result \cap purged \subseteq DOMAIN memories
    BY DEF Fresh
  <1>3. GroupsHoldEvents(result)
    BY <1>2, GroupsKept DEF Inv
  <1>4. Extends(saved.memories, result)
    BY <1>1, ExtendsTransitive DEF Inv
  <1>5. GroupsHoldEvents(result)' /\ GroupsHoldEvents(saved.memories)'
    BY <1>1, <1>3 DEF Inv, GroupsHoldEvents
  <1>6. Inv'
    BY <1>1, <1>4, <1>5 DEF Inv
  <1>7. HistoryStep
    <2>1. Committed' = Committed
      BY <1>1 DEF Committed
    <2>2. QED
      BY <2>1 DEF HistoryStep, SameMemory, SameKey
  <1>8. QED
    BY <1>6, <1>7

LEMMA CreateInv == ASSUME Inv, NEW id \in Fresh, Create(id) PROVE Inv' /\ HistoryStep
  <1> DEFINE claim == Head(todo)
             created == Insert(memories, id, NewRow(claim, writer.occurred, None, None))
  <1>1. /\ Pending /\ Write({created}, created, {<<id, writer.episode>>}, {})
        /\ Supersedes(claim.kind) => CurrentFor(memories, claim) = {}
    BY DEF Create
  <1>2. id \in MemoryId \ DOMAIN memories /\ claim \in Claim /\ writer.occurred \in Time
    BY <1>1, PendingFacts DEF Fresh, Inv
  <1>3. Sound(created) /\ Extends(memories, created)
    BY <1>1, <1>2, CreateSound DEF Inv
  <1>4. DOMAIN created \subseteq DOMAIN memories \cup Fresh
    BY DEF Insert
  <1>5. TypeOK'
    BY CreateType DEF Inv
  <1> HIDE DEF created
  <1>6. \A table \in {created} : SchemaAccepts(table)
    BY <1>3 DEF Sound
  <1>7. QED
    BY <1>1, <1>3, <1>4, <1>5, <1>6, WriteInv

LEMMA ReinforceInv ==
    ASSUME Inv, NEW current \in DOMAIN memories, Reinforce(current) PROVE Inv' /\ HistoryStep
  <1> DEFINE claim == Head(todo)
             again == [memories EXCEPT ![current] = Reinforced(@, claim, writer.occurred)]
  <1>1. /\ Pending /\ Write({again}, again, {<<current, writer.episode>>}, {})
        /\ current \in CurrentFor(memories, claim)
    BY DEF Reinforce
  <1>2. Sound(again) /\ Extends(memories, again)
    BY <1>1, PendingFacts, ReinforceSound DEF Inv
  <1>3. DOMAIN again \subseteq DOMAIN memories \cup Fresh
    OBVIOUS
  <1>4. TypeOK'
    BY ReinforceType DEF Inv
  <1> HIDE DEF again
  <1>5. \A table \in {again} : SchemaAccepts(table)
    BY <1>2 DEF Sound
  <1>6. QED
    BY <1>1, <1>2, <1>3, <1>4, <1>5, WriteInv

LEMMA BackfillInv ==
    ASSUME Inv, NEW id \in Fresh, NEW current \in DOMAIN memories, Backfill(id, current)
    PROVE  Inv' /\ HistoryStep
  <1> DEFINE claim == Head(todo)
             t == writer.occurred
             taken == memories[current].from
             filed == Insert(memories, id, NewRow(claim, t, taken, current))
             record == recordInvalidation(id, current, taken)
  <1>1. /\ Pending /\ Write({filed}, filed, {<<id, writer.episode>>}, {record})
        /\ current \in CurrentFor(memories, claim) /\ t < taken
    BY DEF Backfill, Historical, Earlier
  <1>2. id \in MemoryId \ DOMAIN memories /\ claim \in Claim /\ t \in Time
    BY <1>1, PendingFacts DEF Fresh, Inv
  <1>3. Sound(filed) /\ Extends(memories, filed)
    BY <1>1, <1>2, BackfillSound DEF Inv
  <1>4. DOMAIN filed \subseteq DOMAIN memories \cup Fresh
    BY DEF Insert
  <1>5. TypeOK'
    BY BackfillType DEF Inv
  <1> HIDE DEF filed
  <1>6. \A table \in {filed} : SchemaAccepts(table)
    BY <1>3 DEF Sound
  <1>7. QED
    BY <1>1, <1>3, <1>4, <1>5, <1>6, WriteInv

LEMMA SupersedeInv ==
    ASSUME Inv, NEW id \in Fresh, NEW current \in DOMAIN memories, Supersede(id, current)
    PROVE  Inv' /\ HistoryStep
  <1> DEFINE claim == Head(todo)
             at == writer.occurred
             closed == [memories EXCEPT ![current].to = at]
             inserted == Insert(closed, id, NewRow(claim, at, None, None))
             linked == [inserted EXCEPT ![current].by = id]
             record == recordInvalidation(current, id, at)
  <1>1. /\ Pending
        /\ Write({closed, inserted, linked}, linked, {<<id, writer.episode>>}, {record})
        /\ Supersedes(claim.kind) /\ current \in CurrentFor(memories, claim)
        /\ ~(at < memories[current].from)
    BY DEF Supersede, Linked, Earlier
  <1>2. id \in MemoryId \ DOMAIN memories /\ claim \in Claim /\ at \in Time
    BY <1>1, PendingFacts DEF Fresh, Inv
  <1>3. /\ SchemaAccepts(closed) /\ SchemaAccepts(inserted)
        /\ Sound(linked) /\ Extends(memories, linked)
    BY <1>1, <1>2, SupersedeSound DEF Inv
  <1>4. DOMAIN linked \subseteq DOMAIN memories \cup Fresh
    BY DEF Insert
  <1>5. TypeOK'
    BY SupersedeType DEF Inv
  <1> HIDE DEF closed, inserted, linked
  <1>6. \A table \in {closed, inserted, linked} : SchemaAccepts(table)
    BY <1>3 DEF Sound
  <1>7. QED
    BY <1>1, <1>3, <1>4, <1>5, <1>6, WriteInv

LEMMA CommitInv == ASSUME Inv, CommitStep PROVE Inv' /\ HistoryStep
  <1>1. TypeOK'
    BY CommitType DEF Inv
  <1>2. ASSUME NEW u \in Upsert, NEW claims \in Extraction, BeginCommit(u, claims)
        PROVE  Inv' /\ HistoryStep
    <2>1. /\ UNCHANGED <<memories, purged, collided, group, counted>> /\ Idle /\ ~Idle'
          /\ saved'.memories = memories
      BY <1>2, UpsertFacts DEF BeginCommit, jobVars, Idle
    <2>2. Committed' = Committed
      BY <2>1 DEF Committed
    <2>3. GroupsHoldEvents(memories)' /\ GroupsHoldEvents(saved.memories)'
      BY <2>1 DEF Inv, GroupsHoldEvents
    <2>4. Sound(saved.memories)' /\ Extends(saved.memories, memories)'
      BY <2>1, ExtendsReflexive DEF Inv
    <2>5. QED
      BY <1>1, <2>1, <2>2, <2>3, <2>4 DEF Inv, HistoryStep, SameMemory, SameKey
  <1>3. ASSUME FinishCommit PROVE Inv' /\ HistoryStep
    <2>1. UNCHANGED <<memories, purged, collided, group, counted>> /\ ~Idle /\ Idle'
      BY <1>3 DEF FinishCommit, tables, jobVars, Idle
    <2>2. Committed = saved.memories /\ Committed' = memories
      BY <2>1 DEF Committed
    <2>3. HistoryStep
      BY <2>1, <2>2 DEF Inv, HistoryStep, Extends
    <2>4. QED
      BY <1>1, <2>1, <2>3 DEF Inv, GroupsHoldEvents
  <1>4. ASSUME AbortCommit PROVE Inv' /\ HistoryStep
    <2>1. UNCHANGED <<purged, collided, group, counted>> /\ ~Idle /\ Idle' /\ memories' = saved.memories
      BY <1>4 DEF AbortCommit, Rollback, jobVars, Idle
    <2>2. Committed' = Committed
      BY <2>1 DEF Committed
    <2>3. HistoryStep
      BY <2>2 DEF HistoryStep, SameMemory, SameKey
    <2>4. GroupsHoldEvents(memories)'
      BY <2>1 DEF Inv, GroupsHoldEvents
    <2>5. QED
      BY <1>1, <2>1, <2>3, <2>4 DEF Inv
  <1>5. QED
    BY <1>2, <1>3, <1>4, CreateInv, ReinforceInv, BackfillInv, SupersedeInv DEF CommitStep

\* A step outside a Commit that takes a sound table to a sound one, keeping its rows.
LEMMA QuietInv ==
    ASSUME Inv, Idle, Idle', TypeOK', Sound(memories)', Extends(memories, memories'),
           DOMAIN memories' = DOMAIN memories, UNCHANGED <<purged, collided, group, counted>>
    PROVE  Inv' /\ HistoryStep
  <1>1. GroupsHoldEvents(memories)'
    <2>1. DOMAIN memories' \cap purged \subseteq DOMAIN memories
      OBVIOUS
    <2>2. GroupsHoldEvents(memories')
      BY <2>1, GroupsKept DEF Inv
    <2>3. QED
      BY <2>2 DEF GroupsHoldEvents
  <1>2. HistoryStep
    BY DEF HistoryStep, Committed, Extends
  <1>3. QED
    BY <1>1, <1>2 DEF Inv

LEMMA InvalidateInv ==
    ASSUME Inv, NEW d \in Deletion, InvalidateByDocument(d) PROVE Inv' /\ HistoryStep
  <1>1. TypeOK' /\ TypeOK /\ Idle /\ Idle' /\ UNCHANGED <<collided, group, counted>>
    BY InvalidateType DEF Inv, InvalidateByDocument, commitVars, jobVars, Idle
  <1>2. CASE CloseDerived(d.document, d.occurred)
    <2> DEFINE closed == Closed(memories, Closing(d.document), d.occurred)
    <2>1. /\ memories' = closed /\ SchemaAccepts(closed) /\ UNCHANGED purged
          /\ d.occurred \in Time
      BY <1>2, UpsertFacts DEF CloseDerived
    <2>2. Sound(closed) /\ Extends(memories, closed)
      BY <1>1, <2>1, DerivedFacts, ClosedSound DEF Inv
    <2>3. DOMAIN closed = DOMAIN memories
      BY DEF Closed
    <2>4. QED
      BY <1>1, <2>1, <2>2, <2>3, QuietInv
  <1>3. CASE PurgeDerived(d.document)
    <2> DEFINE gone == Gone(d.document)
    <2>1. /\ memories' = Without(memories, gone)
          /\ purged' = purged \cup gone
      BY <1>3 DEF PurgeDerived
    <2>2. Sound(memories)'
      BY <2>1, WithoutSound DEF Inv
    <2>3. /\ DOMAIN memories' = DOMAIN memories \ gone
          /\ \A i \in DOMAIN memories' : SameMemory(memories[i], memories'[i])
      BY <2>1 DEF Without, SameMemory, SameKey, TypeOK, Inv, IsTable, Row
    <2>4. GroupsHoldEvents(memories)'
      <3>1. SUFFICES ASSUME NEW r \in Replica, group[r] # None
                     PROVE  /\ group[r].kind = "event"
                            /\ group[r].ids \subseteq DOMAIN memories' \cup purged'
                            /\ \A i \in group[r].ids \cap DOMAIN memories' :
                                  memories'[i].kind = "event"
        BY <1>1 DEF Inv, GroupsHoldEvents
      <3>2. QED
        BY <2>1, <2>3, <3>1 DEF Inv, GroupsHoldEvents, SameMemory, SameKey
    <2>5. HistoryStep
      BY <1>1, <2>1, <2>3 DEF HistoryStep, Committed
    <2>6. QED
      BY <1>1, <2>2, <2>4, <2>5 DEF Inv
  <1>4. QED
    BY <1>2, <1>3 DEF InvalidateByDocument

LEMMA DecayUpdateInv ==
    ASSUME Inv, NEW r \in Replica, NEW u \in sweep[r], DecayUpdate(r, u)
    PROVE  Inv' /\ HistoryStep
  <1>1. TypeOK' /\ TypeOK /\ Idle /\ Idle' /\ UNCHANGED <<purged, collided, group, counted>>
    BY DecayUpdateType DEF Inv, DecayUpdate, commitVars, Idle
  <1>2. CASE memories' = memories
    BY <1>1, <1>2, ExtendsReflexive, QuietInv DEF Inv
  <1>3. CASE /\ u.id \in DOMAIN memories
             /\ memories' = [memories EXCEPT ![u.id].archived = u.archive]
             /\ SchemaAccepts(memories')
    <2>1. u.archive \in BOOLEAN
      BY <1>1 DEF TypeOK, Update
    <2>2. Sound(memories') /\ Extends(memories, memories')
      BY <1>3, <2>1, ArchivedSound DEF Inv
    <2>3. QED
      BY <1>1, <1>3, <2>2, QuietInv
  <1>4. QED
    BY <1>2, <1>3 DEF DecayUpdate

\* Only a stream can hold two current memories on one topic: the unique index.
LEMMA CurrentIsOne ==
    ASSUME NEW kind \in Kind, NEW topic \in Topic, Supersedes(kind),
           memories_current_topic_uidx(memories)
    PROVE  ~Enough(OpenOf(kind, topic))
  <1> DEFINE open == OpenOf(kind, topic)
  <1>1. \A i, j \in open : i = j
    BY DEF OpenOf, memories_current_topic_uidx, SameKey
  <1>2. Cardinality(open) < 2
    <2>1. CASE open = {}
      BY <2>1, FS_EmptySet
    <2>2. CASE open # {}
      <3>1. PICK i \in open : open = {i}
        BY <1>1, <2>2
      <3>2. QED
        BY <3>1, FS_Singleton
    <2>3. QED
      BY <2>1, <2>2
  <1>3. QED
    <2>1. Cardinality(open) \in Nat
      <3>1. IsFiniteSet(open)
        <4>1. CASE open = {}
          BY <4>1, FS_EmptySet
        <4>2. CASE open # {}
          <5>1. PICK i \in open : open = {i}
            BY <1>1, <4>2
          <5>2. QED
            BY <5>1, FS_Singleton
        <4>3. QED
          BY <4>1, <4>2
      <3>2. QED
        BY <3>1, FS_CardinalityType
    <2>2. QED
      BY <1>2, <2>1, MinGroupAssumption DEF Enough

\* Only events crowd a topic: the other kinds have one current memory per key.
LEMMA CountGroupsInv ==
    ASSUME Inv, NEW r \in Replica, CountGroups(r) PROVE Inv' /\ HistoryStep
  <1> DEFINE crowded == {key \in Kind \X Topic : Enough(OpenOf(key[1], key[2]))}
  <1>1. /\ TypeOK' /\ TypeOK /\ Idle /\ Idle'
        /\ UNCHANGED <<memories, purged, collided, group>>
        /\ counted' = [counted EXCEPT ![r] = crowded]
    BY CountGroupsType DEF Inv, CountGroups, tables, commitVars, Idle
  <1>2. \A key \in crowded : key[1] = "event"
    <2>1. memories_current_topic_uidx(memories)
      BY DEF Inv, Sound, SchemaAccepts
    <2>2. QED
      BY <2>1, CurrentIsOne DEF Supersedes
  <1> HIDE DEF crowded
  <1>3. \A q \in Replica : \A key \in counted'[q] : key[1] = "event"
    BY <1>1, <1>2 DEF TypeOK, Inv, GroupsHoldEvents
  <1>4. GroupsHoldEvents(memories)'
    BY <1>1, <1>3 DEF Inv, GroupsHoldEvents
  <1>5. HistoryStep
    BY <1>1 DEF HistoryStep, Committed, SameMemory, SameKey
  <1>6. QED
    BY <1>1, <1>4, <1>5 DEF Inv

LEMMA FindConsolidationGroupInv ==
    ASSUME Inv, NEW r \in Replica, NEW kind \in Kind, NEW topic \in Topic, NEW now \in Time,
           FindConsolidationGroup(r, kind, topic, now)
    PROVE  Inv' /\ HistoryStep
  <1> DEFINE ids == AsOf(memories, kind, topic, now)
  <1>1. /\ TypeOK' /\ TypeOK /\ Idle /\ Idle'
        /\ UNCHANGED <<memories, purged, collided>>
        /\ \A q \in Replica : counted'[q] \subseteq counted[q]
    BY FindConsolidationGroupType
    DEF Inv, FindConsolidationGroup, tables, commitVars, Idle, TypeOK
  <1>2. kind = "event"
    <2>1. <<kind, topic>>[1] = "event"
      BY DEF FindConsolidationGroup, Inv, GroupsHoldEvents
    <2>2. QED
      BY <2>1
  <1>3. HistoryStep
    BY <1>1 DEF HistoryStep, Committed, SameMemory, SameKey
  <1>4. CASE group' = group
    <2>1. GroupsHoldEvents(memories)'
      BY <1>1, <1>4 DEF Inv, GroupsHoldEvents
    <2>2. QED
      BY <1>1, <1>3, <2>1 DEF Inv
  <1>5. CASE ReadGroup(r, kind, topic, now)
    <2>1. PICK first \in ids :
            group' = [group EXCEPT ![r] = [ids |-> ids, kind |-> kind, topic |-> topic,
                                           from |-> memories[first].from, asOf |-> now]]
      BY <1>5 DEF ReadGroup
    <2>2. ids \subseteq DOMAIN memories /\ \A i \in ids : memories[i].kind = kind
      BY DEF AsOf
    <2> HIDE DEF ids
    <2>3. /\ group'[r].kind = "event" /\ group'[r].ids = ids
          /\ \A q \in Replica \ {r} : group'[q] = group[q]
      BY <1>1, <1>2, <2>1 DEF TypeOK
    <2>4. GroupsHoldEvents(memories)'
      BY <1>1, <1>2, <2>2, <2>3 DEF Inv, GroupsHoldEvents
    <2>5. QED
      BY <1>1, <1>3, <2>4 DEF Inv
  <1>6. QED
    BY <1>4, <1>5 DEF FindConsolidationGroup, SkipGroup

LEMMA ConsolidateInv ==
    ASSUME Inv, NEW r \in Replica, NEW id \in Fresh, NEW statement \in Statement,
           NEW now \in Time, Consolidate(r, id, statement, now)
    PROVE  Inv' /\ HistoryStep
  <1> DEFINE g == group[r]
             row == SummaryRow(g, statement, now)
             closed == Closed(memories, {i \in g.ids : memories[i].to = None}, now)
             linked == Replaced(Insert(closed, id, row), g.ids, id)
  <1>1. /\ TypeOK' /\ TypeOK /\ Idle /\ Idle' /\ UNCHANGED <<purged, collided>>
        /\ g # None /\ group' = [group EXCEPT ![r] = None] /\ counted' = counted
    BY ConsolidateType DEF Inv, Consolidate, commitVars, Idle
  <1>2. /\ g \in Group /\ g.ids \in SUBSET DOMAIN memories
        /\ id \in MemoryId \ DOMAIN memories
        /\ row \in Row /\ row.by = None
    BY <1>1, ConsolidateFacts DEF SummaryRow
  <1>3. memories' = linked /\ SchemaAccepts(closed) /\ SchemaAccepts(linked)
    BY <1>1, ConsolidateFacts DEF Consolidate, Retired
  <1>4. \A i \in g.ids : memories[i].kind = "event"
    BY <1>1, <1>2 DEF Inv, GroupsHoldEvents
  <1>5. Sound(linked) /\ Extends(memories, linked)
    BY <1>2, <1>3, <1>4, ConsolidatedSound DEF Inv
  <1>6. DOMAIN linked = DOMAIN memories \cup {id}
    BY DEF Replaced, Insert, Closed
  <1> HIDE DEF linked
  <1>7. GroupsHoldEvents(memories)'
    <2>1. DOMAIN linked \cap purged \subseteq DOMAIN memories
      BY <1>6 DEF Fresh
    <2>2. GroupsHoldEvents(linked)
      BY <1>5, <2>1, GroupsKept DEF Inv
    <2>3. \A q \in Replica : group'[q] # None => group'[q] = group[q]
      BY <1>1 DEF TypeOK
    <2>4. QED
      BY <1>1, <1>3, <2>2, <2>3 DEF GroupsHoldEvents
  <1>8. HistoryStep
    BY <1>1, <1>3, <1>5 DEF HistoryStep, Committed, Extends
  <1>9. QED
    BY <1>1, <1>3, <1>5, <1>7, <1>8 DEF Inv

LEMMA MaintenanceInv == ASSUME Inv, MaintenanceStep PROVE Inv' /\ HistoryStep
  <1>1. TypeOK'
    BY MaintenanceType DEF Inv
  <1>2. ASSUME NEW r \in Replica, DecayScan(r) \/ DecayStops(r)
        PROVE  Inv' /\ HistoryStep
    <2>1. UNCHANGED <<memories, purged, group, counted, writer, saved, collided>>
      BY <1>2 DEF DecayScan, DecayStops, tables, commitVars
    <2>2. Committed' = Committed /\ Idle' = Idle
      BY <2>1 DEF Committed, Idle
    <2>3. QED
      BY <1>1, <2>1, <2>2 DEF Inv, GroupsHoldEvents, HistoryStep, SameMemory, SameKey
  <1>3. ASSUME NEW r \in Replica, ConsolidationFails(r) PROVE Inv' /\ HistoryStep
    <2>1. /\ UNCHANGED <<memories, purged, writer, saved, collided>>
          /\ \A q \in Replica : group'[q] # None => group'[q] = group[q]
          /\ \A q \in Replica : counted'[q] \subseteq counted[q]
      BY <1>3 DEF ConsolidationFails, tables, commitVars, Inv, TypeOK
    <2>2. Committed' = Committed /\ Idle' = Idle
      BY <2>1 DEF Committed, Idle
    <2>3. QED
      BY <1>1, <2>1, <2>2 DEF Inv, GroupsHoldEvents, HistoryStep, SameMemory, SameKey
  <1>4. QED
    BY <1>2, <1>3, DecayUpdateInv, CountGroupsInv, FindConsolidationGroupInv, ConsolidateInv
    DEF MaintenanceStep

LEMMA StepInv == ASSUME Inv, [Next]_vars PROVE Inv' /\ HistoryStep
  <1>1. CASE UNCHANGED vars
    <2>1. TypeOK'
      BY <1>1, StepType DEF Inv
    <2>2. UNCHANGED <<memories, purged, group, counted, writer, saved, collided>>
      BY <1>1 DEF vars, tables, commitVars, jobVars
    <2>3. Committed' = Committed /\ Idle' = Idle
      BY <2>2 DEF Committed, Idle
    <2>4. QED
      BY <2>1, <2>2, <2>3 DEF Inv, GroupsHoldEvents, HistoryStep, SameMemory, SameKey
  <1>2. CASE Next
    BY <1>2, CommitInv, InvalidateInv, MaintenanceInv DEF Next
  <1>3. QED
    BY <1>1, <1>2

-----------------------------------------------------------------------------
(* Theorems. *)

LEMMA InvHolds == Spec => []Inv
  BY InitInv, StepInv, PTL DEF Spec

\* No statement of a Commit is ever refused by the schema: the conflict resolver of
\* commitOne keeps the one-current-memory index satisfiable.
THEOREM ResolverIsSafe == Spec => []ResolverNeverCollides
  <1>1. Inv => ResolverNeverCollides
    BY DEF Inv, ResolverNeverCollides
  <1>2. QED
    BY <1>1, InvHolds, PTL

\* What replaced a memory starts where the memory ends, on the same key.
THEOREM HandoffIsGapless == Spec => []GaplessHandoff
  <1>1. Inv => GaplessHandoff
    BY DEF Inv, Sound, GaplessHandoff
  <1>2. QED
    BY <1>1, InvHolds, PTL

\* Following superseded_by always ends.
THEOREM SupersessionEnds == Spec => []ChainsEnd
  <1>1. Inv => ChainsEnd
    BY DEF Inv, Sound, ChainsEnd
  <1>2. QED
    BY <1>1, InvHolds, PTL

\* Consolidation replaces nothing but events.
THEOREM OnlyStreamsConsolidated == Spec => []OnlyEventsConsolidated
  <1>1. Inv => OnlyEventsConsolidated
    BY DEF Inv, GroupsHoldEvents, OnlyEventsConsolidated
  <1>2. QED
    BY <1>1, InvHolds, PTL

\* Committed history is never rewritten, and only a purge removes a row.
THEOREM HistoryKept == Spec => HistoryIsKept
  <1>1. Inv /\ [Next]_vars => [HistoryStep]_vars
    BY StepInv
  <1>2. QED
    BY <1>1, InvHolds, PTL DEF Spec, HistoryIsKept, HistoryStep

-----------------------------------------------------------------------------
(***************************************************************************)
(* MemoryStore implements BitemporalTable, under the mapping of Promise:   *)
(* the committed rows are the table a reader finds, the purged ids those   *)
(* that are gone.                                                          *)
(***************************************************************************)

\* A deleted row does not come back: neither by an insert nor by a rollback.
NothingReturns == DOMAIN memories \cap purged = {}

PromiseInv == Inv /\ NothingReturns

\* The words of the promise are those of the store's rows.
LEMMA SameWords ==
    ASSUME NEW t
    PROVE  /\ Promise!Promised(t) <=> Sound(t)
           /\ \A u : Promise!Extends(t, u) <=> Extends(t, u)
           /\ \A i \in DOMAIN t : \A u : Promise!SameMemory(t[i], u) <=> SameMemory(t[i], u)
  <1>1. Promise!IsTable(t) <=> IsTable(t)
    BY DEF Promise!IsTable, IsTable, Promise!Row, Row, Promise!Kind, Kind,
           Promise!TaskStatus, TaskStatus
  <1>2. Promise!Gapless(t) <=> Gapless(t)
    BY DEF Promise!Gapless, Gapless, Promise!Supersedes, Supersedes, Promise!SameKey, SameKey
  <1>3. Promise!Wellfounded(t) <=> Wellfounded(t)
    BY DEF Promise!Wellfounded, Wellfounded
  <1>4. Promise!memories_current_topic_uidx(t) <=> memories_current_topic_uidx(t)
    BY DEF Promise!memories_current_topic_uidx, memories_current_topic_uidx,
           Promise!IsCurrent, IsCurrent, Promise!SameKey, SameKey, Promise!Supersedes, Supersedes
  <1>5. Promise!SchemaAccepts(t) <=> SchemaAccepts(t)
    BY <1>4 DEF Promise!SchemaAccepts, SchemaAccepts,
                Promise!memories_interval_ck, memories_interval_ck,
                Promise!memories_supersede_ck, memories_supersede_ck,
                Promise!superseded_by_fk, superseded_by_fk
  <1>6. Promise!Promised(t) <=> Sound(t)
    BY <1>1, <1>2, <1>3, <1>5 DEF Promise!Promised, Sound
  <1>7. \A row, u : Promise!SameMemory(row, u) <=> SameMemory(row, u)
    BY DEF Promise!SameMemory, SameMemory, Promise!SameKey, SameKey
  <1>8. \A u : Promise!Extends(t, u) <=> Extends(t, u)
    BY <1>7 DEF Promise!Extends, Extends
  <1>9. QED
    BY <1>6, <1>7, <1>8

\* What a reader finds under the invariant.
LEMMA CommittedIsSound ==
    ASSUME PromiseInv
    PROVE  /\ Promise!Promised(Committed)
           /\ DOMAIN Committed \cap purged = {}
  <1>1. Sound(Committed)
    BY DEF PromiseInv, Inv, Committed
  <1>2. DOMAIN Committed \subseteq DOMAIN memories
    BY DEF PromiseInv, Inv, Committed, Extends
  <1>3. QED
    BY <1>1, <1>2, SameWords DEF PromiseInv, NothingReturns

LEMMA WriteReturnsNothing ==
    ASSUME PromiseInv, Pending, NEW written, NEW result, NEW links, NEW records,
           Write(written, result, links, records),
           DOMAIN result \subseteq DOMAIN memories \cup Fresh
    PROVE  NothingReturns'
  <1>1. CASE \A t \in written : SchemaAccepts(t)
    BY <1>1 DEF Write, NothingReturns, PromiseInv, Fresh
  <1>2. CASE ~\A t \in written : SchemaAccepts(t)
    <2>1. memories' = saved.memories /\ purged' = purged
      BY <1>2 DEF Write, Rollback
    <2>2. DOMAIN saved.memories \subseteq DOMAIN memories
      BY DEF PromiseInv, Inv, Extends, Pending
    <2>3. QED
      BY <2>1, <2>2 DEF NothingReturns, PromiseInv
  <1>3. QED
    BY <1>1, <1>2

LEMMA CommitReturnsNothing == ASSUME PromiseInv, CommitStep PROVE NothingReturns'
  <1>1. ASSUME NEW id \in Fresh, Create(id) PROVE NothingReturns'
    BY <1>1, WriteReturnsNothing DEF Create, Insert
  <1>2. ASSUME NEW current \in DOMAIN memories, Reinforce(current) PROVE NothingReturns'
    BY <1>2, WriteReturnsNothing DEF Reinforce
  <1>3. ASSUME NEW id \in Fresh, NEW current \in DOMAIN memories, Backfill(id, current)
        PROVE  NothingReturns'
    BY <1>3, WriteReturnsNothing DEF Backfill, Insert
  <1>4. ASSUME NEW id \in Fresh, NEW current \in DOMAIN memories, Supersede(id, current)
        PROVE  NothingReturns'
    BY <1>4, WriteReturnsNothing DEF Supersede, Insert, Linked
  <1>5. ASSUME AbortCommit PROVE NothingReturns'
    <2>1. memories' = saved.memories /\ purged' = purged /\ ~Idle
      BY <1>5 DEF AbortCommit, Rollback
    <2>2. QED
      BY <2>1 DEF PromiseInv, Inv, Extends, NothingReturns
  <1>6. ASSUME \/ FinishCommit
               \/ \E u \in Upsert, claims \in Extraction : BeginCommit(u, claims)
        PROVE  NothingReturns'
    BY <1>6 DEF FinishCommit, BeginCommit, tables, NothingReturns, PromiseInv
  <1>7. QED
    BY <1>1, <1>2, <1>3, <1>4, <1>5, <1>6 DEF CommitStep

LEMMA MaintenanceReturnsNothing ==
    ASSUME PromiseInv, MaintenanceStep PROVE NothingReturns' /\ purged' = purged
  <1>1. ASSUME NEW r \in Replica,
               \/ DecayScan(r) \/ DecayStops(r) \/ CountGroups(r) \/ ConsolidationFails(r)
               \/ \E kind \in Kind, topic \in Topic, now \in Time :
                     FindConsolidationGroup(r, kind, topic, now)
        PROVE  NothingReturns' /\ purged' = purged
    BY <1>1 DEF DecayScan, DecayStops, CountGroups, ConsolidationFails, FindConsolidationGroup,
                tables, NothingReturns, PromiseInv
  <1>2. ASSUME NEW r \in Replica, NEW u \in sweep[r], DecayUpdate(r, u)
        PROVE  NothingReturns' /\ purged' = purged
    <2>1. purged' = purged /\ DOMAIN memories' = DOMAIN memories
      BY <1>2 DEF DecayUpdate
    <2>2. QED
      BY <2>1 DEF NothingReturns, PromiseInv
  <1>3. ASSUME NEW r \in Replica, NEW id \in Fresh, NEW statement \in Statement,
               NEW now \in Time, Consolidate(r, id, statement, now)
        PROVE  NothingReturns' /\ purged' = purged
    <2>1. purged' = purged /\ DOMAIN memories' = DOMAIN memories \cup {id}
      BY <1>3 DEF Consolidate, Replaced, Insert, Retired, Closed
    <2>2. QED
      BY <2>1 DEF NothingReturns, PromiseInv, Fresh
  <1>4. QED
    BY <1>1, <1>2, <1>3 DEF MaintenanceStep

\* A deletion with purge is the promise's own, one without only grows the table.
LEMMA PurgeIsPromised ==
    ASSUME PromiseInv, NEW d \in Deletion, InvalidateByDocument(d), PurgeDerived(d.document)
    PROVE  NothingReturns' /\ Promise!Purge
  <1> DEFINE gone == Gone(d.document)
  <1>1. /\ memories' = Without(memories, gone) /\ purged' = purged \cup gone
        /\ Committed = memories /\ Committed' = memories'
    BY DEF PurgeDerived, InvalidateByDocument, commitVars, Committed, Idle
  <1>2. /\ DOMAIN memories' = DOMAIN memories \ gone
        /\ \A i \in DOMAIN memories' : SameMemory(memories[i], memories'[i])
    BY <1>1 DEF Without, SameMemory, SameKey, TypeOK, Inv, PromiseInv, IsTable, Row
  <1>3. NothingReturns' /\ DOMAIN memories' = DOMAIN memories \ purged'
    BY <1>1, <1>2 DEF NothingReturns, PromiseInv
  <1>4. Inv'
    BY InvalidateInv DEF PromiseInv
  <1>5. Promise!Promised(Committed)'
    BY <1>1, <1>4, SameWords DEF Inv
  <1>6. QED
    BY <1>1, <1>2, <1>3, <1>5, SameWords DEF Promise!Purge

\* Any other step that keeps history and the purged ids grows the table, or leaves it.
LEMMA OtherIsPromised ==
    ASSUME PromiseInv, PromiseInv', HistoryStep, purged' = purged
    PROVE  Promise!Grow
  <1>1. /\ Promise!Promised(Committed) /\ DOMAIN Committed \cap purged = {}
        /\ Promise!Promised(Committed') /\ DOMAIN Committed' \cap purged' = {}
    <2>1. PromiseInv => Promise!Promised(Committed) /\ DOMAIN Committed \cap purged = {}
      BY CommittedIsSound
    <2>2. (PromiseInv => Promise!Promised(Committed) /\ DOMAIN Committed \cap purged = {})'
      BY CommittedIsSound, PTL
    <2>3. QED
      BY <2>1, <2>2 DEF Promise!Promised
  <1>2. Extends(Committed, Committed')
    BY <1>1 DEF HistoryStep, Extends
  <1>3. QED
    BY <1>1, <1>2, SameWords DEF Promise!Grow

LEMMA StepIsPromised ==
    ASSUME PromiseInv, [Next]_vars
    PROVE  PromiseInv' /\ [Promise!Next]_<<Committed, purged>>
  <1>1. Inv' /\ HistoryStep
    BY StepInv DEF PromiseInv
  <1>2. CASE NothingReturns' /\ purged' = purged
    BY <1>1, <1>2, OtherIsPromised DEF PromiseInv, Promise!Next
  <1>3. CASE UNCHANGED vars
    BY <1>2, <1>3 DEF vars, tables, NothingReturns, PromiseInv
  <1>4. CASE CommitStep
    <2>1. purged' = purged
      BY <1>4 DEF CommitStep, BeginCommit, Create, Reinforce, Backfill, Supersede, Write,
                  FinishCommit, AbortCommit, Rollback
    <2>2. QED
      BY <1>2, <1>4, <2>1, CommitReturnsNothing
  <1>5. CASE MaintenanceStep
    BY <1>2, <1>5, MaintenanceReturnsNothing
  <1>6. ASSUME NEW d \in Deletion, InvalidateByDocument(d)
        PROVE  PromiseInv' /\ [Promise!Next]_<<Committed, purged>>
    <2>1. CASE PurgeDerived(d.document)
      BY <1>1, <1>6, <2>1, PurgeIsPromised DEF PromiseInv, Promise!Next
    <2>2. CASE CloseDerived(d.document, d.occurred)
      BY <1>2, <2>2 DEF CloseDerived, Closed, NothingReturns, PromiseInv
    <2>3. QED
      BY <1>6, <2>1, <2>2 DEF InvalidateByDocument
  <1>7. QED
    BY <1>3, <1>4, <1>5, <1>6 DEF Next

\* The store keeps its promise to whoever reads it (KeepsPromise): its initial table is the
\* promise's, and each of its steps is a step of the promise or changes nothing a reader sees.
THEOREM StoreKeepsPromise == Spec => KeepsPromise
  <1>1. Init => PromiseInv /\ Promise!Init
    <2>1. ASSUME Init PROVE PromiseInv
      BY <2>1, InitInv DEF Init, PromiseInv, NothingReturns
    <2>2. ASSUME Init PROVE DOMAIN Committed = {} /\ purged = {}
      BY <2>2 DEF Init, Committed, Idle
    <2>3. QED
      BY <2>1, <2>2, CommittedIsSound DEF Promise!Init
  <1>2. QED
    BY <1>1, StepIsPromised, PTL DEF Spec, KeepsPromise, Promise!Spec
=============================================================================
