------------------------------ MODULE ViewProofs ------------------------------
(***************************************************************************)
(* What ties everything that is told about the memories to the memories    *)
(* themselves, for every value of the constants: the citations, the audit  *)
(* and the deletions (the other tables of MemoryStore), what a reader is   *)
(* answered (ReadPath), and the graph beside the tables (GraphStore).      *)
(***************************************************************************)
EXTENDS ReadPath, GraphStore, MemoryStoreProofs

(***************************************************************************)
(* The other tables: each memory can be cited, and each ending is audited. *)
(***************************************************************************)

Cited(table, links, saves) ==
    \A i \in DOMAIN table : \E e \in Episode : <<i, e>> \in links /\ saves[e] # None

\* provenance.episode_id REFERENCES memory_episodes.
Anchored(links, saves) == \A p \in links : saves[p[2]] # None

Audited(table, records) ==
    \A i \in DOMAIN table :
        /\ table[i].to # None => \E v \in records : v.memory = i /\ v.at = table[i].to
        /\ table[i].by # None => \E v \in records : v.memory = i /\ v.by = table[i].by

Tied(table, links, records, saves) ==
    /\ Cited(table, links, saves)
    /\ Anchored(links, saves)
    /\ Audited(table, records)

\* The strengthening: an episode is only saved by the Commit that is open or by one that
\* logged it, so that the open Commit's own episode is its document's, which is not deleted;
\* and a rollback brings back tables that were tied.
TieInv ==
    /\ Inv
    /\ Tied(memories, provenance, invalidations, episodes)
    /\ \A e \in Episode :
          episodes[e] # None => e \in ingested \/ (~Idle /\ e = writer.episode)
    /\ ~Idle =>
          /\ episodes[writer.episode] = writer.document /\ writer.document \notin deleted
          /\ Tied(saved.memories, saved.provenance, saved.invalidations, saved.episodes)
          /\ \A e \in Episode : saved.episodes[e] # None => e \in ingested
    /\ \A r \in Replica : group[r] # None => group[r].ids # {}

LEMMA InitTie == Init => TieInv
  <1> SUFFICES ASSUME Init PROVE TieInv
    OBVIOUS
  <1>1. Inv /\ Idle
    BY InitInv DEF Init, Idle
  <1>2. DOMAIN memories = {} /\ provenance = {} /\ \A e \in Episode : episodes[e] = None
    BY DEF Init
  <1>3. \A r \in Replica : group[r] = None
    BY DEF Init
  <1>4. QED
    BY <1>1, <1>2, <1>3 DEF TieInv, Tied, Cited, Anchored, Audited

LEMMA RollbackTie ==
    ASSUME TieInv, Inv', ~Idle, Rollback PROVE TieInv'
  <1>1. /\ memories' = saved.memories /\ provenance' = saved.provenance
        /\ invalidations' = saved.invalidations /\ episodes' = saved.episodes
        /\ Idle' /\ UNCHANGED <<ingested, group, deleted>>
    BY DEF Rollback, Idle, jobVars
  <1>2. Tied(memories, provenance, invalidations, episodes)'
    <2>1. Cited(memories, provenance, episodes)' /\ Anchored(provenance, episodes)'
      BY <1>1 DEF TieInv, Tied, Cited, Anchored
    <2>2. Audited(memories, invalidations)'
      BY <1>1 DEF TieInv, Tied, Audited
    <2>3. QED
      BY <2>1, <2>2 DEF Tied
  <1>3. QED
    BY <1>1, <1>2 DEF TieInv

\* The statements of a commitOne: whether the schema takes them or not.
LEMMA WriteTie ==
    ASSUME TieInv, Inv', Pending, NEW written, NEW result, NEW links, NEW records,
           Write(written, result, links, records),
           Tied(result, provenance \cup links, invalidations \cup records, episodes)
    PROVE  TieInv'
  <1>1. CASE \A table \in written : SchemaAccepts(table)
    <2>1. /\ memories' = result /\ provenance' = provenance \cup links
          /\ invalidations' = invalidations \cup records
          /\ UNCHANGED <<episodes, ingested, writer, saved, group, deleted>>
          /\ Idle' = Idle
      BY <1>1 DEF Write, jobVars, Idle
    <2>2. Tied(memories, provenance, invalidations, episodes)'
      <3>1. Cited(memories, provenance, episodes)' /\ Anchored(provenance, episodes)'
        BY <2>1 DEF Tied, Cited, Anchored
      <3>2. Audited(memories, invalidations)'
        BY <2>1 DEF Tied, Audited
      <3>3. QED
        BY <3>1, <3>2 DEF Tied
    <2>3. ~Idle => Tied(saved.memories, saved.provenance, saved.invalidations, saved.episodes)'
      BY <2>1 DEF TieInv, Tied, Cited, Anchored, Audited
    <2>4. QED
      BY <2>1, <2>2, <2>3 DEF TieInv
  <1>2. CASE ~\A table \in written : SchemaAccepts(table)
    BY <1>2, RollbackTie DEF Write, Pending
  <1>3. QED
    BY <1>1, <1>2

\* What a Commit's own episode is worth.
LEMMA OwnEpisode ==
    ASSUME TieInv, Pending
    PROVE  /\ writer.episode \in Episode
           /\ episodes[writer.episode] # None
           /\ episodes[writer.episode] \notin deleted
  BY PendingFacts, UpsertFacts, NoneIsNoInput DEF TieInv, Inv, TypeOK, Pending

\* A row is added, with its citation and, if it is closed, its record.
LEMMA InsertTied ==
    ASSUME TieInv, Pending, NEW id \in Fresh, NEW row, NEW records,
           row.to # None => \E v \in records : v.memory = id /\ v.at = row.to,
           row.by # None => \E v \in records : v.memory = id /\ v.by = row.by
    PROVE  Tied(Insert(memories, id, row), provenance \cup {<<id, writer.episode>>},
                invalidations \cup records, episodes)
  <1> DEFINE new == Insert(memories, id, row)
             links == provenance \cup {<<id, writer.episode>>}
  <1>1. /\ DOMAIN new = DOMAIN memories \cup {id} /\ new[id] = row
        /\ \A i \in DOMAIN memories : new[i] = memories[i]
    BY DEF Insert, Fresh
  <1> HIDE DEF new
  <1>2. Cited(new, links, episodes)
    BY <1>1, OwnEpisode DEF Cited, TieInv, Tied
  <1>3. Anchored(links, episodes)
    BY OwnEpisode DEF Anchored, TieInv, Tied
  <1>4. Audited(new, invalidations \cup records)
    BY <1>1 DEF Audited, TieInv, Tied
  <1>5. QED
    BY <1>2, <1>3, <1>4 DEF Tied, new

LEMMA CreateTie == ASSUME TieInv, Inv', NEW id \in Fresh, Create(id) PROVE TieInv'
  <1> DEFINE row == NewRow(Head(todo), writer.occurred, None, None)
  <1>1. /\ Pending
        /\ Write({Insert(memories, id, row)}, Insert(memories, id, row),
                 {<<id, writer.episode>>}, {})
    BY DEF Create
  <1>2. row.to = None /\ row.by = None
    BY DEF NewRow
  <1> HIDE DEF row
  <1>3. Tied(Insert(memories, id, row), provenance \cup {<<id, writer.episode>>},
             invalidations \cup {}, episodes)
    BY <1>1, <1>2, InsertTied
  <1>4. QED
    BY <1>1, <1>3, WriteTie

LEMMA BackfillTie ==
    ASSUME TieInv, Inv', NEW id \in Fresh, NEW current \in DOMAIN memories,
           Backfill(id, current)
    PROVE  TieInv'
  <1> DEFINE taken == memories[current].from
             row == NewRow(Head(todo), writer.occurred, taken, current)
             record == [memory |-> id, by |-> current, at |-> taken]
  <1>1. /\ Pending
        /\ Write({Insert(memories, id, row)}, Insert(memories, id, row),
                 {<<id, writer.episode>>}, {record})
    BY DEF Backfill, Historical, recordInvalidation
  <1>2. /\ row.to = taken /\ row.by = current
        /\ record.memory = id /\ record.by = current /\ record.at = taken
    BY DEF NewRow
  <1> HIDE DEF row, record
  <1>3. Tied(Insert(memories, id, row), provenance \cup {<<id, writer.episode>>},
             invalidations \cup {record}, episodes)
    BY <1>1, <1>2, InsertTied
  <1>4. QED
    BY <1>1, <1>3, WriteTie

LEMMA ReinforceTie ==
    ASSUME TieInv, Inv', NEW current \in DOMAIN memories, Reinforce(current) PROVE TieInv'
  <1> DEFINE row == Reinforced(memories[current], Head(todo), writer.occurred)
             again == [memories EXCEPT ![current] = row]
             links == provenance \cup {<<current, writer.episode>>}
  <1>1. Pending /\ Write({again}, again, {<<current, writer.episode>>}, {})
    BY DEF Reinforce
  <1>2. memories[current] \in Row
    BY DEF TieInv, Inv, TypeOK, IsTable
  <1>3. /\ row.to = memories[current].to /\ row.by = memories[current].by
        /\ row.kind = memories[current].kind
    BY <1>2 DEF Reinforced, Row
  <1>4. /\ DOMAIN again = DOMAIN memories
        /\ \A i \in DOMAIN memories : /\ again[i].to = memories[i].to
                                      /\ again[i].by = memories[i].by
                                      /\ again[i].kind = memories[i].kind
    BY <1>3
  <1> HIDE DEF again
  <1>5. Cited(again, links, episodes)
    BY <1>4 DEF Cited, TieInv, Tied
  <1>6. Anchored(links, episodes)
    BY <1>1, OwnEpisode DEF Anchored, TieInv, Tied
  <1>7. Audited(again, invalidations \cup {})
    BY <1>4 DEF Audited, TieInv, Tied
  <1>8. QED
    BY <1>1, <1>5, <1>6, <1>7, WriteTie DEF Tied

LEMMA SupersedeTie ==
    ASSUME TieInv, Inv', NEW id \in Fresh, NEW current \in DOMAIN memories,
           Supersede(id, current)
    PROVE  TieInv'
  <1> DEFINE at == writer.occurred
             row == NewRow(Head(todo), at, None, None)
             closed == [memories EXCEPT ![current].to = at]
             inserted == Insert(closed, id, row)
             linked == [inserted EXCEPT ![current].by = id]
             record == [memory |-> current, by |-> id, at |-> at]
             plain == Insert(memories, id, row)
             links == provenance \cup {<<id, writer.episode>>}
  <1>1. /\ Pending
        /\ Write({closed, inserted, linked}, linked, {<<id, writer.episode>>}, {record})
    BY DEF Supersede, Linked, recordInvalidation
  <1>2. row.to = None /\ row.by = None
    BY DEF NewRow
  <1>3. memories[current] \in Row /\ id \notin DOMAIN memories
    BY DEF TieInv, Inv, TypeOK, IsTable, Fresh
  <1>4. record.memory = current /\ record.by = id /\ record.at = at
    OBVIOUS
  <1> HIDE DEF row, record
  <1>5. Tied(plain, links, invalidations \cup {record}, episodes)
    BY <1>1, <1>2, InsertTied
  <1>6. /\ DOMAIN linked = DOMAIN plain
        /\ linked[current].to = at /\ linked[current].by = id
        /\ linked[current].kind = plain[current].kind
        /\ \A i \in DOMAIN plain \ {current} : linked[i] = plain[i]
    BY <1>3 DEF Insert, Row
  <1>7. at # None
    <2>1. at \in Time
      BY <1>1, PendingFacts DEF TieInv, Inv
    <2>2. QED
      BY <2>1, NoneIsNoId
  <1> HIDE DEF linked, plain
  <1>8. Cited(linked, links, episodes) /\ Anchored(links, episodes)
    BY <1>5, <1>6 DEF Cited, Anchored, Tied
  <1>9. Audited(linked, invalidations \cup {record})
    <2>1. SUFFICES ASSUME NEW i \in DOMAIN linked
                   PROVE  /\ linked[i].to # None =>
                               \E v \in invalidations \cup {record} :
                                  v.memory = i /\ v.at = linked[i].to
                          /\ linked[i].by # None =>
                               \E v \in invalidations \cup {record} :
                                  v.memory = i /\ v.by = linked[i].by
      BY DEF Audited
    <2>2. CASE i = current
      BY <1>4, <1>6, <2>2
    <2>3. CASE i # current
      BY <1>5, <1>6, <2>1, <2>3 DEF Tied, Audited
    <2>4. QED
      BY <2>2, <2>3
  <1>10. Tied(linked, links, invalidations \cup {record}, episodes)
    BY <1>8, <1>9 DEF Tied
  <1>11. QED
    BY <1>1, <1>10, WriteTie

LEMMA CommitTie == ASSUME TieInv, Inv', CommitStep PROVE TieInv'
  <1>1. ASSUME NEW u \in Upsert, NEW claims \in Extraction, BeginCommit(u, claims)
        PROVE  TieInv'
    <2>1. /\ Idle /\ u.episode \notin ingested /\ writer' = u /\ ~Idle'
          /\ saved' = [memories |-> memories, provenance |-> provenance,
                       invalidations |-> invalidations, episodes |-> episodes]
          /\ deleted' = deleted \ {u.document}
          /\ UNCHANGED <<memories, provenance, invalidations, ingested, group>>
      BY <1>1, UpsertFacts DEF BeginCommit, jobVars, Idle
    <2>2. /\ u.episode \in Episode /\ u.document # None /\ episodes[u.episode] = None
      BY <2>1, UpsertFacts, NoneIsNoInput DEF TieInv
    <2>3. /\ episodes'[u.episode] = u.document
          /\ \A e \in Episode \ {u.episode} : episodes'[e] = episodes[e]
      BY <1>1, <2>2 DEF BeginCommit, TieInv, Inv, TypeOK
    <2>4. provenance \subseteq MemoryId \X Episode
      BY DEF TieInv, Inv, TypeOK
    <2>5. Cited(memories, provenance, episodes)' /\ Anchored(provenance, episodes)'
      <3>1. \A e \in Episode : episodes[e] # None => episodes'[e] # None
        BY <2>2, <2>3
      <3>2. Cited(memories, provenance, episodes)'
        BY <2>1, <3>1 DEF TieInv, Tied, Cited
      <3>3. \A l \in provenance : l[2] \in Episode
        BY <2>4
      <3>4. Anchored(provenance, episodes)'
        BY <2>1, <3>1, <3>3 DEF TieInv, Tied, Anchored
      <3>5. QED
        BY <3>2, <3>4
    <2>6. Audited(memories, invalidations)'
      BY <2>1 DEF TieInv, Tied, Audited
    <2>7. /\ Cited(saved.memories, saved.provenance, saved.episodes)'
          /\ Anchored(saved.provenance, saved.episodes)'
      BY <2>1 DEF TieInv, Tied, Cited, Anchored
    <2>8. Audited(saved.memories, saved.invalidations)'
      BY <2>1 DEF TieInv, Tied, Audited
    <2>9. /\ Tied(memories, provenance, invalidations, episodes)'
           /\ Tied(saved.memories, saved.provenance, saved.invalidations, saved.episodes)'
      BY <2>5, <2>6, <2>7, <2>8 DEF Tied
    <2>10. \A e \in Episode :
             /\ episodes'[e] # None => e \in ingested' \/ e = writer'.episode
             /\ saved'.episodes[e] # None => e \in ingested'
      BY <2>1, <2>3 DEF TieInv
    <2>11. episodes'[writer'.episode] = writer'.document /\ writer'.document \notin deleted'
      BY <2>1, <2>3
    <2>12. \A r \in Replica : group'[r] # None => group'[r].ids # {}
      BY <2>1 DEF TieInv
    <2>13. QED
      BY <2>1, <2>9, <2>10, <2>11, <2>12 DEF TieInv
  <1>2. ASSUME FinishCommit PROVE TieInv'
    <2>1. /\ ~Idle /\ Idle' /\ ingested' = ingested \cup {writer.episode}
          /\ UNCHANGED <<memories, provenance, invalidations, episodes, group, deleted>>
      BY <1>2 DEF FinishCommit, tables, jobVars, Idle
    <2>2. Cited(memories, provenance, episodes)' /\ Anchored(provenance, episodes)'
      BY <2>1 DEF TieInv, Tied, Cited, Anchored
    <2>3. Audited(memories, invalidations)'
      BY <2>1 DEF TieInv, Tied, Audited
    <2>4. \A e \in Episode : episodes'[e] # None => e \in ingested'
      BY <2>1 DEF TieInv
    <2>5. QED
      BY <2>1, <2>2, <2>3, <2>4 DEF TieInv, Tied
  <1>3. ASSUME AbortCommit PROVE TieInv'
    BY <1>3, RollbackTie DEF AbortCommit
  <1>4. QED
    BY <1>1, <1>2, <1>3, CreateTie, ReinforceTie, BackfillTie, SupersedeTie DEF CommitStep

-----------------------------------------------------------------------------
(* Outside a Commit. *)

\* A step that leaves the writer, the log and the groups alone keeps the tie by keeping
\* the tables tied.
LEMMA QuietTie ==
    ASSUME TieInv, Inv', Idle, Idle',
           Tied(memories, provenance, invalidations, episodes)',
           \A e \in Episode : episodes'[e] # None => episodes[e] # None,
           UNCHANGED ingested,
           \A r \in Replica : group'[r] # None => group'[r].ids # {}
    PROVE  TieInv'
  BY DEF TieInv

LEMMA CloseTie ==
    ASSUME TieInv, Inv', NEW d \in Deletion, InvalidateByDocument(d),
           CloseDerived(d.document, d.occurred)
    PROVE  TieInv'
  <1> DEFINE derived == DerivedFrom(d.document)
             closing == Closing(d.document)
             closed == Closed(memories, closing, d.occurred)
             records == {[memory |-> i, by |-> None, at |-> d.occurred] : i \in derived}
  <1>1. /\ memories' = closed /\ invalidations' = invalidations \cup records
        /\ UNCHANGED <<provenance, episodes, ingested, group>> /\ Idle /\ Idle'
        /\ deleted' = deleted \cup {d.document}
    BY DEF CloseDerived, InvalidateByDocument, recordInvalidation, commitVars, jobVars, Idle
  <1>2. /\ closing \subseteq derived /\ derived \subseteq DOMAIN memories
        /\ DOMAIN closed = DOMAIN memories
        /\ \A i \in closing : memories[i].to = None
    BY DEF Closing, DerivedFrom, Closed
  <1>3. \A i \in DOMAIN memories :
          /\ closed[i].to = IF i \in closing THEN d.occurred ELSE memories[i].to
          /\ closed[i].by = memories[i].by /\ closed[i].kind = memories[i].kind
    BY DEF Closed, TieInv, Inv, TypeOK, IsTable, Row
  <1>4. d.occurred # None
    BY UpsertFacts, NoneIsNoId
  <1>5. \A i \in derived : \E v \in records : v.memory = i /\ v.at = d.occurred
    <2>1. SUFFICES ASSUME NEW i \in derived
                   PROVE  \E v \in records : v.memory = i /\ v.at = d.occurred
      OBVIOUS
    <2> DEFINE v == [memory |-> i, by |-> None, at |-> d.occurred]
    <2>2. v \in records
      OBVIOUS
    <2>3. v.memory = i /\ v.at = d.occurred
      OBVIOUS
    <2>4. QED
      BY <2>2, <2>3
  <1> HIDE DEF closed, closing, derived, records
  <1>6. Cited(memories, provenance, episodes)' /\ Anchored(provenance, episodes)'
    BY <1>1, <1>2 DEF TieInv, Tied, Cited, Anchored
  <1>7. Audited(memories, invalidations)'
    <2>1. SUFFICES ASSUME NEW i \in DOMAIN memories
                   PROVE  /\ closed[i].to # None =>
                               \E v \in invalidations \cup records :
                                  v.memory = i /\ v.at = closed[i].to
                          /\ closed[i].by # None =>
                               \E v \in invalidations \cup records :
                                  v.memory = i /\ v.by = closed[i].by
      BY <1>1, <1>2 DEF Audited
    <2>2. closed[i].by # None =>
             \E v \in invalidations \cup records : v.memory = i /\ v.by = closed[i].by
      BY <1>3 DEF TieInv, Tied, Audited
    <2>3. CASE i \in closing
      BY <1>2, <1>3, <1>5, <2>2, <2>3
    <2>4. CASE i \notin closing
      BY <1>3, <2>2, <2>4 DEF TieInv, Tied, Audited
    <2>5. QED
      BY <2>3, <2>4
  <1>8. Tied(memories, provenance, invalidations, episodes)'
    BY <1>6, <1>7 DEF Tied
  <1>9. QED
    BY <1>1, <1>8, QuietTie DEF TieInv

LEMMA PurgeTie ==
    ASSUME TieInv, Inv', NEW d \in Deletion, InvalidateByDocument(d), PurgeDerived(d.document)
    PROVE  TieInv'
  <1> DEFINE gone == DerivedFrom(d.document)
  <1>1. /\ memories' = Without(memories, gone)
        /\ provenance' = {p \in provenance : p[1] \notin gone /\ episodes'[p[2]] # None}
        /\ invalidations' = AuditAfterPurge(gone)
        /\ UNCHANGED <<ingested, group>> /\ Idle /\ Idle'
        /\ deleted' = deleted \cup {d.document}
    BY DEF PurgeDerived, InvalidateByDocument, Gone, commitVars, jobVars, Idle
  <1>2. \A e \in Episode :
          /\ episodes[e] # d.document => episodes'[e] = episodes[e]
          /\ episodes'[e] # None => episodes'[e] = episodes[e]
    BY DEF PurgeDerived, TieInv, Inv, TypeOK
  <1>3. /\ DOMAIN memories' = DOMAIN memories \ gone
        /\ \A i \in DOMAIN memories' :
             /\ memories'[i].to = memories[i].to /\ memories'[i].kind = memories[i].kind
             /\ memories'[i].by = Unlinked(memories[i].by, gone)
    BY <1>1 DEF Without, TieInv, Inv, TypeOK, IsTable, Row
  <1>4. \A i \in DOMAIN memories', e \in Episode :
          <<i, e>> \in provenance =>
             /\ episodes[e] # d.document /\ episodes[e] # None
             /\ <<i, e>> \in provenance' /\ episodes'[e] = episodes[e]
    <2>1. SUFFICES ASSUME NEW i \in DOMAIN memories', NEW e \in Episode, <<i, e>> \in provenance
                   PROVE  /\ episodes[e] # d.document /\ episodes[e] # None
                          /\ <<i, e>> \in provenance' /\ episodes'[e] = episodes[e]
      OBVIOUS
    <2>2. i \in DOMAIN memories /\ i \notin gone
      BY <1>3
    <2>3. episodes[e] # d.document
      BY <2>1, <2>2 DEF DerivedFrom
    <2>4. episodes[e] # None
      BY <2>1 DEF TieInv, Tied, Anchored
    <2>5. QED
      BY <1>1, <1>2, <2>1, <2>2, <2>3, <2>4
  <1> HIDE DEF gone
  <1>5. Cited(memories, provenance, episodes)'
    <2>1. SUFFICES ASSUME NEW i \in DOMAIN memories'
                   PROVE  \E e \in Episode : <<i, e>> \in provenance' /\ episodes'[e] # None
      BY DEF Cited
    <2>2. PICK e \in Episode : <<i, e>> \in provenance
      BY <1>3, <2>1 DEF TieInv, Tied, Cited
    <2>3. QED
      BY <1>4, <2>1, <2>2
  <1>6. Anchored(provenance, episodes)'
    BY <1>1 DEF Anchored
  <1>7. Audited(memories, invalidations)'
    <2>1. SUFFICES ASSUME NEW i \in DOMAIN memories'
                   PROVE  /\ memories'[i].to # None =>
                               \E v \in invalidations' : v.memory = i /\ v.at = memories'[i].to
                          /\ memories'[i].by # None =>
                               \E v \in invalidations' : v.memory = i /\ v.by = memories'[i].by
      BY DEF Audited
    <2>2. i \in DOMAIN memories /\ i \notin gone
      BY <1>3
    <2>3. ASSUME NEW v \in invalidations, v.memory = i
          PROVE  \E w \in invalidations' :
                    w.memory = i /\ w.at = v.at /\ w.by = Unlinked(v.by, gone)
      <3>1. v \in Invalidation
        BY DEF TieInv, Inv, TypeOK
      <3>2. [v EXCEPT !.by = Unlinked(@, gone)] \in invalidations'
        BY <1>1, <2>2, <2>3 DEF AuditAfterPurge
      <3>3. QED
        BY <2>3, <3>1, <3>2 DEF Invalidation
    <2>4. memories'[i].to # None =>
             \E v \in invalidations' : v.memory = i /\ v.at = memories'[i].to
      BY <1>3, <2>2, <2>3 DEF TieInv, Tied, Audited
    <2>5. memories'[i].by # None => memories[i].by # None
      BY <1>3 DEF Unlinked
    <2>6. memories'[i].by # None =>
             \E v \in invalidations' : v.memory = i /\ v.by = memories'[i].by
      BY <1>3, <2>2, <2>3, <2>5 DEF TieInv, Tied, Audited
    <2>7. QED
      BY <2>4, <2>6
  <1>8. Tied(memories, provenance, invalidations, episodes)'
    BY <1>5, <1>6, <1>7 DEF Tied
  <1>9. \A e \in Episode : episodes'[e] # None => episodes[e] # None
    BY <1>2
  <1>10. QED
    BY <1>1, <1>8, <1>9, QuietTie DEF TieInv

\* An UPDATE of the sweep writes `archived` of one row at most.
LEMMA DecayUpdateRows ==
    ASSUME IsTable(memories), NEW r \in Replica, NEW u \in sweep[r], DecayUpdate(r, u)
    PROVE  /\ DOMAIN memories' = DOMAIN memories
           /\ \A i \in DOMAIN memories :
                /\ memories'[i].to = memories[i].to /\ memories'[i].by = memories[i].by
                /\ memories'[i].kind = memories[i].kind
  <1>1. CASE memories' = memories
    BY <1>1
  <1>2. CASE u.id \in DOMAIN memories /\ memories' = [memories EXCEPT ![u.id].archived = u.archive]
    <2>1. memories[u.id] \in Row
      BY <1>2 DEF IsTable
    <2>2. /\ DOMAIN memories' = DOMAIN memories
          /\ \A i \in DOMAIN memories : i # u.id => memories'[i] = memories[i]
      BY <1>2 DEF IsTable
    <2>3. memories'[u.id] = [memories[u.id] EXCEPT !.archived = u.archive]
      BY <1>2 DEF IsTable
    <2>4. /\ memories'[u.id].to = memories[u.id].to /\ memories'[u.id].by = memories[u.id].by
          /\ memories'[u.id].kind = memories[u.id].kind
      BY <2>1, <2>3 DEF Row
    <2>5. QED
      BY <2>2, <2>4
  <1>3. QED
    BY <1>1, <1>2 DEF DecayUpdate

LEMMA DecayUpdateTie ==
    ASSUME TieInv, Inv', NEW r \in Replica, NEW u \in sweep[r], DecayUpdate(r, u)
    PROVE  TieInv'
  <1>1. /\ UNCHANGED <<provenance, invalidations, episodes, ingested, group, deleted>>
        /\ Idle /\ Idle'
    BY DEF DecayUpdate, commitVars, Idle
  <1>2. /\ DOMAIN memories' = DOMAIN memories
        /\ \A i \in DOMAIN memories :
             /\ memories'[i].to = memories[i].to /\ memories'[i].by = memories[i].by
             /\ memories'[i].kind = memories[i].kind
    BY DecayUpdateRows DEF TieInv, Inv, TypeOK
  <1>3. Cited(memories, provenance, episodes)' /\ Anchored(provenance, episodes)'
    BY <1>1, <1>2 DEF TieInv, Tied, Cited, Anchored
  <1>4. Audited(memories, invalidations)'
    BY <1>1, <1>2 DEF TieInv, Tied, Audited
  <1>5. Tied(memories, provenance, invalidations, episodes)'
    BY <1>3, <1>4 DEF Tied
  <1>6. QED
    BY <1>1, <1>5, QuietTie DEF TieInv

\* A group has members: a summary has something to inherit its citations from.
LEMMA GroupTie ==
    ASSUME TieInv, Inv', NEW r \in Replica, NEW kind \in Kind, NEW topic \in Topic,
           NEW now \in Time, FindConsolidationGroup(r, kind, topic, now)
    PROVE  TieInv'
  <1>1. /\ UNCHANGED <<memories, provenance, invalidations, episodes, ingested, deleted>>
        /\ Idle /\ Idle'
    BY DEF FindConsolidationGroup, tables, commitVars, Idle
  <1>2. ReadGroup(r, kind, topic, now) => AsOf(memories, kind, topic, now) # {}
    BY FS_EmptySet, MinGroupAssumption DEF ReadGroup, Enough
  <1>3. \A q \in Replica : group'[q] # None => group'[q].ids # {}
    <2>1. CASE ReadGroup(r, kind, topic, now)
      BY <1>2, <2>1 DEF ReadGroup, TieInv, Inv, TypeOK
    <2>2. CASE group' = group
      BY <2>2 DEF TieInv
    <2>3. QED
      BY <2>1, <2>2 DEF FindConsolidationGroup, SkipGroup
  <1>4. Cited(memories, provenance, episodes)' /\ Anchored(provenance, episodes)'
    BY <1>1 DEF TieInv, Tied, Cited, Anchored
  <1>5. Audited(memories, invalidations)'
    BY <1>1 DEF TieInv, Tied, Audited
  <1>6. Tied(memories, provenance, invalidations, episodes)'
    BY <1>4, <1>5 DEF Tied
  <1>7. QED
    BY <1>1, <1>3, <1>6, QuietTie

LEMMA ConsolidateTie ==
    ASSUME TieInv, Inv', NEW r \in Replica, NEW id \in Fresh, NEW statement \in Statement,
           NEW now \in Time, Consolidate(r, id, statement, now)
    PROVE  TieInv'
  <1> DEFINE g == group[r]
             row == SummaryRow(g, statement, now)
             closed == Retired(g.ids, now)
             linked == Replaced(Insert(closed, id, row), g.ids, id)
             inherited == Inherited(g.ids, id)
             records == {recordInvalidation(i, id, now) : i \in g.ids}
  <1>1. /\ memories' = linked /\ provenance' = provenance \cup inherited
        /\ invalidations' = invalidations \cup records
        /\ group' = [group EXCEPT ![r] = None]
        /\ UNCHANGED <<episodes, ingested, deleted>> /\ Idle /\ Idle'
        /\ g # None /\ g.ids \subseteq DOMAIN memories
    BY DEF Consolidate, commitVars, Idle
  <1>2. /\ g.kind = "event" /\ g.ids # {} /\ now # None
        /\ id \in MemoryId /\ id # None /\ id \notin DOMAIN memories
    BY <1>1, NoneIsNoId DEF TieInv, Inv, GroupsHoldEvents, Fresh
  <1>3. row.kind = "event" /\ row.to = None /\ row.by = None
    BY <1>2 DEF SummaryRow
  <1> HIDE DEF row
  <1>4. /\ DOMAIN linked = DOMAIN memories \cup {id}
        /\ linked[id] = row
    BY <1>1, <1>2 DEF Replaced, Insert, Retired, Closed
  <1>5. \A i \in DOMAIN memories :
          /\ linked[i].kind = memories[i].kind
          /\ linked[i].to = IF i \in g.ids /\ memories[i].to = None THEN now ELSE memories[i].to
          /\ linked[i].by = IF i \in g.ids THEN id ELSE memories[i].by
    BY <1>2 DEF Replaced, Insert, Retired, Closed, TieInv, Inv, TypeOK, IsTable, Row
  <1>6. \A i \in g.ids : \E v \in records : v.memory = i /\ v.by = id /\ v.at = now
    <2>1. SUFFICES ASSUME NEW i \in g.ids
                   PROVE  \E v \in records : v.memory = i /\ v.by = id /\ v.at = now
      OBVIOUS
    <2> DEFINE v == recordInvalidation(i, id, now)
    <2>2. v \in records
      OBVIOUS
    <2>3. v.memory = i /\ v.by = id /\ v.at = now
      BY DEF recordInvalidation
    <2>4. QED
      BY <2>2, <2>3
  <1>7. \A e \in Episode, i \in g.ids : <<i, e>> \in provenance => <<id, e>> \in inherited
    BY DEF Inherited
  <1>8. \A p \in inherited : \E i \in g.ids : <<i, p[2]>> \in provenance
    BY DEF Inherited
  <1> HIDE DEF linked, inherited, records
  <1>9. Cited(memories, provenance, episodes)'
    <2>1. SUFFICES ASSUME NEW i \in DOMAIN memories \cup {id}
                   PROVE  \E e \in Episode : <<i, e>> \in provenance' /\ episodes[e] # None
      BY <1>1, <1>4 DEF Cited
    <2>2. CASE i \in DOMAIN memories
      BY <1>1, <2>2 DEF TieInv, Tied, Cited
    <2>3. CASE i = id
      <3>1. PICK j \in g.ids : TRUE
        BY <1>2
      <3>2. PICK e \in Episode : <<j, e>> \in provenance /\ episodes[e] # None
        BY <1>1, <3>1 DEF TieInv, Tied, Cited
      <3>3. QED
        BY <1>1, <1>7, <2>3, <3>2
    <2>4. QED
      BY <2>2, <2>3
  <1>10. Anchored(provenance, episodes)'
    <2>1. SUFFICES ASSUME NEW p \in provenance \cup inherited PROVE episodes[p[2]] # None
      BY <1>1 DEF Anchored
    <2>2. CASE p \in provenance
      BY <2>2 DEF TieInv, Tied, Anchored
    <2>3. CASE p \in inherited
      <3>1. PICK i \in g.ids : <<i, p[2]>> \in provenance
        BY <1>8, <2>3
      <3>2. episodes[<<i, p[2]>>[2]] # None
        BY <3>1 DEF TieInv, Tied, Anchored
      <3>3. QED
        BY <3>2
    <2>4. QED
      BY <2>1, <2>2, <2>3
  <1>11. Audited(memories, invalidations)'
    <2>1. SUFFICES ASSUME NEW i \in DOMAIN memories \cup {id}
                   PROVE  /\ linked[i].to # None =>
                               \E v \in invalidations \cup records :
                                  v.memory = i /\ v.at = linked[i].to
                          /\ linked[i].by # None =>
                               \E v \in invalidations \cup records :
                                  v.memory = i /\ v.by = linked[i].by
      BY <1>1, <1>4 DEF Audited
    <2>2. CASE i = id
      BY <1>3, <1>4, <2>2
    <2>3. CASE i \in g.ids
      BY <1>1, <1>5, <1>6, <2>3 DEF TieInv, Tied, Audited
    <2>4. CASE i \in DOMAIN memories \ g.ids
      BY <1>5, <2>4 DEF TieInv, Tied, Audited
    <2>5. QED
      BY <2>2, <2>3, <2>4
  <1>12. Tied(memories, provenance, invalidations, episodes)'
    BY <1>9, <1>10, <1>11 DEF Tied
  <1>13. \A q \in Replica : group'[q] # None => group'[q].ids # {}
    BY <1>1 DEF TieInv, Inv, TypeOK
  <1>14. QED
    BY <1>1, <1>12, <1>13, QuietTie

LEMMA SameTie ==
    ASSUME TieInv, Inv', UNCHANGED <<tables, ingested, writer, saved, deleted>>,
           \A r \in Replica : group'[r] # None => group'[r] = group[r]
    PROVE  TieInv'
  <1>1. /\ UNCHANGED <<memories, provenance, invalidations, episodes, ingested, writer,
                       saved, deleted>>
        /\ Idle' = Idle
    BY DEF tables, Idle
  <1>2. Cited(memories, provenance, episodes)' /\ Anchored(provenance, episodes)'
    BY <1>1 DEF TieInv, Tied, Cited, Anchored
  <1>3. Audited(memories, invalidations)'
    BY <1>1 DEF TieInv, Tied, Audited
  <1>4. ~Idle => Tied(saved.memories, saved.provenance, saved.invalidations, saved.episodes)'
    BY <1>1 DEF TieInv, Tied, Cited, Anchored, Audited
  <1>5. QED
    BY <1>1, <1>2, <1>3, <1>4 DEF TieInv, Tied

LEMMA MaintenanceTie == ASSUME TieInv, Inv', MaintenanceStep PROVE TieInv'
  <1>1. ASSUME NEW r \in Replica,
               DecayScan(r) \/ DecayStops(r) \/ CountGroups(r) \/ ConsolidationFails(r)
        PROVE  TieInv'
    <2>1. UNCHANGED <<tables, ingested, writer, saved, deleted>>
      BY <1>1 DEF DecayScan, DecayStops, CountGroups, ConsolidationFails, commitVars
    <2>2. \A q \in Replica : group'[q] # None => group'[q] = group[q]
      BY <1>1 DEF DecayScan, DecayStops, CountGroups, ConsolidationFails, TieInv, Inv, TypeOK
    <2>3. QED
      BY <2>1, <2>2, SameTie
  <1>2. QED
    BY <1>1, DecayUpdateTie, GroupTie, ConsolidateTie DEF MaintenanceStep

LEMMA StepTie == ASSUME TieInv, Inv', [Next]_vars PROVE TieInv'
  <1>1. CASE UNCHANGED vars
    <2>1. UNCHANGED <<tables, ingested, writer, saved, deleted, group>>
      BY <1>1 DEF vars, commitVars, jobVars
    <2>2. QED
      BY <2>1, SameTie
  <1>2. CASE Next
    <2>1. ASSUME NEW d \in Deletion, InvalidateByDocument(d) PROVE TieInv'
      BY <2>1, CloseTie, PurgeTie DEF InvalidateByDocument
    <2>2. QED
      BY <1>2, <2>1, CommitTie, MaintenanceTie DEF Next
  <1>3. QED
    BY <1>1, <1>2

-----------------------------------------------------------------------------
(* Theorems. *)

LEMMA TieHolds == Spec => []TieInv
  <1>1. TieInv /\ Inv' /\ [Next]_vars => TieInv'
    BY StepTie
  <1>2. QED
    BY InitTie, InvHolds, <1>1, PTL DEF Spec

\* Whatever is purged, consolidated or rolled back, every memory keeps an episode that is
\* still there: commitOne, Consolidate and the cascades of the schema together.
THEOREM AllCited == Spec => []EveryMemoryCited
  <1>1. TieInv => EveryMemoryCited
    BY DEF TieInv, Tied, Cited, EveryMemoryCited
  <1>2. QED
    BY <1>1, TieHolds, PTL

\* Every end of a memory, and every link to a successor, has its record of the audit:
\* recordInvalidation is called wherever valid_to or superseded_by is written.
THEOREM AuditExplains == Spec => []AuditComplete
  <1>1. TieInv => AuditComplete
    BY DEF TieInv, Tied, Audited, AuditComplete
  <1>2. QED
    BY <1>1, TieHolds, PTL

-----------------------------------------------------------------------------
(***************************************************************************)
(* Deletions.  Inside a Commit no open memory comes to rest on a deleted   *)
(* document alone, since the Commit's own document is not deleted; outside *)
(* one, only the row a consolidation adds does.                            *)
(***************************************************************************)

OpenOrphans == Orphans(memories, provenance, episodes)

SavedOrphans == Orphans(saved.memories, saved.provenance, saved.episodes)

\* One step of DeletedIsWithdrawn.
WithdrawnStep ==
    \A i \in CommittedOrphans' :
        \/ i \in CommittedOrphans
        \/ /\ i \notin DOMAIN Committed
           /\ \E j \in DOMAIN Committed' :
                Committed'[j].by = i /\ Committed'[j].kind = "event"

OrphanInv == ~Idle => OpenOrphans \subseteq SavedOrphans

LEMMA InitOrphans == Init => OrphanInv
  BY DEF Init, OrphanInv, Idle

LEMMA QuietOrphans ==
    ASSUME Idle, Idle', \A i \in OpenOrphans' : i \in OpenOrphans
    PROVE  OrphanInv' /\ WithdrawnStep
  BY DEF OrphanInv, WithdrawnStep, CommittedOrphans, OpenOrphans

LEMMA SameOrphans ==
    ASSUME OrphanInv, UNCHANGED <<memories, provenance, episodes, writer, saved, deleted>>
    PROVE  OrphanInv' /\ WithdrawnStep
  <1>1. OpenOrphans' = OpenOrphans /\ SavedOrphans' = SavedOrphans /\ Idle' = Idle
    BY DEF OpenOrphans, SavedOrphans, Orphans, Idle
  <1>2. CommittedOrphans' = CommittedOrphans
    BY <1>1 DEF CommittedOrphans, OpenOrphans, SavedOrphans
  <1>3. QED
    BY <1>1, <1>2 DEF OrphanInv, WithdrawnStep

LEMMA RollbackOrphans ==
    ASSUME ~Idle, Rollback PROVE OrphanInv' /\ WithdrawnStep
  <1>1. /\ memories' = saved.memories /\ provenance' = saved.provenance
        /\ episodes' = saved.episodes /\ deleted' = deleted /\ Idle'
    BY DEF Rollback, Idle
  <1>2. OpenOrphans' = SavedOrphans
    BY <1>1 DEF OpenOrphans, SavedOrphans, Orphans
  <1>3. CommittedOrphans' = CommittedOrphans
    BY <1>1, <1>2 DEF CommittedOrphans, OpenOrphans, SavedOrphans
  <1>4. QED
    BY <1>1, <1>3 DEF OrphanInv, WithdrawnStep

\* A statement that reopens nothing, and whose own memory cites the Commit's own episode.
LEMMA WriteOrphans ==
    ASSUME TieInv, OrphanInv, Pending, NEW written, NEW result, NEW own, NEW records,
           Write(written, result, {<<own, writer.episode>>}, records),
           \A i \in DOMAIN result :
              i # own => i \in DOMAIN memories /\ (result[i].to = None => memories[i].to = None)
    PROVE  OrphanInv' /\ WithdrawnStep
  <1> DEFINE links == provenance \cup {<<own, writer.episode>>}
  <1>1. \A i \in Orphans(result, links, episodes) : i \in OpenOrphans
    <2>1. SUFFICES ASSUME NEW i \in DOMAIN result, result[i].to = None, NEW d \in deleted,
                          \A e \in Episode : <<i, e>> \in links => episodes[e] = d
                   PROVE  i \in OpenOrphans
      BY DEF Orphans
    <2>2. i # own
      BY <2>1, OwnEpisode
    <2>3. \A e \in Episode : <<i, e>> \in provenance => episodes[e] = d
      BY <2>1
    <2>4. QED
      BY <2>1, <2>2, <2>3 DEF OpenOrphans, Orphans
  <1>2. CASE \A table \in written : SchemaAccepts(table)
    <2>1. /\ memories' = result /\ provenance' = links
          /\ UNCHANGED <<episodes, writer, saved, deleted>> /\ Idle' = Idle /\ ~Idle
      BY <1>2 DEF Write, Pending, Idle
    <2>2. OpenOrphans' = Orphans(result, links, episodes)
      BY <2>1 DEF OpenOrphans, Orphans
    <2>3. SavedOrphans' = SavedOrphans
      BY <2>1 DEF SavedOrphans, Orphans
    <2>4. CommittedOrphans' = CommittedOrphans
      BY <2>1, <2>3 DEF CommittedOrphans, SavedOrphans
    <2>5. QED
      BY <1>1, <2>1, <2>2, <2>3, <2>4 DEF OrphanInv, WithdrawnStep
  <1>3. CASE ~\A table \in written : SchemaAccepts(table)
    BY <1>3, RollbackOrphans DEF Write, Pending
  <1>4. QED
    BY <1>2, <1>3

LEMMA CreateOrphans ==
    ASSUME TieInv, OrphanInv, NEW id \in Fresh, Create(id) PROVE OrphanInv' /\ WithdrawnStep
  <1> DEFINE created == Insert(memories, id, NewRow(Head(todo), writer.occurred, None, None))
  <1>1. Pending /\ Write({created}, created, {<<id, writer.episode>>}, {})
    BY DEF Create
  <1>2. \A i \in DOMAIN created :
           i # id => i \in DOMAIN memories /\ (created[i].to = None => memories[i].to = None)
    BY DEF Insert
  <1> HIDE DEF created
  <1>3. QED
    BY <1>1, <1>2, WriteOrphans

LEMMA BackfillOrphans ==
    ASSUME TieInv, OrphanInv, NEW id \in Fresh, NEW current \in DOMAIN memories,
           Backfill(id, current)
    PROVE  OrphanInv' /\ WithdrawnStep
  <1> DEFINE filed == Insert(memories, id, Historical(Head(todo), current))
             records == {recordInvalidation(id, current, memories[current].from)}
  <1>1. Pending /\ Write({filed}, filed, {<<id, writer.episode>>}, records)
    BY DEF Backfill
  <1>2. \A i \in DOMAIN filed :
           i # id => i \in DOMAIN memories /\ (filed[i].to = None => memories[i].to = None)
    BY DEF Insert
  <1> HIDE DEF filed, records
  <1>3. QED
    BY <1>1, <1>2, WriteOrphans

LEMMA ReinforceOrphans ==
    ASSUME TieInv, OrphanInv, NEW current \in DOMAIN memories, Reinforce(current)
    PROVE  OrphanInv' /\ WithdrawnStep
  <1> DEFINE again == [memories EXCEPT ![current] =
                         Reinforced(@, Head(todo), writer.occurred)]
  <1>1. Pending /\ Write({again}, again, {<<current, writer.episode>>}, {})
    BY DEF Reinforce
  <1>2. \A i \in DOMAIN again : i # current => i \in DOMAIN memories /\ again[i] = memories[i]
    BY DEF TieInv, Inv, TypeOK, IsTable
  <1> HIDE DEF again
  <1>3. QED
    BY <1>1, <1>2, WriteOrphans

LEMMA SupersedeOrphans ==
    ASSUME TieInv, OrphanInv, NEW id \in Fresh, NEW current \in DOMAIN memories,
           Supersede(id, current)
    PROVE  OrphanInv' /\ WithdrawnStep
  <1> DEFINE at == writer.occurred
             closed == [memories EXCEPT ![current].to = at]
             inserted == Insert(closed, id, NewRow(Head(todo), at, None, None))
             linked == [inserted EXCEPT ![current].by = id]
             records == {recordInvalidation(current, id, at)}
  <1>1. /\ Pending
        /\ Write({closed, inserted, linked}, linked, {<<id, writer.episode>>}, records)
    BY DEF Supersede, Linked
  <1>2. memories[current] \in Row /\ at # None
    <2>1. at \in Time
      BY <1>1, PendingFacts DEF TieInv, Inv
    <2>2. QED
      BY <2>1, NoneIsNoId DEF TieInv, Inv, TypeOK, IsTable
  <1>3. /\ DOMAIN linked = DOMAIN memories \cup {id}
        /\ current # id => linked[current].to = at
        /\ \A i \in DOMAIN memories \ {id, current} : linked[i] = memories[i]
    BY <1>2 DEF Insert, Row
  <1> HIDE DEF linked, closed, inserted, records, at
  <1>4. \A i \in DOMAIN linked :
           i # id => i \in DOMAIN memories /\ (linked[i].to = None => memories[i].to = None)
    BY <1>2, <1>3
  <1>5. QED
    BY <1>1, <1>4, WriteOrphans

LEMMA BeginOrphans ==
    ASSUME TieInv, NEW u \in Upsert, NEW claims \in Extraction, BeginCommit(u, claims)
    PROVE  OrphanInv' /\ WithdrawnStep
  <1>1. /\ Idle /\ u.episode \notin ingested /\ ~Idle'
        /\ saved'.memories = memories /\ saved'.provenance = provenance
        /\ saved'.episodes = episodes
        /\ deleted' \subseteq deleted /\ UNCHANGED <<memories, provenance>>
    BY UpsertFacts DEF BeginCommit, Idle
  <1>2. u.episode \in Episode /\ episodes[u.episode] = None
    BY <1>1, UpsertFacts DEF TieInv
  <1>3. \A i \in DOMAIN memories, e \in Episode :
           <<i, e>> \in provenance => episodes'[e] = episodes[e]
    <2>1. SUFFICES ASSUME NEW i \in DOMAIN memories, NEW e \in Episode, <<i, e>> \in provenance
                   PROVE  episodes'[e] = episodes[e]
      OBVIOUS
    <2>2. episodes[<<i, e>>[2]] # None
      BY <2>1 DEF TieInv, Tied, Anchored
    <2>3. e # u.episode
      BY <1>2, <2>2
    <2>4. QED
      BY <2>3 DEF BeginCommit, TieInv, Inv, TypeOK
  <1>4. \A i : i \in SavedOrphans' <=>
                  /\ i \in DOMAIN memories /\ memories[i].to = None
                  /\ \E d \in deleted' : \A e \in Episode :
                        <<i, e>> \in provenance => episodes[e] = d
    BY <1>1 DEF SavedOrphans, Orphans
  <1>5. \A i : i \in OpenOrphans' <=>
                  /\ i \in DOMAIN memories /\ memories[i].to = None
                  /\ \E d \in deleted' : \A e \in Episode :
                        <<i, e>> \in provenance => episodes'[e] = d
    BY <1>1 DEF OpenOrphans, Orphans
  <1>6. \A i \in SavedOrphans' : i \in OpenOrphans
    BY <1>1, <1>4 DEF OpenOrphans, Orphans
  <1>7. \A i \in OpenOrphans' : i \in SavedOrphans'
    <2>1. SUFFICES ASSUME NEW i \in DOMAIN memories, memories[i].to = None, NEW d \in deleted',
                          \A e \in Episode : <<i, e>> \in provenance => episodes'[e] = d
                   PROVE  \A e \in Episode : <<i, e>> \in provenance => episodes[e] = d
      BY <1>4, <1>5
    <2>2. QED
      BY <1>3, <2>1
  <1>8. CommittedOrphans' = SavedOrphans' /\ CommittedOrphans = OpenOrphans
    BY <1>1 DEF CommittedOrphans, OpenOrphans, SavedOrphans
  <1>9. QED
    BY <1>6, <1>7, <1>8 DEF OrphanInv, WithdrawnStep

LEMMA CommitOrphans ==
    ASSUME TieInv, OrphanInv, CommitStep PROVE OrphanInv' /\ WithdrawnStep
  <1>1. ASSUME FinishCommit PROVE OrphanInv' /\ WithdrawnStep
    <2>1. UNCHANGED <<memories, provenance, episodes, deleted>> /\ ~Idle /\ Idle'
      BY <1>1 DEF FinishCommit, tables, Idle
    <2>2. OpenOrphans' = OpenOrphans
      BY <2>1 DEF OpenOrphans, Orphans
    <2>3. CommittedOrphans' = OpenOrphans /\ CommittedOrphans = SavedOrphans
      BY <2>1, <2>2 DEF CommittedOrphans, OpenOrphans, SavedOrphans
    <2>4. QED
      BY <2>1, <2>3 DEF OrphanInv, WithdrawnStep
  <1>2. ASSUME AbortCommit PROVE OrphanInv' /\ WithdrawnStep
    BY <1>2, RollbackOrphans DEF AbortCommit
  <1>3. QED
    BY <1>1, <1>2, BeginOrphans, CreateOrphans, BackfillOrphans, ReinforceOrphans,
       SupersedeOrphans
    DEF CommitStep

\* A deletion without purge closes what rests on the document alone.
LEMMA CloseOrphans ==
    ASSUME TieInv, NEW d \in Deletion, InvalidateByDocument(d),
           CloseDerived(d.document, d.occurred)
    PROVE  OrphanInv' /\ WithdrawnStep
  <1> DEFINE closing == Closing(d.document)
             closed == Closed(memories, closing, d.occurred)
  <1>1. /\ memories' = closed /\ UNCHANGED <<provenance, episodes>> /\ Idle /\ Idle'
        /\ deleted' = deleted \cup {d.document}
    BY DEF CloseDerived, InvalidateByDocument, commitVars, Idle
  <1>2. /\ DOMAIN closed = DOMAIN memories
        /\ \A i \in DOMAIN memories :
              closed[i].to = IF i \in closing THEN d.occurred ELSE memories[i].to
    BY DEF Closed, TieInv, Inv, TypeOK, IsTable, Row
  <1>3. d.occurred # None
    BY UpsertFacts, NoneIsNoId
  <1>4. \A i \in DOMAIN memories \ closing :
           memories[i].to = None =>
              \E e \in Episode : <<i, e>> \in provenance /\ episodes[e] # d.document
    BY DEF Closing, DerivedFrom, TieInv, Tied, Cited
  <1> HIDE DEF closed, closing
  <1>5. \A i \in OpenOrphans' : i \in OpenOrphans
    <2>1. SUFFICES ASSUME NEW i \in DOMAIN memories, closed[i].to = None,
                          NEW c \in deleted \cup {d.document},
                          \A e \in Episode : <<i, e>> \in provenance => episodes[e] = c
                   PROVE  i \in OpenOrphans
      BY <1>1, <1>2 DEF OpenOrphans, Orphans
    <2>2. i \notin closing /\ memories[i].to = None
      BY <1>2, <1>3, <2>1
    <2>3. c \in deleted
      BY <1>4, <2>1, <2>2
    <2>4. QED
      BY <2>1, <2>2, <2>3 DEF OpenOrphans, Orphans
  <1>6. QED
    BY <1>1, <1>5, QuietOrphans

\* A purge removes everything that cites the document, and nothing else a memory cites.
LEMMA PurgeOrphans ==
    ASSUME TieInv, NEW d \in Deletion, InvalidateByDocument(d), PurgeDerived(d.document)
    PROVE  OrphanInv' /\ WithdrawnStep
  <1> DEFINE gone == DerivedFrom(d.document)
  <1>1. /\ memories' = Without(memories, gone) /\ Idle /\ Idle'
        /\ provenance' = {p \in provenance : p[1] \notin gone /\ episodes'[p[2]] # None}
        /\ deleted' = deleted \cup {d.document}
    BY DEF PurgeDerived, InvalidateByDocument, Gone, commitVars, Idle
  <1>2. \A e \in Episode : episodes[e] # d.document => episodes'[e] = episodes[e]
    BY DEF PurgeDerived, TieInv, Inv, TypeOK
  <1>3. /\ DOMAIN memories' = DOMAIN memories \ gone
        /\ \A i \in DOMAIN memories' : memories'[i].to = memories[i].to
    BY <1>1 DEF Without, TieInv, Inv, TypeOK, IsTable, Row
  <1>4. \A i \in DOMAIN memories', e \in Episode :
          <<i, e>> \in provenance =>
             /\ episodes[e] # d.document
             /\ <<i, e>> \in provenance' /\ episodes'[e] = episodes[e]
    <2>1. SUFFICES ASSUME NEW i \in DOMAIN memories', NEW e \in Episode, <<i, e>> \in provenance
                   PROVE  /\ episodes[e] # d.document
                          /\ <<i, e>> \in provenance' /\ episodes'[e] = episodes[e]
      OBVIOUS
    <2>2. i \in DOMAIN memories /\ i \notin gone
      BY <1>3
    <2>3. episodes[e] # d.document
      BY <2>1, <2>2 DEF DerivedFrom
    <2>4. episodes[<<i, e>>[2]] # None
      BY <2>1 DEF TieInv, Tied, Anchored
    <2>5. QED
      BY <1>1, <1>2, <2>1, <2>2, <2>3, <2>4
  <1> HIDE DEF gone
  <1>5. \A i \in OpenOrphans' : i \in OpenOrphans
    <2>1. SUFFICES ASSUME NEW i \in DOMAIN memories', memories'[i].to = None,
                          NEW c \in deleted \cup {d.document},
                          \A e \in Episode : <<i, e>> \in provenance' => episodes'[e] = c
                   PROVE  i \in OpenOrphans
      BY <1>1 DEF OpenOrphans, Orphans
    <2>2. i \in DOMAIN memories /\ memories[i].to = None
      BY <1>3, <2>1
    <2>3. \A e \in Episode : <<i, e>> \in provenance => episodes[e] = c
      BY <1>4, <2>1
    <2>4. \E e \in Episode : <<i, e>> \in provenance /\ episodes[e] # d.document
      BY <1>4, <2>1, <2>2 DEF TieInv, Tied, Cited
    <2>5. c \in deleted
      BY <2>1, <2>3, <2>4
    <2>6. QED
      BY <2>2, <2>3, <2>5 DEF OpenOrphans, Orphans
  <1>6. QED
    BY <1>1, <1>5, QuietOrphans

LEMMA DecayOrphans ==
    ASSUME TieInv, NEW r \in Replica, NEW u \in sweep[r], DecayUpdate(r, u)
    PROVE  OrphanInv' /\ WithdrawnStep
  <1>1. UNCHANGED <<provenance, episodes, deleted>> /\ Idle /\ Idle'
    BY DEF DecayUpdate, commitVars, Idle
  <1>2. /\ DOMAIN memories' = DOMAIN memories
        /\ \A i \in DOMAIN memories : memories'[i].to = memories[i].to
    BY DecayUpdateRows DEF TieInv, Inv, TypeOK
  <1>3. \A i \in OpenOrphans' : i \in OpenOrphans
    BY <1>1, <1>2 DEF OpenOrphans, Orphans
  <1>4. QED
    BY <1>1, <1>3, QuietOrphans

\* Nothing but the summary cites more than before, and the summary is new.
LEMMA ConsolidateOrphans ==
    ASSUME TieInv, NEW r \in Replica, NEW id \in Fresh, NEW statement \in Statement,
           NEW now \in Time, Consolidate(r, id, statement, now)
    PROVE  OrphanInv' /\ WithdrawnStep
  <1> DEFINE g == group[r]
             linked == Replaced(Insert(Retired(g.ids, now), id, SummaryRow(g, statement, now)),
                                g.ids, id)
  <1>1. /\ memories' = linked /\ provenance \subseteq provenance'
        /\ UNCHANGED <<episodes, deleted>> /\ Idle /\ Idle'
        /\ g # None /\ g.ids \subseteq DOMAIN memories
    BY DEF Consolidate, commitVars, Idle
  <1>2. /\ g.ids # {} /\ now # None /\ id \notin DOMAIN memories
        /\ \A i \in g.ids : memories[i].kind = "event"
    BY <1>1, NoneIsNoId DEF TieInv, Inv, GroupsHoldEvents, Fresh
  <1>3. /\ DOMAIN linked = DOMAIN memories \cup {id}
        /\ \A i \in DOMAIN memories :
             /\ linked[i].kind = memories[i].kind
             /\ linked[i].to = None => memories[i].to = None
             /\ i \in g.ids => linked[i].by = id
    BY <1>1, <1>2 DEF Replaced, Insert, Retired, Closed, TieInv, Inv, TypeOK, IsTable, Row
  <1> HIDE DEF linked
  <1>4. \E j \in DOMAIN linked : linked[j].by = id /\ linked[j].kind = "event"
    BY <1>1, <1>2, <1>3
  <1>5. \A i \in OpenOrphans' : i = id \/ i \in OpenOrphans
    <2>1. SUFFICES ASSUME NEW i \in DOMAIN linked, linked[i].to = None, i # id,
                          NEW d \in deleted,
                          \A e \in Episode : <<i, e>> \in provenance' => episodes[e] = d
                   PROVE  i \in OpenOrphans
      BY <1>1 DEF OpenOrphans, Orphans
    <2>2. i \in DOMAIN memories /\ memories[i].to = None
      BY <1>3, <2>1
    <2>3. \A e \in Episode : <<i, e>> \in provenance => episodes[e] = d
      BY <1>1, <2>1
    <2>4. QED
      BY <2>2, <2>3 DEF OpenOrphans, Orphans
  <1>6. /\ CommittedOrphans' = OpenOrphans' /\ CommittedOrphans = OpenOrphans
        /\ Committed = memories /\ Committed' = linked
    BY <1>1 DEF CommittedOrphans, OpenOrphans, Committed
  <1>7. QED
    BY <1>1, <1>2, <1>4, <1>5, <1>6 DEF OrphanInv, WithdrawnStep

LEMMA StepOrphans ==
    ASSUME TieInv, OrphanInv, [Next]_vars PROVE OrphanInv' /\ WithdrawnStep
  <1>1. CASE UNCHANGED vars
    BY <1>1, SameOrphans DEF vars, tables, commitVars
  <1>2. ASSUME NEW d \in Deletion, InvalidateByDocument(d) PROVE OrphanInv' /\ WithdrawnStep
    BY <1>2, CloseOrphans, PurgeOrphans DEF InvalidateByDocument
  <1>3. ASSUME NEW r \in Replica,
               \/ DecayScan(r) \/ DecayStops(r) \/ CountGroups(r) \/ ConsolidationFails(r)
               \/ \E kind \in Kind, topic \in Topic, now \in Time :
                     FindConsolidationGroup(r, kind, topic, now)
        PROVE  OrphanInv' /\ WithdrawnStep
    <2>1. UNCHANGED <<memories, provenance, episodes, writer, saved, deleted>>
      BY <1>3 DEF DecayScan, DecayStops, CountGroups, ConsolidationFails,
                  FindConsolidationGroup, tables, commitVars
    <2>2. QED
      BY <2>1, SameOrphans
  <1>4. CASE MaintenanceStep
    BY <1>3, <1>4, DecayOrphans, ConsolidateOrphans DEF MaintenanceStep
  <1>5. QED
    BY <1>1, <1>2, <1>4, CommitOrphans DEF Next

\* After a document's deletion no memory of any kind comes to rest on it alone and stay open,
\* whatever is committed, rolled back, swept or purged, but the summary of a group that was read
\* before the deletion, in the very step Consolidate inserts it.
THEOREM DeletedStaysWithdrawn == Spec => DeletedIsWithdrawn
  <1>1. TieInv /\ OrphanInv /\ [Next]_vars => OrphanInv' /\ WithdrawnStep
    BY StepOrphans
  <1>2. Spec => [][WithdrawnStep]_vars
    BY <1>1, InitOrphans, TieHolds, PTL DEF Spec
  <1>3. QED
    BY <1>2 DEF DeletedIsWithdrawn, WithdrawnStep

-----------------------------------------------------------------------------
(***************************************************************************)
(* Readers: never the wrong one of a memory and its successor, and a       *)
(* decisions timeline that hides no decision.                              *)
(***************************************************************************)

\* What one topic key answers about a memory and its successor.
LEMMA OneOfTwo ==
    ASSUME Inv, NEW i \in DOMAIN memories, NEW j \in DOMAIN memories, NEW t \in Time,
           memories[i].by = j, Supersedes(memories[i].kind),
           memories[i].from <= t,
           memories[j].to = None \/ t < memories[j].to
    PROVE  LET held == IF t < memories[j].from THEN i ELSE j
           IN  Search({memories[i].kind}, {memories[i].topic}, t) \cap {i, j}
                 = {k \in {held} : ~memories[k].archived}
  <1>1. /\ memories[i] \in Row /\ memories[j] \in Row
        /\ i \in MemoryId /\ j \in MemoryId /\ j # None
    BY NoneIsNoId DEF Inv, TypeOK, IsTable
  <1>2. /\ memories[i].to # None /\ memories[i].to = memories[j].from
        /\ SameKey(memories[i], memories[j])
    BY <1>1 DEF Inv, Sound, SchemaAccepts, memories_supersede_ck, Gapless, SameKey
  <1>3. /\ memories[i].from \in Nat /\ memories[j].from \in Nat /\ t \in Nat
        /\ memories[j].to # None => memories[j].to \in Nat
    BY <1>1, TimeAssumption DEF Row
  <1>4. i # j
    <2>1. \E k \in {i} : memories[k].by \notin {i}
      BY DEF Inv, Sound, Wellfounded
    <2>2. QED
      BY <2>1
  <1>5. CASE t < memories[j].from
    <2>1. HoldsAt(i, t) /\ ~HoldsAt(j, t)
      BY <1>2, <1>3, <1>5 DEF HoldsAt
    <2>2. QED
      BY <1>4, <1>5, <2>1 DEF Search
  <1>6. CASE ~(t < memories[j].from)
    <2>1. ~HoldsAt(i, t) /\ HoldsAt(j, t)
      BY <1>2, <1>3, <1>6 DEF HoldsAt
    <2>2. QED
      BY <1>2, <1>4, <1>6, <2>1 DEF Search, SameKey
  <1>7. QED
    BY <1>5, <1>6

\* Search never answers an instant with the one of a memory and its successor that did not hold
\* then, and answers it with the one that did unless that one is archived: valid_from <= asOf
\* AND valid_to > asOf leaves neither gap nor overlap, archived = FALSE leaves a gap.
THEOREM AnswersAreSeamless == Spec => []SeamlessAnswers
  <1>1. Inv => SeamlessAnswers
    BY OneOfTwo DEF SeamlessAnswers
  <1>2. QED
    BY <1>1, InvHolds, PTL

-----------------------------------------------------------------------------
(* The timeline. *)

\* What archived means for a row, and what an event may be linked to: only another event.
Shown(table) ==
    /\ \A i \in DOMAIN table : table[i].archived => Archivable(table[i].kind)
    /\ \A i \in DOMAIN table :
          table[i].kind = "event" /\ table[i].by # None => table[table[i].by].kind = "event"

\* A sweep writes what it decided long ago: the row it decided on is the one of that id, or
\* it is gone and its id is not given again.
ShownInv ==
    /\ PromiseInv
    /\ Shown(memories)
    /\ ~Idle => Shown(saved.memories)
    /\ \A r \in Replica : \A u \in sweep[r] :
          u.archive => \/ u.id \in DOMAIN Committed /\ Archivable(Committed[u.id].kind)
                       \/ u.id \in purged

LEMMA InitShown == Init => ShownInv
  <1> SUFFICES ASSUME Init PROVE ShownInv
    OBVIOUS
  <1>1. PromiseInv
    BY InitInv DEF Init, PromiseInv, NothingReturns
  <1>2. DOMAIN memories = {} /\ Idle /\ \A r \in Replica : sweep[r] = {}
    BY DEF Init, Idle
  <1>3. QED
    BY <1>1, <1>2 DEF ShownInv, Shown

\* What a sweep decided stays right, as long as history is kept and nothing returns.
LEMMA DecisionsStand ==
    ASSUME ShownInv, HistoryStep, purged \subseteq purged', NEW u, u.archive,
           \/ u.id \in DOMAIN Committed /\ Archivable(Committed[u.id].kind)
           \/ u.id \in purged
    PROVE  \/ u.id \in DOMAIN Committed' /\ Archivable(Committed'[u.id].kind)
           \/ u.id \in purged'
  BY DEF HistoryStep, SameMemory, SameKey

LEMMA RollbackShown == ASSUME ShownInv, ~Idle, Rollback PROVE Shown(memories)' /\ Idle'
  BY DEF Rollback, ShownInv, Shown, Idle

LEMMA WriteShown ==
    ASSUME ShownInv, Pending, NEW written, NEW result, NEW links, NEW records,
           Write(written, result, links, records), Shown(result)
    PROVE  Shown(memories)' /\ (~Idle' => Shown(saved.memories)')
  <1>1. CASE \A table \in written : SchemaAccepts(table)
    <2>1. memories' = result /\ saved' = saved /\ ~Idle
      BY <1>1 DEF Write, Pending
    <2>2. Shown(saved.memories)'
      BY <2>1 DEF ShownInv, Shown
    <2>3. QED
      BY <2>1, <2>2 DEF Shown
  <1>2. CASE ~\A table \in written : SchemaAccepts(table)
    BY <1>2, RollbackShown DEF Write, Pending
  <1>3. QED
    BY <1>1, <1>2

\* A row is added that is not archived, and an event only if it is linked to nothing.
LEMMA InsertShown ==
    ASSUME ShownInv, NEW id \in Fresh, NEW row, ~row.archived,
           row.kind = "event" => row.by = None
    PROVE  Shown(Insert(memories, id, row))
  <1> DEFINE new == Insert(memories, id, row)
  <1>1. /\ DOMAIN new = DOMAIN memories \cup {id} /\ new[id] = row
        /\ \A i \in DOMAIN memories : new[i] = memories[i]
    BY DEF Insert, Fresh
  <1>2. \A i \in DOMAIN memories : memories[i].by # None => memories[i].by \in DOMAIN memories
    BY DEF ShownInv, PromiseInv, Inv, Sound, SchemaAccepts, superseded_by_fk
  <1> HIDE DEF new
  <1>3. \A i \in DOMAIN new : new[i].archived => Archivable(new[i].kind)
    BY <1>1 DEF ShownInv, Shown
  <1>4. \A i \in DOMAIN new :
          new[i].kind = "event" /\ new[i].by # None => new[new[i].by].kind = "event"
    BY <1>1, <1>2 DEF ShownInv, Shown
  <1>5. QED
    BY <1>3, <1>4 DEF Shown, new

\* The rows keep their kinds, the events their links, and none is archived anew.
LEMMA SameShown ==
    ASSUME NEW old, NEW new, Shown(old), superseded_by_fk(old), DOMAIN new = DOMAIN old,
           \A i \in DOMAIN old :
              /\ new[i].kind = old[i].kind
              /\ new[i].archived => old[i].archived
              /\ old[i].kind = "event" => new[i].by = old[i].by
    PROVE  Shown(new)
  BY DEF Shown, superseded_by_fk

LEMMA CommitShown ==
    ASSUME ShownInv, CommitStep PROVE Shown(memories)' /\ (~Idle' => Shown(saved.memories)')
  <1>1. /\ IsTable(memories) /\ superseded_by_fk(memories)
    BY DEF ShownInv, PromiseInv, Inv, TypeOK, Sound, SchemaAccepts
  <1>2. ASSUME NEW u \in Upsert, NEW claims \in Extraction, BeginCommit(u, claims)
        PROVE  Shown(memories)' /\ Shown(saved.memories)'
    BY <1>2 DEF BeginCommit, ShownInv, Shown
  <1>3. ASSUME NEW id \in Fresh, Create(id)
        PROVE  Shown(memories)' /\ (~Idle' => Shown(saved.memories)')
    <2> DEFINE row == NewRow(Head(todo), writer.occurred, None, None)
    <2>1. ~row.archived /\ row.by = None
      BY DEF NewRow
    <2> HIDE DEF row
    <2>2. Shown(Insert(memories, id, row))
      BY <2>1, InsertShown
    <2>3. QED
      BY <1>3, <2>2, WriteShown DEF Create, row
  <1>4. ASSUME NEW current \in DOMAIN memories, Reinforce(current)
        PROVE  Shown(memories)' /\ (~Idle' => Shown(saved.memories)')
    <2> DEFINE again == [memories EXCEPT ![current] = Reinforced(@, Head(todo), writer.occurred)]
    <2>1. \A i \in DOMAIN memories :
            /\ again[i].kind = memories[i].kind /\ again[i].by = memories[i].by
            /\ again[i].archived => memories[i].archived
      BY <1>1 DEF Reinforced, IsTable, Row
    <2>2. Shown(again)
      BY <1>1, <2>1, SameShown DEF ShownInv
    <2> HIDE DEF again
    <2>3. QED
      BY <1>4, <2>2, WriteShown DEF Reinforce, again
  <1>5. ASSUME NEW id \in Fresh, NEW current \in DOMAIN memories, Backfill(id, current)
        PROVE  Shown(memories)' /\ (~Idle' => Shown(saved.memories)')
    <2> DEFINE row == Historical(Head(todo), current)
    <2>1. ~row.archived /\ row.kind # "event"
      BY <1>5 DEF Historical, NewRow, Backfill, Supersedes
    <2> HIDE DEF row
    <2>2. Shown(Insert(memories, id, row))
      BY <2>1, InsertShown
    <2>3. QED
      BY <1>5, <2>2, WriteShown DEF Backfill, row
  <1>6. ASSUME NEW id \in Fresh, NEW current \in DOMAIN memories, Supersede(id, current)
        PROVE  Shown(memories)' /\ (~Idle' => Shown(saved.memories)')
    <2> DEFINE row == NewRow(Head(todo), writer.occurred, None, None)
               plain == Insert(memories, id, row)
               closed == [memories EXCEPT ![current].to = writer.occurred]
               linked == Linked(Insert(closed, id, row), current, id)
    <2>1. ~row.archived /\ row.by = None
      BY DEF NewRow
    <2>2. /\ memories[current].kind # "event" /\ Pending
          /\ current # id /\ memories[current] \in Row
      BY <1>1, <1>6 DEF Supersede, Supersedes, CurrentFor, SameKey, Fresh, IsTable
    <2> HIDE DEF row
    <2>3. Shown(plain)
      BY <2>1, InsertShown
    <2>4. superseded_by_fk(plain)
      BY <1>1, <2>1 DEF superseded_by_fk, Insert
    <2>5. /\ DOMAIN linked = DOMAIN plain
          /\ \A i \in DOMAIN plain :
               /\ linked[i].kind = plain[i].kind
               /\ linked[i].archived => plain[i].archived
               /\ plain[i].kind = "event" => linked[i].by = plain[i].by
      BY <2>2 DEF Linked, Insert, Row
    <2> HIDE DEF plain, linked
    <2>6. Shown(linked)
      BY <2>3, <2>4, <2>5, SameShown
    <2>7. QED
      BY <1>6, <2>6, WriteShown DEF Supersede, linked, row
  <1>7. ASSUME FinishCommit PROVE Shown(memories)' /\ Idle'
    BY <1>7 DEF FinishCommit, tables, ShownInv, Shown, Idle
  <1>8. ASSUME AbortCommit PROVE Shown(memories)' /\ Idle'
    BY <1>8, RollbackShown DEF AbortCommit
  <1>9. QED
    BY <1>2, <1>3, <1>4, <1>5, <1>6, <1>7, <1>8 DEF CommitStep

\* Outside a Commit.
LEMMA DeletionShown ==
    ASSUME ShownInv, NEW d \in Deletion, InvalidateByDocument(d) PROVE Shown(memories)' /\ Idle'
  <1>1. /\ IsTable(memories) /\ superseded_by_fk(memories)
    BY DEF ShownInv, PromiseInv, Inv, TypeOK, Sound, SchemaAccepts
  <1>2. Idle'
    BY DEF InvalidateByDocument, commitVars, Idle
  <1>3. CASE CloseDerived(d.document, d.occurred)
    <2> DEFINE closed == Closed(memories, Closing(d.document), d.occurred)
    <2>1. /\ DOMAIN closed = DOMAIN memories
          /\ \A i \in DOMAIN memories :
               /\ closed[i].kind = memories[i].kind /\ closed[i].by = memories[i].by
               /\ closed[i].archived = memories[i].archived
      BY <1>1 DEF Closed, IsTable, Row
    <2>2. memories' = closed
      BY <1>3 DEF CloseDerived
    <2> HIDE DEF closed
    <2>3. Shown(closed)
      BY <1>1, <2>1, SameShown DEF ShownInv
    <2>4. QED
      BY <1>2, <2>2, <2>3 DEF Shown
  <1>4. CASE PurgeDerived(d.document)
    <2> DEFINE gone == Gone(d.document)
    <2>1. memories' = Without(memories, gone)
      BY <1>4 DEF PurgeDerived
    <2>2. /\ DOMAIN memories' = DOMAIN memories \ gone
          /\ \A i \in DOMAIN memories' :
               /\ memories'[i].kind = memories[i].kind
               /\ memories'[i].archived = memories[i].archived
               /\ memories'[i].by = Unlinked(memories[i].by, gone)
      BY <1>1, <2>1 DEF Without, IsTable, Row
    <2> HIDE DEF gone
    <2>3. \A i \in DOMAIN memories' :
            memories'[i].by # None => /\ memories'[i].by = memories[i].by
                                      /\ memories'[i].by \in DOMAIN memories'
      BY <1>1, <2>2 DEF Unlinked, superseded_by_fk
    <2>4. QED
      BY <1>2, <2>2, <2>3 DEF ShownInv, Shown
  <1>5. QED
    BY <1>3, <1>4 DEF InvalidateByDocument

LEMMA DecayUpdateShown ==
    ASSUME ShownInv, NEW r \in Replica, NEW u \in sweep[r], DecayUpdate(r, u)
    PROVE  Shown(memories)' /\ Idle'
  <1>1. /\ IsTable(memories) /\ superseded_by_fk(memories) /\ Committed = memories
        /\ Idle /\ Idle' /\ DOMAIN memories \cap purged = {}
    BY DEF ShownInv, PromiseInv, NothingReturns, Inv, TypeOK, Sound, SchemaAccepts, DecayUpdate,
           commitVars, Committed, Idle
  <1>2. /\ DOMAIN memories' = DOMAIN memories
        /\ \A i \in DOMAIN memories :
             /\ memories'[i].kind = memories[i].kind /\ memories'[i].by = memories[i].by
             /\ i # u.id => memories'[i].archived = memories[i].archived
    BY <1>1 DEF DecayUpdate, IsTable, Row
  <1>3. CASE memories' = memories
    BY <1>1, <1>3 DEF ShownInv, Shown
  <1>4. CASE u.id \in DOMAIN memories /\ memories' = [memories EXCEPT ![u.id].archived = u.archive]
    <2>1. memories'[u.id].archived = u.archive
      BY <1>1, <1>4 DEF IsTable, Row
    <2>2. u.archive => Archivable(memories[u.id].kind)
      BY <1>1, <1>4 DEF ShownInv
    <2>3. \A i \in DOMAIN memories' : memories'[i].archived => Archivable(memories'[i].kind)
      BY <1>2, <2>1, <2>2 DEF ShownInv, Shown
    <2>4. \A i \in DOMAIN memories' :
            memories'[i].kind = "event" /\ memories'[i].by # None =>
               memories'[memories'[i].by].kind = "event"
      BY <1>1, <1>2 DEF ShownInv, Shown, superseded_by_fk
    <2>5. QED
      BY <1>1, <2>3, <2>4 DEF Shown
  <1>5. QED
    BY <1>3, <1>4 DEF DecayUpdate

\* A summary is an event, and what it replaces are events.
LEMMA ConsolidateShown ==
    ASSUME ShownInv, NEW r \in Replica, NEW id \in Fresh, NEW statement \in Statement,
           NEW now \in Time, Consolidate(r, id, statement, now)
    PROVE  Shown(memories)' /\ Idle'
  <1> DEFINE g == group[r]
             row == SummaryRow(g, statement, now)
             linked == Replaced(Insert(Retired(g.ids, now), id, row), g.ids, id)
  <1>1. /\ IsTable(memories) /\ superseded_by_fk(memories) /\ Idle'
        /\ memories' = linked /\ g # None /\ g.kind = "event"
        /\ id \notin DOMAIN memories /\ g.ids \subseteq DOMAIN memories
    BY DEF ShownInv, PromiseInv, Inv, TypeOK, Sound, SchemaAccepts, GroupsHoldEvents, Fresh,
           Consolidate, commitVars, Idle
  <1>2. row.kind = "event" /\ ~row.archived /\ row.by = None
    BY <1>1 DEF SummaryRow
  <1> HIDE DEF row
  <1>3. /\ DOMAIN linked = DOMAIN memories \cup {id} /\ linked[id] = row
        /\ \A i \in DOMAIN memories :
             /\ linked[i].kind = memories[i].kind
             /\ linked[i].archived = memories[i].archived
             /\ linked[i].by = IF i \in g.ids THEN id ELSE memories[i].by
    BY <1>1 DEF Replaced, Insert, Retired, Closed, IsTable, Row
  <1> HIDE DEF linked
  <1>4. \A i \in DOMAIN linked : linked[i].archived => Archivable(linked[i].kind)
    BY <1>2, <1>3 DEF ShownInv, Shown
  <1>5. \A i \in DOMAIN linked :
          linked[i].kind = "event" /\ linked[i].by # None => linked[linked[i].by].kind = "event"
    BY <1>1, <1>2, <1>3 DEF ShownInv, Shown, superseded_by_fk
  <1>6. QED
    BY <1>1, <1>4, <1>5 DEF Shown

LEMMA TablesShown ==
    ASSUME ShownInv, [Next]_vars PROVE Shown(memories)' /\ (~Idle' => Shown(saved.memories)')
  <1>1. CASE UNCHANGED vars
    BY <1>1 DEF vars, tables, commitVars, ShownInv, Shown, Idle
  <1>2. ASSUME NEW r \in Replica,
               \/ DecayScan(r) \/ DecayStops(r) \/ CountGroups(r) \/ ConsolidationFails(r)
               \/ \E kind \in Kind, topic \in Topic, now \in Time :
                     FindConsolidationGroup(r, kind, topic, now)
        PROVE  Shown(memories)' /\ (~Idle' => Shown(saved.memories)')
    BY <1>2 DEF DecayScan, DecayStops, CountGroups, ConsolidationFails, FindConsolidationGroup,
                tables, commitVars, ShownInv, Shown, Idle
  <1>3. CASE MaintenanceStep
    BY <1>2, <1>3, DecayUpdateShown, ConsolidateShown DEF MaintenanceStep
  <1>4. QED
    BY <1>1, <1>3, CommitShown, DeletionShown DEF Next

\* A scan decides on rows of the table; every other step leaves decisions as they are, or
\* drops them.
LEMMA SweepsShown ==
    ASSUME ShownInv, [Next]_vars, NEW r \in Replica, NEW u \in sweep'[r]
    PROVE  \/ u \in sweep[r]
           \/ /\ u.archive => Archivable(memories[u.id].kind)
              /\ u.id \in DOMAIN memories /\ Committed = memories
  <1>1. sweep \in [Replica -> SUBSET Update]
    BY DEF ShownInv, PromiseInv, Inv, TypeOK
  <1>2. ASSUME NEW q \in Replica, DecayScan(q), u \notin sweep[r]
        PROVE  /\ u.archive => Archivable(memories[u.id].kind)
               /\ u.id \in DOMAIN memories /\ Committed = memories
    <2>1. PICK decayed \in SUBSET {i \in DOMAIN memories : IsCurrent(memories[i])},
               faded \in SUBSET {i \in DOMAIN memories : Archivable(memories[i].kind)} :
             sweep' = [sweep EXCEPT ![q] = {[id |-> i, archive |-> i \in faded] : i \in decayed}]
      <3>1. PICK decayed \in SUBSET {i \in DOMAIN memories : IsCurrent(memories[i])} :
               \E faded \in SUBSET {i \in decayed : Archivable(memories[i].kind)} :
                  sweep' = [sweep EXCEPT ![q] =
                              {[id |-> i, archive |-> i \in faded] : i \in decayed}]
        BY <1>2 DEF DecayScan
      <3>2. QED
        BY <3>1
    <2>2. u \in {[id |-> i, archive |-> i \in faded] : i \in decayed}
      BY <1>1, <1>2, <2>1
    <2>3. PICK i \in decayed : u = [id |-> i, archive |-> i \in faded]
      BY <2>2
    <2>4. u.id = i /\ u.archive = (i \in faded)
      BY <2>3
    <2>5. QED
      BY <1>2, <2>1, <2>4 DEF DecayScan, Committed
  <1>3. ASSUME NEW q \in Replica,
               \/ DecayStops(q) \/ CountGroups(q) \/ ConsolidationFails(q)
               \/ \E v \in sweep[q] : DecayUpdate(q, v)
               \/ \E kind \in Kind, topic \in Topic, now \in Time :
                     FindConsolidationGroup(q, kind, topic, now)
               \/ \E id \in Fresh, statement \in Statement, now \in Time :
                     Consolidate(q, id, statement, now)
        PROVE  u \in sweep[r]
    BY <1>1, <1>3 DEF DecayStops, CountGroups, ConsolidationFails, DecayUpdate,
                      FindConsolidationGroup, Consolidate
  <1>4. CASE MaintenanceStep
    BY <1>2, <1>3, <1>4 DEF MaintenanceStep
  <1>5. CASE CommitStep
    BY <1>5 DEF CommitStep, BeginCommit, Create, Reinforce, Backfill, Supersede, Write,
                FinishCommit, AbortCommit, Rollback, jobVars
  <1>6. CASE \/ UNCHANGED vars
             \/ \E d \in Deletion : InvalidateByDocument(d)
    BY <1>6 DEF vars, jobVars, InvalidateByDocument
  <1>7. QED
    BY <1>4, <1>5, <1>6 DEF Next

LEMMA StepShown == ASSUME ShownInv, [Next]_vars PROVE ShownInv'
  <1>1. PromiseInv' /\ purged \subseteq purged'
    BY StepIsPromised DEF ShownInv, Promise!Next, Promise!Grow, Promise!Purge
  <1>2. HistoryStep
    BY StepInv DEF ShownInv, PromiseInv
  <1>3. ASSUME NEW r \in Replica, NEW u \in sweep'[r], u.archive
        PROVE  \/ u.id \in DOMAIN Committed' /\ Archivable(Committed'[u.id].kind)
               \/ u.id \in purged'
    <2>1. \/ u.id \in DOMAIN Committed /\ Archivable(Committed[u.id].kind)
          \/ u.id \in purged
      BY <1>3, SweepsShown DEF ShownInv
    <2>2. QED
      BY <1>1, <1>2, <1>3, <2>1, DecisionsStand
  <1>4. QED
    BY <1>1, <1>3, TablesShown DEF ShownInv

LEMMA ShownHolds == Spec => []ShownInv
  BY InitShown, StepShown, PTL DEF Spec

\* What replaces a decision, or is replaced by one, is a decision of the same topic.
LEMMA DecisionsReplaceDecisions ==
    ASSUME ShownInv, NEW i \in DOMAIN memories, memories[i].by # None,
           memories[i].kind = "decision" \/ memories[memories[i].by].kind = "decision"
    PROVE  /\ memories[i].by \in DOMAIN memories
           /\ SameKey(memories[memories[i].by], memories[i])
           /\ memories[memories[i].by].from = memories[i].to
  <1>1. /\ superseded_by_fk(memories) /\ Gapless(memories)
    BY DEF ShownInv, PromiseInv, Inv, Sound, SchemaAccepts
  <1>2. memories[i].kind # "event"
    BY DEF ShownInv, Shown
  <1>3. QED
    BY <1>1, <1>2 DEF superseded_by_fk, Gapless, Supersedes

LEMMA TimelineFacts ==
    ASSUME ShownInv, NEW topic \in Topic, NEW replaced \in Scanned({"decision"}, {topic})
    PROVE  LET entries == Timeline({"decision"}, {topic}, replaced)
           IN  /\ DecisionsOn(topic) = {entry.memory : entry \in entries}
               /\ \A entry \in entries :
                    entry.replaced # None =>
                       /\ entry.replaced \in DecisionsOn(topic)
                       /\ memories[entry.replaced].to = entry.changedAt
               /\ \A old \in DecisionsOn(topic) :
                    memories[old].by # None =>
                       \E entry \in entries :
                         /\ entry.memory = memories[old].by
                         /\ entry.replaced # None
                         /\ supersededIDs(entry.memory) = {old} => entry.replaced = old
  <1> DEFINE decisions == DecisionsOn(topic)
             entries == Timeline({"decision"}, {topic}, replaced)
             told(i) == [memory |-> i, replaced |-> replaced[i], changedAt |-> memories[i].from,
                         current |-> memories[i].to = None]
  <1>1. /\ \A i \in DOMAIN memories : i # None
        /\ \A i \in decisions : i \in DOMAIN memories /\ memories[i].kind = "decision"
                                /\ memories[i].topic = topic
        /\ \A i \in DOMAIN memories :
              memories[i].kind = "decision" /\ memories[i].topic = topic => i \in decisions
    BY NoneIsNoId DEF ShownInv, PromiseInv, Inv, TypeOK, IsTable, DecisionsOn
  <1>2. Listed({"decision"}, {topic}) = decisions
    BY DEF Listed, ShownInv, Shown, Archivable, DecisionsOn
  <1>3. /\ \A e \in entries : \E i \in decisions : e = told(i)
        /\ \A i \in decisions : told(i) \in entries
    BY <1>2 DEF Timeline
  <1>4. \A i \in decisions : replaced[i] \in MayShow(i)
    BY <1>2 DEF Scanned
  <1>5. \A i : /\ told(i).memory = i /\ told(i).replaced = replaced[i]
               /\ told(i).changedAt = memories[i].from
    OBVIOUS
  <1> HIDE DEF decisions, entries, told
  <1>6. decisions = {e.memory : e \in entries}
    <2>1. ASSUME NEW i \in decisions PROVE i \in {e.memory : e \in entries}
      <3>1. told(i) \in entries /\ told(i).memory = i
        BY <1>3, <1>5
      <3>2. QED
        BY <3>1
    <2>2. ASSUME NEW e \in entries PROVE e.memory \in decisions
      BY <1>3, <1>5
    <2>3. QED
      BY <2>1, <2>2
  <1>7. ASSUME NEW e \in entries, e.replaced # None
        PROVE  e.replaced \in decisions /\ memories[e.replaced].to = e.changedAt
    <2>1. PICK i \in decisions : e = told(i)
      BY <1>3
    <2>2. e.replaced = replaced[i] /\ e.changedAt = memories[i].from
      BY <1>5, <2>1
    <2> DEFINE j == replaced[i]
    <2>3. j \in DOMAIN memories /\ memories[j].by = i /\ i # None
      BY <1>1, <1>4, <1>7, <2>2 DEF MayShow, supersededIDs
    <2> HIDE DEF j
    <2>4. memories[memories[j].by].kind = "decision"
      BY <1>1, <2>3
    <2>5. SameKey(memories[i], memories[j]) /\ memories[i].from = memories[j].to
      BY <2>3, <2>4, DecisionsReplaceDecisions
    <2>6. QED
      BY <1>1, <2>2, <2>3, <2>5 DEF SameKey, j
  <1>8. ASSUME NEW old \in decisions, memories[old].by # None
        PROVE  \E entry \in entries :
                 /\ entry.memory = memories[old].by
                 /\ entry.replaced # None
                 /\ supersededIDs(entry.memory) = {old} => entry.replaced = old
    <2> DEFINE newer == memories[old].by
    <2>1. newer \in DOMAIN memories /\ SameKey(memories[newer], memories[old])
      BY <1>1, <1>8, DecisionsReplaceDecisions
    <2>2. newer \in decisions
      BY <1>1, <2>1 DEF SameKey
    <2>3. old \in supersededIDs(newer)
      BY <1>1 DEF supersededIDs
    <2>4. replaced[newer] \in supersededIDs(newer)
      BY <1>4, <2>2, <2>3 DEF MayShow
    <2>5. replaced[newer] # None
      BY <1>1, <2>4 DEF supersededIDs
    <2> HIDE DEF newer
    <2>6. told(newer) \in entries /\ told(newer).memory = newer
          /\ told(newer).replaced = replaced[newer]
      BY <1>3, <1>5, <2>2
    <2>7. supersededIDs(newer) = {old} => replaced[newer] = old
      BY <2>4
    <2>8. newer = memories[old].by
      BY DEF newer
    <2>9. QED
      BY <2>5, <2>6, <2>7, <2>8
  <1>9. QED
    BY <1>6, <1>7, <1>8 DEF entries, decisions

\* No page of the decisions timeline misses a decision, though decay writes what it decided long
\* ago; what it shows as replaced is a decision that ended when the entry says; and no reversal
\* goes unmarked, though of several memories that one replaced a page shows one only.
THEOREM TimelineIsWhole == Spec => []TimelineTellsChanges
  <1>1. ShownInv => TimelineTellsChanges
    BY TimelineFacts DEF TimelineTellsChanges
  <1>2. QED
    BY <1>1, ShownHolds, PTL

-----------------------------------------------------------------------------
(***************************************************************************)
(* The graph beside the tables.                                            *)
(***************************************************************************)

IsGraph(g) ==
    g \in [about : SUBSET (MemoryId \X Topic), episodes : SUBSET Episode,
           derivedFrom : SUBSET (MemoryId \X Episode), supersedes : SUBSET (MemoryId \X MemoryId)]

\* Every row is a vertex; its edges tell what its citations and its link tell, and no edge
\* tells more.
Mirrors(g, table, links, saves) ==
    /\ IsGraph(g)
    /\ \A p \in links : p[1] \in DOMAIN table
    /\ \A i \in DOMAIN table : <<i, table[i].topic>> \in g.about
    /\ \A p \in g.about : p[1] \in DOMAIN table \cup purged
    /\ \A i \in DOMAIN table :
          Supersedes(table[i].kind) =>
             /\ \A e \in Episode :
                   saves[e] # None /\ <<i, e>> \in links => <<i, e>> \in g.derivedFrom
             /\ \A j \in DOMAIN table : table[i].by = j => <<j, i>> \in g.supersedes
    /\ \A p \in g.derivedFrom :
          /\ p[1] \in DOMAIN table \cup purged
          /\ p[1] \in DOMAIN table /\ saves[p[2]] # None => p \in links
    /\ \A p \in g.supersedes :
          /\ {p[1], p[2]} \subseteq DOMAIN table \cup purged
          /\ p[2] \in DOMAIN table => Supersedes(table[p[2]].kind)
          /\ p[1] \in DOMAIN table /\ p[2] \in DOMAIN table => table[p[2]].by = p[1]

\* The strengthening: an edge leads to an episode that is logged or being written, so that an
\* episode that is saved again brings no old edge back; and a rollback brings back a graph
\* that mirrored the tables it brings back with it.
GraphInv ==
    /\ Mirrors(graph, memories, provenance, episodes)
    /\ \A p \in graph.derivedFrom : p[2] \in ingested \/ (~Idle /\ p[2] = writer.episode)
    /\ ~Idle =>
          /\ writer.episode \in graph.episodes
          /\ Mirrors(savedGraph, saved.memories, saved.provenance, saved.episodes)
          /\ \A p \in savedGraph.derivedFrom : p[2] \in ingested

\* The tables read as the graph reads them: each row's kind, topic and link.
Alike(old, new) ==
    /\ DOMAIN new = DOMAIN old
    /\ \A i \in DOMAIN old :
          new[i].kind = old[i].kind /\ new[i].topic = old[i].topic /\ new[i].by = old[i].by

LEMMA AlikeMirrored ==
    ASSUME NEW g, NEW old, NEW new, NEW links, NEW saves,
           Mirrors(g, old, links, saves), Alike(old, new)
    PROVE  Mirrors(g, new, links, saves)
  BY DEF Mirrors, Alike

\* MERGE of a memory, and the citation of an episode that is a vertex.
LEMMA ProjectedFields ==
    ASSUME NEW g, IsGraph(g), NEW id \in MemoryId, NEW topic \in Topic, NEW e \in g.episodes
    PROVE  LET h == LinkDerivedFrom(UpsertMemory(g, id, topic), id, e)
           IN  /\ IsGraph(h)
               /\ h.about = g.about \cup {<<id, topic>>}
               /\ h.episodes = g.episodes
               /\ h.derivedFrom = g.derivedFrom \cup {<<id, e>>}
               /\ h.supersedes = g.supersedes
  <1> DEFINE u == UpsertMemory(g, id, topic)
  <1>1. /\ IsGraph(u) /\ u.about = g.about \cup {<<id, topic>>} /\ u.episodes = g.episodes
        /\ u.derivedFrom = g.derivedFrom /\ u.supersedes = g.supersedes
    BY DEF IsGraph, UpsertMemory
  <1>2. id \in Vertices(u)
    <2>1. <<id, topic>> \in u.about /\ <<id, topic>>[1] = id
      BY <1>1
    <2>2. QED
      BY <2>1 DEF Vertices
  <1> HIDE DEF u
  <1>3. LinkDerivedFrom(u, id, e) = [u EXCEPT !.derivedFrom = @ \cup {<<id, e>>}]
    BY <1>1, <1>2 DEF LinkDerivedFrom
  <1>4. <<id, e>> \in MemoryId \X Episode
    BY DEF IsGraph
  <1>5. QED
    BY <1>1, <1>3, <1>4 DEF IsGraph, u

\* The citation of a row that is there.
LEMMA CiteMirrored ==
    ASSUME NEW g, NEW table, NEW links, NEW saves, Mirrors(g, table, links, saves),
           IsTable(table), NEW i \in DOMAIN table, NEW e \in g.episodes
    PROVE  LET h == LinkDerivedFrom(g, i, e)
           IN  /\ Mirrors(h, table, links \cup {<<i, e>>}, saves)
               /\ h.derivedFrom = g.derivedFrom \cup {<<i, e>>} /\ h.episodes = g.episodes
  <1> DEFINE h == LinkDerivedFrom(g, i, e)
  <1>1. IsGraph(g) /\ i \in MemoryId /\ e \in Episode
    BY DEF Mirrors, IsGraph, IsTable
  <1>2. i \in Vertices(g)
    <2>1. <<i, table[i].topic>> \in g.about /\ <<i, table[i].topic>>[1] = i
      BY DEF Mirrors
    <2>2. QED
      BY <2>1 DEF Vertices
  <1>3. h = [g EXCEPT !.derivedFrom = @ \cup {<<i, e>>}]
    BY <1>2 DEF LinkDerivedFrom
  <1>4. /\ IsGraph(h) /\ h.about = g.about /\ h.episodes = g.episodes
        /\ h.derivedFrom = g.derivedFrom \cup {<<i, e>>} /\ h.supersedes = g.supersedes
    BY <1>1, <1>3 DEF IsGraph
  <1> HIDE DEF h
  <1>5. Mirrors(h, table, links \cup {<<i, e>>}, saves)
    <2>1. \A j \in DOMAIN table : Supersedes(table[j].kind) =>
             \A f \in Episode :
                saves[f] # None /\ <<j, f>> \in links \cup {<<i, e>>} =>
                   <<j, f>> \in h.derivedFrom
      BY <1>4 DEF Mirrors
    <2>2. \A p \in h.derivedFrom :
             /\ p[1] \in DOMAIN table \cup purged
             /\ p[1] \in DOMAIN table /\ saves[p[2]] # None => p \in links \cup {<<i, e>>}
      BY <1>4 DEF Mirrors
    <2>3. \A p \in links \cup {<<i, e>>} : p[1] \in DOMAIN table
      BY DEF Mirrors
    <2>4. QED
      BY <1>4, <2>1, <2>2, <2>3 DEF Mirrors
  <1>6. QED
    BY <1>4, <1>5 DEF h

\* A row is added, that no row replaces yet, and is projected.
LEMMA InsertMirrored ==
    ASSUME NEW g, NEW table, NEW links, NEW saves, Mirrors(g, table, links, saves),
           IsTable(table), superseded_by_fk(table),
           NEW id \in MemoryId \ (DOMAIN table \cup purged), NEW row, row.by = None,
           row.topic \in Topic, NEW e \in g.episodes
    PROVE  LET h == LinkDerivedFrom(UpsertMemory(g, id, row.topic), id, e)
           IN  /\ Mirrors(h, Insert(table, id, row), links \cup {<<id, e>>}, saves)
               /\ h.derivedFrom = g.derivedFrom \cup {<<id, e>>} /\ h.episodes = g.episodes
  <1> DEFINE h == LinkDerivedFrom(UpsertMemory(g, id, row.topic), id, e)
             new == Insert(table, id, row)
  <1>1. /\ IsGraph(h)
        /\ h.about = g.about \cup {<<id, row.topic>>} /\ h.episodes = g.episodes
        /\ h.derivedFrom = g.derivedFrom \cup {<<id, e>>} /\ h.supersedes = g.supersedes
    <2>1. IsGraph(g)
      BY DEF Mirrors
    <2>2. QED
      BY <2>1, ProjectedFields
  <1>2. /\ DOMAIN new = DOMAIN table \cup {id} /\ new[id] = row
        /\ \A i \in DOMAIN table : new[i] = table[i]
    BY DEF Insert
  <1> HIDE DEF h, new
  <1>3. \A i \in DOMAIN new : <<i, new[i].topic>> \in h.about
    BY <1>1, <1>2 DEF Mirrors
  <1>4. \A p \in h.about : p[1] \in DOMAIN new \cup purged
    BY <1>1, <1>2 DEF Mirrors
  <1>5. ASSUME NEW i \in DOMAIN new, Supersedes(new[i].kind)
        PROVE  /\ \A f \in Episode : saves[f] # None /\ <<i, f>> \in links \cup {<<id, e>>} =>
                     <<i, f>> \in h.derivedFrom
               /\ \A j \in DOMAIN new : new[i].by = j => <<j, i>> \in h.supersedes
    <2>1. CASE i = id
      <3>1. \A f \in Episode : saves[f] # None => <<id, f>> \notin links
        <4>1. SUFFICES ASSUME NEW f \in Episode, saves[f] # None, <<id, f>> \in links
                       PROVE  FALSE
          OBVIOUS
        <4>2. <<id, f>>[1] \in DOMAIN table
          BY <4>1 DEF Mirrors
        <4>3. QED
          BY <4>2
      <3>2. None \notin DOMAIN new
        BY <1>2, NoneIsNoId DEF IsTable
      <3>3. QED
        BY <1>1, <1>2, <2>1, <3>1, <3>2
    <2>2. CASE i # id
      <3>1. i \in DOMAIN table /\ new[i] = table[i] /\ Supersedes(table[i].kind)
        BY <1>2, <1>5, <2>2
      <3>2. table[i].by # id
        BY <3>1, NoneIsNoId DEF superseded_by_fk
      <3>3. QED
        BY <1>1, <1>2, <2>2, <3>1, <3>2 DEF Mirrors
    <2>3. QED
      BY <2>1, <2>2
  <1>6. \A p \in h.derivedFrom :
           /\ p[1] \in DOMAIN new \cup purged
           /\ p[1] \in DOMAIN new /\ saves[p[2]] # None => p \in links \cup {<<id, e>>}
    BY <1>1, <1>2 DEF Mirrors
  <1>7. \A p \in h.supersedes :
           /\ {p[1], p[2]} \subseteq DOMAIN new \cup purged
           /\ p[2] \in DOMAIN new => Supersedes(new[p[2]].kind)
           /\ p[1] \in DOMAIN new /\ p[2] \in DOMAIN new => new[p[2]].by = p[1]
    BY <1>1, <1>2 DEF Mirrors
  <1>8. Mirrors(h, new, links \cup {<<id, e>>}, saves)
    <2>1. \A p \in links \cup {<<id, e>>} : p[1] \in DOMAIN new
      BY <1>2 DEF Mirrors
    <2>2. QED
      BY <2>1, <1>1, <1>3, <1>4, <1>5, <1>6, <1>7 DEF Mirrors
  <1>9. QED
    BY <1>1, <1>8 DEF h, new

\* Two rows are linked, in the table and in the graph.
LEMMA LinkMirrored ==
    ASSUME NEW g, NEW old, NEW new, NEW links, NEW saves, Mirrors(g, old, links, saves),
           IsTable(old), NEW newer \in DOMAIN old, NEW older \in DOMAIN old,
           old[older].by = None, Supersedes(old[older].kind),
           DOMAIN new = DOMAIN old,
           \A i \in DOMAIN old : /\ new[i].kind = old[i].kind /\ new[i].topic = old[i].topic
                                 /\ i # older => new[i].by = old[i].by,
           new[older].by = newer
    PROVE  LET h == LinkSupersedes(g, newer, older)
           IN  /\ Mirrors(h, new, links, saves)
               /\ h.derivedFrom = g.derivedFrom /\ h.episodes = g.episodes
  <1> DEFINE h == LinkSupersedes(g, newer, older)
  <1>1. IsGraph(g) /\ newer \in MemoryId /\ older \in MemoryId
    BY DEF Mirrors, IsTable
  <1>2. {newer, older} \subseteq Vertices(g)
    <2>1. \A i \in DOMAIN old : <<i, old[i].topic>> \in g.about /\ <<i, old[i].topic>>[1] = i
      BY DEF Mirrors
    <2>2. QED
      BY <2>1 DEF Vertices
  <1>3. h = [g EXCEPT !.supersedes = @ \cup {<<newer, older>>}]
    BY <1>2 DEF LinkSupersedes
  <1>4. /\ IsGraph(h) /\ h.about = g.about /\ h.episodes = g.episodes
        /\ h.derivedFrom = g.derivedFrom /\ h.supersedes = g.supersedes \cup {<<newer, older>>}
    BY <1>1, <1>3 DEF IsGraph
  <1> HIDE DEF h
  <1>5. ASSUME NEW i \in DOMAIN new, Supersedes(new[i].kind), NEW j \in DOMAIN new, new[i].by = j
        PROVE  <<j, i>> \in h.supersedes
    <2>1. CASE i = older
      BY <1>4, <1>5, <2>1
    <2>2. CASE i # older
      BY <1>4, <1>5, <2>2 DEF Mirrors
    <2>3. QED
      BY <2>1, <2>2
  <1>6. ASSUME NEW p \in h.supersedes
        PROVE  /\ {p[1], p[2]} \subseteq DOMAIN new \cup purged
               /\ p[2] \in DOMAIN new => Supersedes(new[p[2]].kind)
               /\ p[1] \in DOMAIN new /\ p[2] \in DOMAIN new => new[p[2]].by = p[1]
    <2>1. CASE p = <<newer, older>>
      BY <2>1
    <2>2. CASE p \in g.supersedes
      <3>1. /\ {p[1], p[2]} \subseteq DOMAIN old \cup purged
            /\ p[2] \in DOMAIN old => Supersedes(old[p[2]].kind)
            /\ p[1] \in DOMAIN old /\ p[2] \in DOMAIN old => old[p[2]].by = p[1]
        BY <2>2 DEF Mirrors
      <3>2. None \notin DOMAIN old
        BY NoneIsNoId DEF IsTable
      <3>3. p[1] \in DOMAIN old => p[2] # older
        BY <3>1, <3>2
      <3>4. QED
        BY <3>1, <3>3
    <2>3. QED
      BY <1>4, <2>1, <2>2
  <1>7. Mirrors(h, new, links, saves)
    BY <1>4, <1>5, <1>6 DEF Mirrors
  <1>8. QED
    BY <1>4, <1>7 DEF h


-----------------------------------------------------------------------------
LEMMA InitGraphInv == GraphInit => GraphInv
  <1> SUFFICES ASSUME GraphInit PROVE GraphInv
    OBVIOUS
  <1>1. DOMAIN memories = {} /\ provenance = {} /\ Idle /\ graph = Empty
    BY DEF GraphInit, Init, Idle
  <1>2. IsGraph(graph)
    BY <1>1 DEF IsGraph, Empty
  <1>3. graph.about = {} /\ graph.derivedFrom = {} /\ graph.supersedes = {}
    BY <1>1 DEF Empty
  <1>4. QED
    BY <1>1, <1>2, <1>3 DEF GraphInv, Mirrors

\* The statements of a commitOne that the schema accepts, and the graph g they make.
LEMMA WriteMirrored ==
    ASSUME GraphInv, Inv', Pending, NEW written, NEW result, NEW links, NEW records,
           Write(written, result, links, records), writer # None,
           NEW g, GraphWrite(g),
           Mirrors(g, result, provenance \cup links, episodes),
           g.episodes = graph.episodes,
           \A p \in g.derivedFrom : p \in graph.derivedFrom \/ p[2] = writer.episode
    PROVE  GraphInv'
  <1>1. \A table \in written : SchemaAccepts(table)
    BY DEF Write, Inv
  <1>2. /\ memories' = result /\ provenance' = provenance \cup links
        /\ UNCHANGED <<episodes, ingested, purged, writer, saved>> /\ Idle' = Idle /\ ~Idle
    BY <1>1 DEF Write, Idle
  <1>3. graph' = g /\ UNCHANGED savedGraph
    BY <1>2 DEF GraphWrite
  <1>4. Mirrors(graph, memories, provenance, episodes)'
    BY <1>2, <1>3 DEF Mirrors, IsGraph
  <1>5. Mirrors(savedGraph, saved.memories, saved.provenance, saved.episodes)'
    BY <1>2, <1>3 DEF GraphInv, Mirrors, IsGraph
  <1>6. \A p \in g.derivedFrom : p[2] \in ingested \/ p[2] = writer.episode
    BY <1>2 DEF GraphInv
  <1>7. QED
    BY <1>2, <1>3, <1>4, <1>5, <1>6 DEF GraphInv

\* What the open Commit writes about, beside the graph.
LEMMA PendingGraphFacts ==
    ASSUME GraphInv, TieInv, Pending
    PROVE  /\ writer # None /\ writer.occurred \in Time /\ writer.episode \in graph.episodes
           /\ Head(todo) \in Claim
           /\ IsTable(memories) /\ superseded_by_fk(memories)
           /\ Mirrors(graph, memories, provenance, episodes)
  BY PendingFacts DEF GraphInv, TieInv, Inv, TypeOK, Pending, Idle, Sound, SchemaAccepts

LEMMA NewMirrored ==
    ASSUME GraphInv, TieInv, Pending, NEW id \in Fresh, NEW row, row.by = None,
           row.topic \in Topic
    PROVE  LET g == LinkDerivedFrom(UpsertMemory(graph, id, row.topic), id, writer.episode)
           IN  /\ Mirrors(g, Insert(memories, id, row), provenance \cup {<<id, writer.episode>>},
                          episodes)
               /\ g.derivedFrom = graph.derivedFrom \cup {<<id, writer.episode>>}
               /\ g.episodes = graph.episodes
  <1>1. /\ Mirrors(graph, memories, provenance, episodes) /\ IsTable(memories)
        /\ superseded_by_fk(memories) /\ writer.episode \in graph.episodes
    BY PendingGraphFacts
  <1>2. id \in MemoryId \ (DOMAIN memories \cup purged)
    BY DEF Fresh
  <1>3. QED
    BY <1>1, <1>2, InsertMirrored

LEMMA CreateGraph ==
    ASSUME GraphInv, TieInv, Inv', NEW id \in Fresh, Create(id), GraphWrite(Projected(id))
    PROVE  GraphInv'
  <1> DEFINE row == NewRow(Head(todo), writer.occurred, None, None)
             g == LinkDerivedFrom(UpsertMemory(graph, id, row.topic), id, writer.episode)
  <1>1. /\ Pending
        /\ Write({Insert(memories, id, row)}, Insert(memories, id, row),
                 {<<id, writer.episode>>}, {})
    BY DEF Create
  <1>2. row.by = None /\ row.topic = Head(todo).topic /\ row.topic \in Topic
    BY <1>1, PendingGraphFacts DEF NewRow, Claim
  <1>3. g = Projected(id)
    BY <1>2 DEF Projected
  <1>4. id \in MemoryId \ (DOMAIN memories \cup purged)
    BY DEF Fresh
  <1> HIDE DEF row
  <1>5. /\ Mirrors(g, Insert(memories, id, row), provenance \cup {<<id, writer.episode>>}, episodes)
        /\ g.derivedFrom = graph.derivedFrom \cup {<<id, writer.episode>>}
        /\ g.episodes = graph.episodes
    BY <1>1, <1>2, NewMirrored
  <1>6. GraphWrite(g)
    BY <1>3
  <1>7. \A p \in g.derivedFrom : p \in graph.derivedFrom \/ p[2] = writer.episode
    BY <1>5
  <1> HIDE DEF g
  <1>8. QED
    BY <1>1, <1>5, <1>6, <1>7, PendingGraphFacts, WriteMirrored

LEMMA ReinforceGraph ==
    ASSUME GraphInv, TieInv, Inv', NEW current \in DOMAIN memories, Reinforce(current),
           GraphWrite(LinkDerivedFrom(graph, current, writer.episode))
    PROVE  GraphInv'
  <1> DEFINE row == Reinforced(memories[current], Head(todo), writer.occurred)
             again == [memories EXCEPT ![current] = row]
             g == LinkDerivedFrom(graph, current, writer.episode)
  <1>1. Pending /\ Write({again}, again, {<<current, writer.episode>>}, {})
    BY DEF Reinforce
  <1>2. memories[current] \in Row
    BY <1>1, PendingGraphFacts DEF IsTable
  <1>3. /\ row.kind = memories[current].kind /\ row.topic = memories[current].topic
        /\ row.by = memories[current].by
    BY <1>2 DEF Reinforced, Row
  <1> HIDE DEF row
  <1>4. Alike(memories, again)
    BY <1>3 DEF Alike
  <1>5. /\ Mirrors(g, memories, provenance \cup {<<current, writer.episode>>}, episodes)
        /\ g.derivedFrom = graph.derivedFrom \cup {<<current, writer.episode>>}
        /\ g.episodes = graph.episodes
    BY <1>1, PendingGraphFacts, CiteMirrored
  <1> HIDE DEF again
  <1>6. Mirrors(g, again, provenance \cup {<<current, writer.episode>>}, episodes)
    BY <1>4, <1>5, AlikeMirrored
  <1>7. \A p \in g.derivedFrom : p \in graph.derivedFrom \/ p[2] = writer.episode
    BY <1>5
  <1>8. GraphWrite(g)
    OBVIOUS
  <1> HIDE DEF g
  <1>9. QED
    BY <1>1, <1>5, <1>6, <1>7, <1>8, PendingGraphFacts, WriteMirrored

LEMMA BackfillGraph ==
    ASSUME GraphInv, TieInv, Inv', NEW id \in Fresh, NEW current \in DOMAIN memories,
           Backfill(id, current), GraphWrite(LinkSupersedes(Projected(id), current, id))
    PROVE  GraphInv'
  <1> DEFINE claim == Head(todo)
             taken == memories[current].from
             row == NewRow(claim, writer.occurred, taken, current)
             unlinked == NewRow(claim, writer.occurred, taken, None)
             filed == Insert(memories, id, row)
             plain == Insert(memories, id, unlinked)
             g == LinkDerivedFrom(UpsertMemory(graph, id, unlinked.topic), id, writer.episode)
             h == LinkSupersedes(g, current, id)
             links == {<<id, writer.episode>>}
             record == recordInvalidation(id, current, taken)
  <1>1. Pending /\ Write({filed}, filed, links, {record}) /\ Supersedes(claim.kind)
    BY DEF Backfill, Historical
  <1>2. /\ unlinked.by = None /\ row.by = current
        /\ unlinked.topic = claim.topic /\ row.topic = claim.topic
        /\ unlinked.kind = claim.kind /\ row.kind = claim.kind /\ claim.topic \in Topic
    BY <1>1, PendingGraphFacts DEF NewRow, Claim
  <1>3. h = LinkSupersedes(Projected(id), current, id)
    BY <1>2 DEF Projected
  <1>4. id \in MemoryId \ (DOMAIN memories \cup purged)
    BY DEF Fresh
  <1>5. unlinked \in Row
    <2>1. taken \in Time
      BY <1>1, PendingGraphFacts DEF IsTable, Row
    <2>2. QED
      BY <1>1, <2>1, PendingGraphFacts, NewRowType
  <1> HIDE DEF row, unlinked, record
  <1>6. /\ Mirrors(g, plain, provenance \cup links, episodes)
        /\ g.derivedFrom = graph.derivedFrom \cup {<<id, writer.episode>>}
        /\ g.episodes = graph.episodes
    <2>1. Pending
      BY <1>1
    <2>2. QED
      BY <1>2, <2>1, NewMirrored
  <1>7. IsTable(plain)
    BY <1>1, <1>4, <1>5, PendingGraphFacts, InsertType
  <1>8. /\ DOMAIN filed = DOMAIN plain /\ current \in DOMAIN plain /\ id \in DOMAIN plain
        /\ plain[id] = unlinked /\ filed[id] = row
        /\ \A i \in DOMAIN plain \ {id} : filed[i] = plain[i]
    BY DEF Insert
  <1> HIDE DEF g, filed, plain, links
  <1>9. /\ Mirrors(h, filed, provenance \cup links, episodes)
        /\ h.derivedFrom = g.derivedFrom /\ h.episodes = g.episodes
    <2>1. /\ \A i \in DOMAIN plain : /\ filed[i].kind = plain[i].kind
                                     /\ filed[i].topic = plain[i].topic
                                     /\ i # id => filed[i].by = plain[i].by
          /\ plain[id].by = None /\ filed[id].by = current /\ Supersedes(plain[id].kind)
      BY <1>1, <1>2, <1>8
    <2>2. QED
      BY <1>6, <1>7, <1>8, <2>1, LinkMirrored
  <1>10. \A p \in h.derivedFrom : p \in graph.derivedFrom \/ p[2] = writer.episode
    BY <1>6, <1>9
  <1>11. GraphWrite(h)
    BY <1>3
  <1> HIDE DEF h
  <1>12. QED
    BY <1>1, <1>6, <1>9, <1>10, <1>11, PendingGraphFacts, WriteMirrored

LEMMA SupersedeGraph ==
    ASSUME GraphInv, TieInv, Inv', NEW id \in Fresh, NEW current \in DOMAIN memories,
           Supersede(id, current), GraphWrite(LinkSupersedes(Projected(id), id, current))
    PROVE  GraphInv'
  <1> DEFINE claim == Head(todo)
             at == writer.occurred
             row == NewRow(claim, at, None, None)
             closed == [memories EXCEPT ![current].to = at]
             inserted == Insert(closed, id, row)
             linked == [inserted EXCEPT ![current].by = id]
             plain == Insert(memories, id, row)
             g == LinkDerivedFrom(UpsertMemory(graph, id, row.topic), id, writer.episode)
             h == LinkSupersedes(g, id, current)
             links == {<<id, writer.episode>>}
             record == recordInvalidation(current, id, at)
  <1>1. /\ Pending /\ Write({closed, inserted, linked}, linked, links, {record})
        /\ Supersedes(claim.kind) /\ current \in CurrentFor(memories, claim)
    BY DEF Supersede, Linked
  <1>2. row.by = None /\ row.topic = claim.topic /\ claim.topic \in Topic
    BY <1>1, PendingGraphFacts DEF NewRow, Claim
  <1>3. h = LinkSupersedes(Projected(id), id, current)
    BY <1>2 DEF Projected
  <1>4. id \in MemoryId \ (DOMAIN memories \cup purged)
    BY DEF Fresh
  <1>5. row \in Row
    BY <1>1, PendingGraphFacts, NewRowType
  <1>6. memories[current].by = None /\ Supersedes(memories[current].kind)
    <2>1. memories_supersede_ck(memories)
      BY DEF TieInv, Inv, Sound, SchemaAccepts
    <2>2. QED
      BY <1>1, <2>1 DEF CurrentFor, IsCurrent, SameKey, memories_supersede_ck
  <1>7. memories[current] \in Row
    BY <1>1, PendingGraphFacts DEF IsTable
  <1> HIDE DEF row, record
  <1>8. /\ Mirrors(g, plain, provenance \cup links, episodes)
        /\ g.derivedFrom = graph.derivedFrom \cup {<<id, writer.episode>>}
        /\ g.episodes = graph.episodes
    <2>1. Pending
      BY <1>1
    <2>2. QED
      BY <1>2, <2>1, NewMirrored
  <1>9. IsTable(plain)
    BY <1>1, <1>4, <1>5, PendingGraphFacts, InsertType
  <1>10. /\ DOMAIN linked = DOMAIN plain /\ current \in DOMAIN plain /\ id \in DOMAIN plain
         /\ plain[current] = memories[current]
         /\ linked[current].kind = plain[current].kind
         /\ linked[current].topic = plain[current].topic
         /\ linked[current].by = id
         /\ \A i \in DOMAIN plain \ {current} : linked[i] = plain[i]
    BY <1>4, <1>7 DEF Insert, Row
  <1> HIDE DEF g, closed, inserted, linked, plain, links
  <1>11. /\ Mirrors(h, linked, provenance \cup links, episodes)
         /\ h.derivedFrom = g.derivedFrom /\ h.episodes = g.episodes
    <2>1. /\ \A i \in DOMAIN plain : /\ linked[i].kind = plain[i].kind
                                     /\ linked[i].topic = plain[i].topic
                                     /\ i # current => linked[i].by = plain[i].by
          /\ plain[current].by = None /\ Supersedes(plain[current].kind)
      BY <1>6, <1>10
    <2>2. QED
      BY <1>8, <1>9, <1>10, <2>1, LinkMirrored
  <1>12. \A p \in h.derivedFrom : p \in graph.derivedFrom \/ p[2] = writer.episode
    BY <1>8, <1>11
  <1>13. GraphWrite(h)
    BY <1>3
  <1> HIDE DEF h
  <1>14. QED
    BY <1>1, <1>8, <1>11, <1>12, <1>13, PendingGraphFacts, WriteMirrored

\* An episode is saved: neither logged nor saved before, so that no edge leads to it yet.
LEMMA BeginGraph ==
    ASSUME GraphInv, TieInv, NEW u \in Upsert, NEW claims \in Extraction, BeginCommit(u, claims),
           graph' = UpsertEpisode(graph, u.episode), savedGraph' = graph
    PROVE  GraphInv'
  <1>1. /\ Idle /\ u.episode \notin ingested /\ writer' = u /\ ~Idle'
        /\ saved' = [memories |-> memories, provenance |-> provenance,
                     invalidations |-> invalidations, episodes |-> episodes]
        /\ UNCHANGED <<memories, provenance, ingested, purged>>
    BY UpsertFacts DEF BeginCommit, Idle
  <1>2. u.episode \in Episode /\ episodes[u.episode] = None
    BY <1>1, UpsertFacts DEF TieInv
  <1>3. \A e \in Episode : e # u.episode => episodes'[e] = episodes[e]
    BY <1>2 DEF BeginCommit, TieInv, Inv, TypeOK
  <1>4. /\ IsGraph(graph') /\ graph'.about = graph.about
        /\ graph'.episodes = graph.episodes \cup {u.episode}
        /\ graph'.derivedFrom = graph.derivedFrom /\ graph'.supersedes = graph.supersedes
    BY <1>2 DEF GraphInv, Mirrors, IsGraph, UpsertEpisode
  <1>5. Mirrors(graph, memories, provenance, episodes)
    BY DEF GraphInv
  <1>6. ASSUME NEW p \in provenance PROVE p[2] # u.episode
    BY <1>2, <1>6 DEF TieInv, Tied, Anchored
  <1>7. ASSUME NEW p \in graph.derivedFrom PROVE p[2] # u.episode /\ p[2] \in Episode
    BY <1>1, <1>4, <1>5, <1>7 DEF GraphInv, Mirrors, IsGraph
  <1>8. Mirrors(graph, memories, provenance, episodes)'
    <2>1. \A i \in DOMAIN memories, e \in Episode :
             episodes'[e] # None /\ <<i, e>> \in provenance => episodes[e] # None
      <3>1. SUFFICES ASSUME NEW i \in DOMAIN memories, NEW e \in Episode,
                            episodes'[e] # None, <<i, e>> \in provenance
                     PROVE  episodes[e] # None
        OBVIOUS
      <3>2. <<i, e>>[2] # u.episode
        BY <1>6, <3>1
      <3>3. QED
        BY <1>3, <3>1, <3>2
    <2>2. \A p \in graph.derivedFrom : episodes'[p[2]] = episodes[p[2]]
      BY <1>3, <1>7
    <2>3. QED
      BY <1>1, <1>4, <1>5, <2>1, <2>2 DEF Mirrors
  <1>9. Mirrors(savedGraph, saved.memories, saved.provenance, saved.episodes)'
    BY <1>1, <1>5 DEF Mirrors, IsGraph
  <1>10. \A p \in graph.derivedFrom : p[2] \in ingested
    BY <1>1 DEF GraphInv
  <1>11. QED
    BY <1>1, <1>4, <1>8, <1>9, <1>10 DEF GraphInv

LEMMA GraphCommitInv == ASSUME GraphInv, TieInv, Inv', GraphCommitStep PROVE GraphInv'
  <1>1. ASSUME FinishCommit, savedGraph' = None, UNCHANGED graph PROVE GraphInv'
    <2>1. /\ ~Idle /\ Idle' /\ ingested' = ingested \cup {writer.episode}
          /\ UNCHANGED <<memories, provenance, episodes, purged>>
      BY <1>1 DEF FinishCommit, tables, Idle
    <2>2. Mirrors(graph, memories, provenance, episodes)'
      BY <1>1, <2>1 DEF GraphInv, Mirrors, IsGraph
    <2>3. QED
      BY <1>1, <2>1, <2>2 DEF GraphInv
  <1>2. ASSUME AbortCommit, GraphWrite(graph) PROVE GraphInv'
    <2>1. /\ ~Idle /\ Idle' /\ memories' = saved.memories /\ provenance' = saved.provenance
          /\ episodes' = saved.episodes /\ UNCHANGED <<ingested, purged>>
      BY <1>2 DEF AbortCommit, Rollback, Idle
    <2>2. graph' = savedGraph
      BY <1>2, <2>1 DEF GraphWrite, Idle
    <2>3. Mirrors(graph, memories, provenance, episodes)'
      BY <2>1, <2>2 DEF GraphInv, Mirrors, IsGraph
    <2>4. QED
      BY <2>1, <2>2, <2>3 DEF GraphInv
  <1>3. QED
    BY <1>1, <1>2, BeginGraph, CreateGraph, ReinforceGraph, BackfillGraph, SupersedeGraph
    DEF GraphCommitStep

\* A step outside a Commit, which logs nothing.
LEMMA QuietGraph ==
    ASSUME GraphInv, Idle, Idle', UNCHANGED ingested,
           Mirrors(graph, memories, provenance, episodes)',
           graph'.derivedFrom = graph.derivedFrom
    PROVE  GraphInv'
  BY DEF GraphInv

\* A consolidation: the summary is a vertex only after its edges were looked for.
LEMMA GraphConsolidateInv ==
    ASSUME GraphInv, TieInv, NEW r \in Replica, NEW id \in Fresh, NEW statement \in Statement,
           NEW now \in Time, GraphConsolidate(r, id, statement, now)
    PROVE  GraphInv'
  <1> DEFINE g == group[r]
             row == SummaryRow(g, statement, now)
             new == Replaced(Insert(Retired(g.ids, now), id, row), g.ids, id)
             h == UpsertMemory(graph, id, g.topic)
             inherited == Inherited(g.ids, id)
  <1>1. Consolidate(r, id, statement, now)
    BY DEF GraphConsolidate
  <1>2. /\ memories' = new /\ provenance' = provenance \cup inherited
        /\ UNCHANGED <<episodes, ingested, purged>> /\ Idle /\ Idle'
        /\ g # None /\ g.ids \subseteq DOMAIN memories
    BY <1>1 DEF Consolidate, commitVars, Idle
  <1>3. /\ id \in MemoryId /\ id \notin DOMAIN memories \cup purged
        /\ IsTable(memories) /\ superseded_by_fk(memories)
        /\ \A i \in g.ids : memories[i].kind = "event"
        /\ g.kind = "event" /\ g \in Group
    BY <1>2 DEF Fresh, TieInv, Inv, TypeOK, Sound, SchemaAccepts, GroupsHoldEvents
  <1>4. Mirrors(graph, memories, provenance, episodes)
    BY DEF GraphInv
  <1>5. graph' = h
    <2>1. id \notin Vertices(graph)
      BY <1>3, <1>4 DEF Vertices, Mirrors
    <2>2. QED
      BY <2>1 DEF GraphConsolidate
  <1>6. /\ IsGraph(h) /\ h.about = graph.about \cup {<<id, g.topic>>}
        /\ h.episodes = graph.episodes /\ h.derivedFrom = graph.derivedFrom
        /\ h.supersedes = graph.supersedes
    BY <1>3, <1>4 DEF Mirrors, IsGraph, UpsertMemory, Group
  <1>7. row.kind = "event" /\ row.topic = g.topic /\ row.by = None
    BY <1>3 DEF SummaryRow
  <1> HIDE DEF row
  <1>8. /\ DOMAIN new = DOMAIN memories \cup {id} /\ new[id] = row
        /\ \A i \in DOMAIN memories :
             /\ new[i].kind = memories[i].kind /\ new[i].topic = memories[i].topic
             /\ i \notin g.ids => new[i].by = memories[i].by
    BY <1>2, <1>3 DEF Replaced, Insert, Retired, Closed, IsTable, Row
  <1>9. \A p \in inherited : p[1] = id
    BY DEF Inherited
  <1> HIDE DEF new, h, inherited
  <1>10. Mirrors(h, new, provenance \cup inherited, episodes)
    <2>1. \A p \in provenance \cup inherited : p[1] \in DOMAIN new
      BY <1>4, <1>8, <1>9 DEF Mirrors
    <2>2. /\ \A i \in DOMAIN new : <<i, new[i].topic>> \in h.about
          /\ \A p \in h.about : p[1] \in DOMAIN new \cup purged
      BY <1>4, <1>6, <1>7, <1>8 DEF Mirrors
    <2>3. ASSUME NEW i \in DOMAIN new, Supersedes(new[i].kind)
          PROVE  /\ \A e \in Episode :
                       episodes[e] # None /\ <<i, e>> \in provenance \cup inherited =>
                          <<i, e>> \in h.derivedFrom
                 /\ \A j \in DOMAIN new : new[i].by = j => <<j, i>> \in h.supersedes
      <3>1. /\ i \in DOMAIN memories /\ i # id /\ i \notin g.ids
            /\ Supersedes(memories[i].kind) /\ new[i].by = memories[i].by
        BY <1>3, <1>7, <1>8, <2>3 DEF Supersedes
      <3>2. \A e \in Episode : <<i, e>> \notin inherited
        <4>1. SUFFICES ASSUME NEW e \in Episode, <<i, e>> \in inherited PROVE FALSE
          OBVIOUS
        <4>2. <<i, e>>[1] = id
          BY <1>9, <4>1
        <4>3. QED
          BY <3>1, <4>2
      <3>3. memories[i].by # id
        BY <1>3, <3>1, NoneIsNoId DEF superseded_by_fk
      <3>4. QED
        BY <1>4, <1>6, <1>8, <3>1, <3>2, <3>3 DEF Mirrors
    <2>4. \A p \in h.derivedFrom :
             /\ p[1] \in DOMAIN new \cup purged
             /\ p[1] \in DOMAIN new /\ episodes[p[2]] # None => p \in provenance \cup inherited
      BY <1>3, <1>4, <1>6, <1>8 DEF Mirrors
    <2>5. ASSUME NEW p \in h.supersedes
          PROVE  /\ {p[1], p[2]} \subseteq DOMAIN new \cup purged
                 /\ p[2] \in DOMAIN new => Supersedes(new[p[2]].kind)
                 /\ p[1] \in DOMAIN new /\ p[2] \in DOMAIN new => new[p[2]].by = p[1]
      <3>1. /\ {p[1], p[2]} \subseteq DOMAIN memories \cup purged
            /\ p[2] \in DOMAIN memories => Supersedes(memories[p[2]].kind)
            /\ p[1] \in DOMAIN memories /\ p[2] \in DOMAIN memories => memories[p[2]].by = p[1]
        BY <1>4, <1>6 DEF Mirrors
      <3>2. p[1] # id /\ p[2] # id
        BY <1>3, <3>1
      <3>3. p[2] \in DOMAIN memories => p[2] \notin g.ids
        BY <1>3, <3>1 DEF Supersedes
      <3>4. QED
        BY <1>8, <3>1, <3>2, <3>3
    <2>6. QED
      BY <1>6, <2>1, <2>2, <2>3, <2>4, <2>5 DEF Mirrors
  <1>11. Mirrors(graph, memories, provenance, episodes)'
    BY <1>2, <1>5, <1>10 DEF Mirrors, IsGraph
  <1>12. QED
    BY <1>2, <1>5, <1>6, <1>11, QuietGraph

\* A purge takes rows and citations, and leaves the graph alone: what its edges tell of the
\* rows that are left stays so.
LEMMA DeletionGraph ==
    ASSUME GraphInv, TieInv, NEW d \in Deletion, InvalidateByDocument(d), UNCHANGED graphVars
    PROVE  GraphInv'
  <1>1. /\ Idle /\ Idle' /\ UNCHANGED <<graph, savedGraph, ingested>>
        /\ IsTable(memories) /\ Mirrors(graph, memories, provenance, episodes)
    BY DEF InvalidateByDocument, commitVars, Idle, graphVars, GraphInv, TieInv, Inv, TypeOK
  <1>2. CASE CloseDerived(d.document, d.occurred)
    <2>1. Alike(memories, memories')
      BY <1>1, <1>2 DEF CloseDerived, Closed, Alike, IsTable, Row
    <2>2. Mirrors(graph, memories', provenance, episodes)
      BY <1>1, <2>1, AlikeMirrored
    <2>3. Mirrors(graph, memories, provenance, episodes)'
      BY <1>1, <1>2, <2>2 DEF CloseDerived, Mirrors, IsGraph
    <2>4. QED
      BY <1>1, <2>3, QuietGraph
  <1>3. CASE PurgeDerived(d.document)
    <2> DEFINE gone == Gone(d.document)
    <2>1. /\ memories' = Without(memories, gone) /\ purged' = purged \cup gone
          /\ provenance' = {p \in provenance : p[1] \notin gone /\ episodes'[p[2]] # None}
          /\ \A e \in Episode : episodes'[e] # None => episodes'[e] = episodes[e]
      BY <1>3 DEF PurgeDerived, TieInv, Inv, TypeOK
    <2>2. /\ DOMAIN memories' = DOMAIN memories \ gone
          /\ \A i \in DOMAIN memories' :
               /\ memories'[i].kind = memories[i].kind /\ memories'[i].topic = memories[i].topic
               /\ memories'[i].by = Unlinked(memories[i].by, gone)
      BY <1>1, <2>1 DEF Without, IsTable, Row
    <2> HIDE DEF gone
    <2>3. None \notin DOMAIN memories
      BY <1>1, NoneIsNoId DEF IsTable
    <2>4. /\ \A p \in provenance' : p[1] \in DOMAIN memories'
          /\ \A i \in DOMAIN memories' : <<i, memories'[i].topic>> \in graph.about
          /\ \A p \in graph.about : p[1] \in DOMAIN memories' \cup purged'
      BY <1>1, <2>1, <2>2 DEF Mirrors
    <2>5. ASSUME NEW i \in DOMAIN memories', Supersedes(memories'[i].kind)
          PROVE  /\ \A e \in Episode :
                       episodes'[e] # None /\ <<i, e>> \in provenance' =>
                          <<i, e>> \in graph.derivedFrom
                 /\ \A j \in DOMAIN memories' : memories'[i].by = j => <<j, i>> \in graph.supersedes
      <3>1. i \in DOMAIN memories /\ Supersedes(memories[i].kind)
        BY <2>2, <2>5
      <3>2. \A j \in DOMAIN memories' : memories'[i].by = j => memories[i].by = j
        BY <2>2, <2>3 DEF Unlinked
      <3>3. QED
        BY <1>1, <2>1, <2>2, <3>1, <3>2 DEF Mirrors
    <2>6. ASSUME NEW p \in graph.derivedFrom
          PROVE  /\ p[1] \in DOMAIN memories' \cup purged'
                 /\ p[1] \in DOMAIN memories' /\ episodes'[p[2]] # None => p \in provenance'
      <3>1. p[2] \in Episode
        BY <1>1, <2>6 DEF Mirrors, IsGraph
      <3>2. /\ p[1] \in DOMAIN memories \cup purged
            /\ p[1] \in DOMAIN memories /\ episodes[p[2]] # None => p \in provenance
        BY <1>1, <2>6 DEF Mirrors
      <3>3. QED
        BY <2>1, <2>2, <3>1, <3>2
    <2>7. ASSUME NEW p \in graph.supersedes
          PROVE  /\ {p[1], p[2]} \subseteq DOMAIN memories' \cup purged'
                 /\ p[2] \in DOMAIN memories' => Supersedes(memories'[p[2]].kind)
                 /\ p[1] \in DOMAIN memories' /\ p[2] \in DOMAIN memories' =>
                       memories'[p[2]].by = p[1]
      <3>1. /\ {p[1], p[2]} \subseteq DOMAIN memories \cup purged
            /\ p[2] \in DOMAIN memories => Supersedes(memories[p[2]].kind)
            /\ p[1] \in DOMAIN memories /\ p[2] \in DOMAIN memories => memories[p[2]].by = p[1]
        BY <1>1, <2>7 DEF Mirrors
      <3>2. QED
        BY <2>1, <2>2, <3>1 DEF Unlinked
    <2>8. Mirrors(graph, memories, provenance, episodes)'
      <3>1. IsGraph(graph')
        BY <1>1 DEF Mirrors
      <3>2. QED
        BY <1>1, <2>4, <2>5, <2>6, <2>7, <3>1 DEF Mirrors, IsGraph
    <2>9. QED
      BY <1>1, <2>8, QuietGraph
  <1>4. QED
    BY <1>2, <1>3 DEF InvalidateByDocument

LEMMA GraphUntouchedInv == ASSUME GraphInv, TieInv, GraphUntouched PROVE GraphInv'
  <1>1. UNCHANGED <<graph, savedGraph>>
    BY DEF GraphUntouched, graphVars
  <1>2. ASSUME NEW r \in Replica, NEW u \in sweep[r], DecayUpdate(r, u) PROVE GraphInv'
    <2>1. /\ UNCHANGED <<provenance, episodes, ingested, purged>> /\ Idle /\ Idle'
      BY <1>2 DEF DecayUpdate, commitVars, Idle
    <2>2. Alike(memories, memories')
      BY <1>2 DEF DecayUpdate, Alike, TieInv, Inv, TypeOK, IsTable, Row
    <2>3. Mirrors(graph, memories', provenance, episodes)
      BY <2>2, AlikeMirrored DEF GraphInv
    <2>4. Mirrors(graph, memories, provenance, episodes)'
      BY <1>1, <2>1, <2>3 DEF Mirrors, IsGraph
    <2>5. QED
      BY <1>1, <2>1, <2>4, QuietGraph
  <1>3. ASSUME NEW r \in Replica,
               \/ DecayScan(r) \/ DecayStops(r) \/ CountGroups(r) \/ ConsolidationFails(r)
               \/ \E kind \in Kind, topic \in Topic, now \in Time :
                     FindConsolidationGroup(r, kind, topic, now)
        PROVE  GraphInv'
    <2>1. UNCHANGED <<memories, provenance, episodes, ingested, purged, writer, saved>>
      BY <1>3 DEF DecayScan, DecayStops, CountGroups, ConsolidationFails,
                  FindConsolidationGroup, tables, commitVars
    <2>2. Mirrors(graph, memories, provenance, episodes)'
      BY <1>1, <2>1 DEF GraphInv, Mirrors, IsGraph
    <2>3. ~Idle => Mirrors(savedGraph, saved.memories, saved.provenance, saved.episodes)'
      BY <1>1, <2>1 DEF GraphInv, Mirrors, IsGraph
    <2>4. QED
      BY <1>1, <2>1, <2>2, <2>3 DEF GraphInv, Idle
  <1>4. ASSUME NEW d \in Deletion, InvalidateByDocument(d) PROVE GraphInv'
    BY <1>1, <1>4, DeletionGraph DEF graphVars
  <1>5. QED
    BY <1>2, <1>3, <1>4 DEF GraphUntouched

\* Every step beside the graph is a step of the store.
LEMMA GraphStepIsStep == ASSUME [GraphNext]_<<vars, graphVars>> PROVE [Next]_vars
  <1>1. CASE GraphCommitStep
    BY <1>1 DEF GraphCommitStep, CommitStep, Next
  <1>2. CASE \E r \in Replica, id \in Fresh, statement \in Statement, now \in Time :
                GraphConsolidate(r, id, statement, now)
    BY <1>2 DEF GraphConsolidate, MaintenanceStep, Next
  <1>3. CASE GraphUntouched
    BY <1>3 DEF GraphUntouched, MaintenanceStep, Next
  <1>4. QED
    BY <1>1, <1>2, <1>3 DEF GraphNext

LEMMA StepGraphInv ==
    ASSUME GraphInv, TieInv, Inv', [GraphNext]_<<vars, graphVars>> PROVE GraphInv'
  <1>1. CASE UNCHANGED <<vars, graphVars>>
    <2>1. UNCHANGED <<memories, provenance, episodes, ingested, purged, writer, saved,
                      graph, savedGraph>>
      BY <1>1 DEF vars, tables, commitVars, graphVars
    <2>2. Mirrors(graph, memories, provenance, episodes)'
      BY <2>1 DEF GraphInv, Mirrors, IsGraph
    <2>3. ~Idle => Mirrors(savedGraph, saved.memories, saved.provenance, saved.episodes)'
      BY <2>1 DEF GraphInv, Mirrors, IsGraph
    <2>4. QED
      BY <2>1, <2>2, <2>3 DEF GraphInv, Idle
  <1>2. CASE GraphNext
    BY <1>2, GraphCommitInv, GraphConsolidateInv, GraphUntouchedInv DEF GraphNext
  <1>3. QED
    BY <1>1, <1>2

LEMMA GraphInvHolds == GraphSpec => [](GraphInv /\ TieInv)
  <1>1. GraphInit => Init
    BY DEF GraphInit
  <1>2. [GraphNext]_<<vars, graphVars>> => [Next]_vars
    BY GraphStepIsStep
  <1>3. GraphSpec => Spec
    BY <1>1, <1>2, PTL DEF GraphSpec, Spec
  <1>4. GraphInv /\ TieInv /\ Inv' /\ [GraphNext]_<<vars, graphVars>> => GraphInv'
    BY StepGraphInv
  <1>5. QED
    BY <1>3, <1>4, InitGraphInv, InvHolds, TieHolds, PTL DEF GraphSpec

\* Walking the graph tells what the tables tell of every state: what commitOne writes through
\* AGEGraph survives rollbacks, backfills and purges in step with the rows.
THEOREM GraphIsFaithful == GraphSpec => []GraphTellsStates
  <1>1. GraphInv /\ TieInv => GraphTellsStates
    <2>1. SUFFICES ASSUME GraphInv, TieInv, NEW i \in DOMAIN memories,
                          Supersedes(memories[i].kind)
                   PROVE  /\ <<i, memories[i].topic>> \in graph.about
                          /\ \A e \in Episode :
                               episodes[e] # None =>
                                  (<<i, e>> \in provenance <=> <<i, e>> \in graph.derivedFrom)
                          /\ \A j \in DOMAIN memories :
                               memories[i].by = j <=> <<j, i>> \in graph.supersedes
      BY DEF GraphTellsStates
    <2>2. Mirrors(graph, memories, provenance, episodes)
      BY <2>1 DEF GraphInv
    <2>3. <<i, memories[i].topic>> \in graph.about
      BY <2>1, <2>2 DEF Mirrors
    <2>4. ASSUME NEW e \in Episode, episodes[e] # None
          PROVE  <<i, e>> \in provenance <=> <<i, e>> \in graph.derivedFrom
      <3>1. <<i, e>> \in provenance => <<i, e>> \in graph.derivedFrom
        BY <2>1, <2>2, <2>4 DEF Mirrors
      <3>2. ASSUME <<i, e>> \in graph.derivedFrom PROVE <<i, e>> \in provenance
        <4>1. <<i, e>>[1] \in DOMAIN memories /\ episodes[<<i, e>>[2]] # None
          BY <2>1, <2>4
        <4>2. QED
          BY <2>2, <3>2, <4>1 DEF Mirrors
      <3>3. QED
        BY <3>1, <3>2
    <2>5. ASSUME NEW j \in DOMAIN memories
          PROVE  memories[i].by = j <=> <<j, i>> \in graph.supersedes
      <3>1. memories[i].by = j => <<j, i>> \in graph.supersedes
        BY <2>1, <2>2 DEF Mirrors
      <3>2. ASSUME <<j, i>> \in graph.supersedes PROVE memories[i].by = j
        <4>1. <<j, i>>[1] = j /\ <<j, i>>[2] = i
          OBVIOUS
        <4>2. QED
          BY <2>1, <2>2, <3>2, <4>1 DEF Mirrors
      <3>3. QED
        BY <3>1, <3>2
    <2>6. QED
      BY <2>3, <2>4, <2>5
  <1>2. QED
    BY <1>1, GraphInvHolds, PTL

\* The graph is never ahead of the tables: an edge that a rolled-back or purged write made
\* tells nothing of a row that is there.
THEOREM GraphIsNotAhead == GraphSpec => []NoEdgeWithoutRow
  <1>1. GraphInv => NoEdgeWithoutRow
    BY DEF GraphInv, Mirrors, NoEdgeWithoutRow
  <1>2. QED
    BY <1>1, GraphInvHolds, PTL

=============================================================================
