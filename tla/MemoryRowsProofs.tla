--------------------------- MODULE MemoryRowsProofs ---------------------------
(***************************************************************************)
(* What each change the store makes of a table preserves, for any table:   *)
(* the facts about MemoryRows the proofs about the store rest on.          *)
(***************************************************************************)
EXTENDS MemoryRows, TLAPS

\* A sound table: well typed, accepted by the schema, without gap and without circle.
Sound(table) ==
    /\ IsTable(table)
    /\ SchemaAccepts(table)
    /\ Gapless(table)
    /\ Wellfounded(table)

LEMMA NoneIsNoId == None \notin MemoryId /\ None \notin Time /\ None \notin AttrValue
  BY NoneAssumption, TimeAssumption

\* What commitOne inserts is a row.
LEMMA NewRowType ==
    ASSUME NEW claim \in Claim, NEW t \in Time,
           NEW to \in Time \cup {None}, NEW by \in MemoryId \cup {None}
    PROVE  NewRow(claim, t, to, by) \in Row
  BY DEF NewRow, Row, Claim

LEMMA ReinforcedType ==
    ASSUME NEW row \in Row, NEW claim \in Claim, NEW t \in Time
    PROVE  Reinforced(row, claim, t) \in Row
  BY TimeAssumption DEF Reinforced, Row, Claim, Later

LEMMA InsertType ==
    ASSUME NEW table, IsTable(table), NEW id \in MemoryId, NEW row \in Row
    PROVE  IsTable(Insert(table, id, row))
  BY DEF IsTable, Insert

LEMMA ClosedType ==
    ASSUME NEW table, IsTable(table), NEW ids, NEW at \in Time
    PROVE  IsTable(Closed(table, ids, at))
  BY DEF IsTable, Closed, Row

LEMMA ReplacedType ==
    ASSUME NEW table, IsTable(table), NEW ids, NEW by \in MemoryId
    PROVE  IsTable(Replaced(table, ids, by))
  BY DEF IsTable, Replaced, Row

LEMMA WithoutType ==
    ASSUME NEW table, IsTable(table), NEW gone
    PROVE  IsTable(Without(table, gone))
  BY DEF IsTable, Without, Unlinked, Row

-----------------------------------------------------------------------------
(* Inserting a row nothing points to. *)

\* A row that is replaced by nothing, or by a row already there, closes no circle.
LEMMA InsertWellfounded ==
    ASSUME NEW table, IsTable(table), superseded_by_fk(table), Wellfounded(table),
           NEW id \in MemoryId \ DOMAIN table, NEW row \in Row,
           row.by \in DOMAIN table \cup {None}
    PROVE  Wellfounded(Insert(table, id, row))
  <1> DEFINE new == Insert(table, id, row)
  <1>1. DOMAIN new = DOMAIN table \cup {id}
    BY DEF Insert
  <1>2. new[id] = row /\ \A i \in DOMAIN table : new[i] = table[i]
    BY DEF Insert
  <1>3. SUFFICES ASSUME NEW S \in SUBSET DOMAIN new, S # {}
                 PROVE  \E i \in S : new[i].by \notin S
    BY DEF Wellfounded
  <1>4. CASE S \ {id} = {}
    <2>1. S = {id}
      BY <1>3, <1>4
    <2>2. row.by # id
      BY NoneIsNoId
    <2>3. QED
      BY <1>2, <2>1, <2>2
  <1>5. CASE S \ {id} # {}
    <2>1. PICK i \in S \ {id} : table[i].by \notin S \ {id}
      BY <1>1, <1>5 DEF Wellfounded
    <2>2. i \in DOMAIN table
      BY <1>1
    <2>3. table[i].by # id
      BY <2>2, NoneIsNoId DEF superseded_by_fk
    <2>4. QED
      BY <1>2, <2>1, <2>2, <2>3
  <1>6. QED
    BY <1>4, <1>5

\* A link added to a row that is not replaced, from rows that are not what it points
\* to, closes no circle.
LEMMA ReplacedWellfounded ==
    ASSUME NEW table, IsTable(table), Wellfounded(table),
           NEW id \in DOMAIN table, table[id].by = None, NEW ids, id \notin ids
    PROVE  Wellfounded(Replaced(table, ids, id))
  <1> DEFINE new == Replaced(table, ids, id)
  <1>1. DOMAIN new = DOMAIN table
    BY DEF Replaced
  <1>2. \A i \in DOMAIN table : new[i].by = IF i \in ids THEN id ELSE table[i].by
    BY DEF Replaced, IsTable, Row
  <1>3. SUFFICES ASSUME NEW S \in SUBSET DOMAIN new, S # {}
                 PROVE  \E i \in S : new[i].by \notin S
    BY DEF Wellfounded
  <1>4. CASE id \in S
    <2>1. new[id].by = None
      BY <1>2
    <2>2. None \notin S
      BY <1>1, NoneIsNoId DEF IsTable
    <2>3. QED
      BY <1>4, <2>1, <2>2
  <1>5. CASE id \notin S
    <2>1. PICK i \in S : table[i].by \notin S
      BY <1>1, <1>3 DEF Wellfounded
    <2>2. new[i].by \notin S
      BY <1>1, <1>2, <1>5, <2>1
    <2>3. QED
      BY <2>2
  <1>6. QED
    BY <1>4, <1>5

\* The first memory of a topic, or one more event.
LEMMA CreateSound ==
    ASSUME NEW table, Sound(table), NEW id \in MemoryId \ DOMAIN table,
           NEW claim \in Claim, NEW t \in Time,
           Supersedes(claim.kind) => CurrentFor(table, claim) = {}
    PROVE  LET new == Insert(table, id, NewRow(claim, t, None, None))
           IN  Sound(new) /\ Extends(table, new)
  <1> DEFINE row == NewRow(claim, t, None, None)
             new == Insert(table, id, row)
  <1>1. row \in Row /\ row.by = None /\ row.to = None
    BY NewRowType DEF NewRow
  <1>2. IsTable(new)
    BY <1>1, InsertType DEF Sound
  <1>3. /\ DOMAIN new = DOMAIN table \cup {id}
        /\ new[id] = row
        /\ \A i \in DOMAIN table : new[i] = table[i]
    BY DEF Insert
  <1>4. memories_interval_ck(new) /\ memories_supersede_ck(new) /\ superseded_by_fk(new)
    BY <1>1, <1>3 DEF Sound, SchemaAccepts, memories_interval_ck, memories_supersede_ck,
                      superseded_by_fk
  <1>5. memories_current_topic_uidx(new)
    <2>1. row.kind = claim.kind /\ row.topic = claim.topic
      BY DEF NewRow
    <2>2. \A i \in DOMAIN table :
            IsCurrent(table[i]) /\ SameKey(table[i], row) => ~Supersedes(row.kind)
      BY <2>1 DEF CurrentFor, SameKey
    <2>3. QED
      BY <1>3, <2>2 DEF Sound, SchemaAccepts, memories_current_topic_uidx, SameKey
  <1>6. Gapless(new)
    BY <1>1, <1>3, NoneIsNoId DEF Sound, Gapless, SchemaAccepts, superseded_by_fk
  <1>7. Wellfounded(new)
    BY <1>1, InsertWellfounded DEF Sound, SchemaAccepts
  <1>8. Extends(table, new)
    BY <1>3 DEF Extends, SameMemory, SameKey
  <1>9. QED
    BY <1>2, <1>4, <1>5, <1>6, <1>7, <1>8 DEF Sound, SchemaAccepts

\* An older claim filed behind the current memory.
LEMMA BackfillSound ==
    ASSUME NEW table, Sound(table), NEW id \in MemoryId \ DOMAIN table,
           NEW claim \in Claim, NEW t \in Time,
           NEW current \in CurrentFor(table, claim), t < table[current].from
    PROVE  LET new == Insert(table, id, NewRow(claim, t, table[current].from, current))
           IN  Sound(new) /\ Extends(table, new)
  <1> DEFINE row == NewRow(claim, t, table[current].from, current)
             new == Insert(table, id, row)
  <1>1. /\ current \in DOMAIN table
        /\ SameKey(table[current], claim)
        /\ table[current] \in Row
        /\ current # None
    BY NoneIsNoId DEF CurrentFor, Sound, IsTable
  <1>2. row \in Row
    BY <1>1, NewRowType DEF Row, Sound, IsTable
  <1>3. /\ row.by = current /\ row.from = t /\ row.to = table[current].from /\ row.to # None
        /\ SameKey(table[current], row)
    BY <1>1, NoneIsNoId DEF NewRow, SameKey, Row
  <1>4. IsTable(new)
    BY <1>2, InsertType DEF Sound
  <1>5. /\ DOMAIN new = DOMAIN table \cup {id}
        /\ new[id] = row
        /\ \A i \in DOMAIN table : new[i] = table[i]
    BY DEF Insert
  <1>6. memories_interval_ck(new)
    <2>1. row.from <= row.to
      BY <1>1, <1>3, TimeAssumption DEF Row
    <2>2. QED
      BY <1>5, <2>1 DEF Sound, SchemaAccepts, memories_interval_ck
  <1>7. memories_supersede_ck(new) /\ superseded_by_fk(new)
    BY <1>1, <1>3, <1>5
    DEF Sound, SchemaAccepts, memories_supersede_ck, superseded_by_fk
  <1>8. memories_current_topic_uidx(new)
    BY <1>3, <1>5 DEF Sound, SchemaAccepts, memories_current_topic_uidx, IsCurrent
  <1>9. Gapless(new)
    <2>1. \A i \in DOMAIN table : table[i].by # None => table[i].by \in DOMAIN table
      BY DEF Sound, SchemaAccepts, superseded_by_fk
    <2>2. QED
      BY <1>1, <1>3, <1>5, <2>1 DEF Sound, Gapless
  <1>10. Wellfounded(new)
    BY <1>1, <1>2, <1>3, InsertWellfounded DEF Sound, SchemaAccepts
  <1>11. Extends(table, new)
    BY <1>5 DEF Extends, SameMemory, SameKey
  <1>12. QED
    BY <1>4, <1>6, <1>7, <1>8, <1>9, <1>10, <1>11 DEF Sound, SchemaAccepts

\* The three statements of a supersession: each leaves a table the schema accepts, and
\* the last one a sound table.
LEMMA SupersedeSound ==
    ASSUME NEW table, Sound(table), NEW id \in MemoryId \ DOMAIN table,
           NEW claim \in Claim, NEW t \in Time, Supersedes(claim.kind),
           NEW current \in CurrentFor(table, claim), ~(t < table[current].from)
    PROVE  LET closed == [table EXCEPT ![current].to = t]
               inserted == Insert(closed, id, NewRow(claim, t, None, None))
               linked == [inserted EXCEPT ![current].by = id]
           IN  /\ SchemaAccepts(closed) /\ SchemaAccepts(inserted)
               /\ Sound(linked) /\ Extends(table, linked)
  <1> DEFINE closed == [table EXCEPT ![current].to = t]
             row == NewRow(claim, t, None, None)
             inserted == Insert(closed, id, row)
             linked == [inserted EXCEPT ![current].by = id]
  <1>1. /\ current \in DOMAIN table /\ current # id
        /\ SameKey(table[current], claim)
        /\ table[current] \in Row /\ table[current].to = None /\ IsCurrent(table[current])
        /\ table[current].by = None
        /\ id # None /\ t # None
    BY NoneIsNoId
    DEF CurrentFor, Sound, IsTable, IsCurrent, SchemaAccepts, memories_supersede_ck
  <1>2. table[current].from <= t
    BY <1>1, TimeAssumption DEF Row
  <1>3. row \in Row /\ row.by = None /\ row.to = None /\ row.from = t /\ SameKey(row, claim)
    BY NewRowType DEF NewRow, SameKey
  <1> HIDE DEF row
  <1>4. /\ IsTable(closed) /\ DOMAIN closed = DOMAIN table
        /\ closed[current] = [table[current] EXCEPT !.to = t]
        /\ \A i \in DOMAIN table : i # current => closed[i] = table[i]
    BY <1>1 DEF Sound, IsTable, Row
  <1>5. /\ closed[current].to = t /\ closed[current].by = None
        /\ closed[current].from = table[current].from
        /\ SameKey(closed[current], claim)
        /\ ~IsCurrent(closed[current])
    BY <1>1, <1>4 DEF Row, SameKey, IsCurrent
  <1> HIDE DEF closed
  <1>6. SchemaAccepts(closed)
    <2>1. memories_interval_ck(closed)
      BY <1>1, <1>2, <1>4, <1>5 DEF Sound, SchemaAccepts, memories_interval_ck
    <2>5. memories_supersede_ck(closed)
      <3>1. SUFFICES ASSUME NEW i \in DOMAIN table, closed[i].by # None
                     PROVE  closed[i].to # None
        BY <1>4 DEF memories_supersede_ck
      <3>2. i # current
        BY <1>5, <3>1
      <3>3. closed[i] = table[i]
        BY <1>4, <3>2
      <3>4. QED
        BY <3>1, <3>3 DEF Sound, SchemaAccepts, memories_supersede_ck
    <2>2. memories_current_topic_uidx(closed)
      BY <1>4, <1>5 DEF Sound, SchemaAccepts, memories_current_topic_uidx
    <2>3. superseded_by_fk(closed)
      BY <1>4, <1>5 DEF Sound, SchemaAccepts, superseded_by_fk
    <2>4. QED
      BY <2>1, <2>2, <2>3, <2>5 DEF SchemaAccepts
  <1>7. /\ IsTable(inserted)
        /\ DOMAIN inserted = DOMAIN table \cup {id} /\ inserted[id] = row
        /\ \A i \in DOMAIN table : inserted[i] = closed[i]
    BY <1>3, <1>4, InsertType DEF Insert
  <1>8. linked = Replaced(inserted, {current}, id)
    <2>1. inserted = [i \in DOMAIN inserted |-> inserted[i]] /\ current \in DOMAIN inserted
      BY <1>1, <1>7 DEF IsTable
    <2>2. QED
      BY <2>1 DEF Replaced
  <1> HIDE DEF inserted
  <1>9. \A i \in DOMAIN closed : ~(IsCurrent(closed[i]) /\ SameKey(closed[i], claim))
    <2>1. \A i \in DOMAIN table :
            i # current => ~(IsCurrent(table[i]) /\ SameKey(table[i], claim))
      BY <1>1 DEF Sound, SchemaAccepts, memories_current_topic_uidx, SameKey
    <2>2. QED
      BY <1>4, <1>5, <2>1
  <1>10. SchemaAccepts(inserted)
    <2>1. memories_current_topic_uidx(inserted)
      BY <1>3, <1>4, <1>6, <1>7, <1>9
      DEF SchemaAccepts, memories_current_topic_uidx, SameKey
    <2>2. QED
      BY <1>3, <1>4, <1>6, <1>7, <2>1
      DEF SchemaAccepts, memories_interval_ck, memories_supersede_ck, superseded_by_fk
  <1>11. /\ IsTable(linked) /\ DOMAIN linked = DOMAIN table \cup {id}
         /\ linked[id] = row /\ linked[current] = [closed[current] EXCEPT !.by = id]
         /\ \A i \in DOMAIN table : i # current => linked[i] = table[i]
    <2>1. IsTable(linked)
      BY <1>1, <1>7, <1>8, ReplacedType
    <2>2. DOMAIN linked = DOMAIN inserted
      OBVIOUS
    <2>3. \A i \in DOMAIN inserted : i # current => linked[i] = inserted[i]
      OBVIOUS
    <2>4. linked[current] = [inserted[current] EXCEPT !.by = id]
      BY <1>1, <1>7
    <2>5. QED
      BY <1>1, <1>4, <1>7, <2>1, <2>2, <2>3, <2>4
  <1> HIDE DEF linked
  <1>12. /\ linked[current].by = id /\ linked[current].to = t
         /\ linked[current].from = table[current].from
         /\ linked[current].statement = table[current].statement
         /\ SameKey(linked[current], claim) /\ ~IsCurrent(linked[current])
    BY <1>1, <1>4, <1>5, <1>11 DEF Row, SameKey, IsCurrent, IsTable
  <1>13. SchemaAccepts(linked)
    <2>1. memories_interval_ck(linked)
      BY <1>1, <1>2, <1>3, <1>11, <1>12 DEF Sound, SchemaAccepts, memories_interval_ck
    <2>2. memories_supersede_ck(linked)
      BY <1>1, <1>3, <1>11, <1>12 DEF Sound, SchemaAccepts, memories_supersede_ck
    <2>3. superseded_by_fk(linked)
      BY <1>1, <1>3, <1>11, <1>12 DEF Sound, SchemaAccepts, superseded_by_fk
    <2>4. memories_current_topic_uidx(linked)
      BY <1>4, <1>7, <1>10, <1>11, <1>12
      DEF SchemaAccepts, memories_current_topic_uidx
    <2>5. QED
      BY <2>1, <2>2, <2>3, <2>4 DEF SchemaAccepts
  <1>14. Gapless(linked)
    <2>1. \A i \in DOMAIN table : table[i].by # None => table[i].by \in DOMAIN table
      BY DEF Sound, SchemaAccepts, superseded_by_fk
    <2>2. \A i \in DOMAIN table :
            linked[i].from = table[i].from /\ SameKey(linked[i], table[i])
      BY <1>1, <1>11, <1>12 DEF SameKey
    <2>3. SUFFICES ASSUME NEW i \in DOMAIN linked,
                          linked[i].by # None, Supersedes(linked[i].kind)
                   PROVE  /\ SameKey(linked[linked[i].by], linked[i])
                          /\ linked[linked[i].by].from = linked[i].to
      BY DEF Gapless
    <2>4. CASE i = current
      BY <1>3, <1>11, <1>12, <2>4 DEF SameKey
    <2>5. CASE i # current
      <3>1. i \in DOMAIN table /\ linked[i] = table[i] /\ table[i].by \in DOMAIN table
        BY <1>3, <1>11, <2>1, <2>3, <2>5
      <3>2. SameKey(table[table[i].by], table[i]) /\ table[table[i].by].from = table[i].to
        BY <2>3, <3>1 DEF Sound, Gapless
      <3>3. QED
        BY <2>2, <3>1, <3>2 DEF SameKey
    <2>6. QED
      BY <2>4, <2>5
  <1>15. Wellfounded(linked)
    <2>1. Wellfounded(closed)
      BY <1>1, <1>4, <1>5 DEF Sound, Wellfounded
    <2>2. Wellfounded(inserted)
      BY <1>3, <1>4, <1>6, <2>1, InsertWellfounded DEF SchemaAccepts, inserted
    <2>3. QED
      BY <1>1, <1>3, <1>7, <1>8, <2>2, ReplacedWellfounded
  <1>16. Extends(table, linked)
    BY <1>1, <1>11, <1>12 DEF Extends, SameMemory, SameKey
  <1>17. QED
    BY <1>6, <1>10, <1>11, <1>13, <1>14, <1>15, <1>16
    DEF Sound, row, closed, inserted, linked

-----------------------------------------------------------------------------
(* Changing rows in place. *)

\* An UPDATE that leaves the links alone keeps the chains as they are.
LEMMA SameLinks ==
    ASSUME NEW table, Sound(table), NEW new, DOMAIN new = DOMAIN table,
           \A i \in DOMAIN table : SameMemory(table[i], new[i]) /\ new[i].by = table[i].by
    PROVE  Gapless(new) /\ Wellfounded(new) /\ Extends(table, new)
  <1>1. Gapless(new)
    <2>1. SUFFICES ASSUME NEW i \in DOMAIN new, new[i].by # None, Supersedes(new[i].kind)
                   PROVE  /\ SameKey(new[new[i].by], new[i])
                          /\ new[new[i].by].from = new[i].to
      BY DEF Gapless
    <2> DEFINE j == table[i].by
    <2>2. j # None /\ new[i].by = j /\ j \in DOMAIN table /\ table[i].to # None
      BY <2>1 DEF Sound, SchemaAccepts, superseded_by_fk, memories_supersede_ck
    <2>3. SameMemory(table[i], new[i]) /\ SameMemory(table[j], new[j])
      BY <2>1, <2>2
    <2>4. SameKey(table[j], table[i]) /\ table[j].from = table[i].to
      BY <2>1, <2>2, <2>3 DEF Sound, Gapless, SameMemory, SameKey
    <2>5. QED
      BY <2>2, <2>3, <2>4 DEF SameMemory, SameKey
  <1>2. Wellfounded(new)
    BY DEF Sound, Wellfounded
  <1>3. Extends(table, new)
    BY DEF Extends
  <1>4. QED
    BY <1>1, <1>2, <1>3

\* Corroboration.
LEMMA ReinforceSound ==
    ASSUME NEW table, Sound(table), NEW claim \in Claim, NEW t \in Time,
           NEW current \in CurrentFor(table, claim)
    PROVE  LET new == [table EXCEPT ![current] = Reinforced(@, claim, t)]
           IN  Sound(new) /\ Extends(table, new)
  <1> DEFINE row == Reinforced(table[current], claim, t)
             new == [table EXCEPT ![current] = row]
  <1>1. current \in DOMAIN table /\ IsCurrent(table[current]) /\ table[current] \in Row
    BY DEF CurrentFor, Sound, IsTable
  <1>2. /\ row \in Row /\ SameMemory(table[current], row)
        /\ row.by = table[current].by /\ row.to = table[current].to
        /\ row.archived = table[current].archived
    <2> DEFINE old == table[current]
    <2>1. row \in Row
      BY <1>1, ReinforcedType
    <2>2. /\ row.kind = old.kind /\ row.topic = old.topic /\ row.statement = old.statement
          /\ row.from = old.from /\ row.to = old.to /\ row.by = old.by
          /\ row.archived = FALSE
      BY <1>1 DEF Reinforced, Row
    <2>3. old.archived = FALSE
      BY <1>1 DEF IsCurrent, Row
    <2>4. QED
      BY <2>1, <2>2, <2>3 DEF SameMemory, SameKey
  <1> HIDE DEF row
  <1>3. /\ DOMAIN new = DOMAIN table /\ new[current] = row
        /\ \A i \in DOMAIN table : i # current => new[i] = table[i]
        /\ IsTable(new)
    BY <1>1, <1>2 DEF Sound, IsTable
  <1> HIDE DEF new
  <1>4. \A i \in DOMAIN table :
          /\ SameMemory(table[i], new[i]) /\ new[i].by = table[i].by
          /\ new[i].to = table[i].to /\ new[i].archived = table[i].archived
    BY <1>2, <1>3 DEF SameMemory, SameKey
  <1>5. SchemaAccepts(new)
    <2>1. memories_interval_ck(new)
      BY <1>3, <1>4 DEF Sound, SchemaAccepts, memories_interval_ck, SameMemory
    <2>2. memories_supersede_ck(new) /\ superseded_by_fk(new)
      BY <1>3, <1>4 DEF Sound, SchemaAccepts, memories_supersede_ck, superseded_by_fk
    <2>3. memories_current_topic_uidx(new)
      BY <1>3, <1>4
      DEF Sound, SchemaAccepts, memories_current_topic_uidx, IsCurrent, SameMemory, SameKey
    <2>4. QED
      BY <2>1, <2>2, <2>3 DEF SchemaAccepts
  <1>6. QED
    BY <1>3, <1>4, <1>5, SameLinks DEF Sound, new, row

\* Closing open memories, where the schema accepts it.
LEMMA ClosedSound ==
    ASSUME NEW table, Sound(table), NEW at \in Time,
           NEW ids, \A i \in ids \cap DOMAIN table : table[i].to = None,
           SchemaAccepts(Closed(table, ids, at))
    PROVE  Sound(Closed(table, ids, at)) /\ Extends(table, Closed(table, ids, at))
  <1> DEFINE new == Closed(table, ids, at)
  <1>1. IsTable(new) /\ DOMAIN new = DOMAIN table
    BY ClosedType DEF Sound, Closed
  <1>2. \A i \in DOMAIN table :
          SameMemory(table[i], new[i]) /\ new[i].by = table[i].by
    BY DEF Closed, SameMemory, SameKey, Sound, IsTable, Row
  <1> HIDE DEF new
  <1>3. Gapless(new) /\ Wellfounded(new) /\ Extends(table, new)
    BY <1>1, <1>2, SameLinks
  <1>4. QED
    BY <1>1, <1>3 DEF Sound, new

\* Archiving a memory, or bringing it back, where the schema accepts it.
LEMMA ArchivedSound ==
    ASSUME NEW table, Sound(table), NEW id \in DOMAIN table, NEW archive \in BOOLEAN,
           SchemaAccepts([table EXCEPT ![id].archived = archive])
    PROVE  LET new == [table EXCEPT ![id].archived = archive]
           IN  Sound(new) /\ Extends(table, new)
  <1> DEFINE new == [table EXCEPT ![id].archived = archive]
  <1>1. IsTable(new) /\ DOMAIN new = DOMAIN table
    BY DEF Sound, IsTable, Row
  <1>2. \A i \in DOMAIN table :
          SameMemory(table[i], new[i]) /\ new[i].by = table[i].by
    BY DEF SameMemory, SameKey, Sound, IsTable, Row
  <1> HIDE DEF new
  <1>3. Gapless(new) /\ Wellfounded(new) /\ Extends(table, new)
    BY <1>1, <1>2, SameLinks
  <1>4. QED
    BY <1>1, <1>3 DEF Sound, new

-----------------------------------------------------------------------------
(* Consolidation and purge. *)

\* A summary in place of a set of events, where the schema accepts it.
LEMMA ConsolidatedSound ==
    ASSUME NEW table, Sound(table), NEW id \in MemoryId \ DOMAIN table,
           NEW ids \in SUBSET DOMAIN table, \A i \in ids : table[i].kind = "event",
           NEW now \in Time, NEW row \in Row, row.by = None,
           SchemaAccepts(Closed(table, {i \in ids : table[i].to = None}, now)),
           SchemaAccepts(Replaced(Insert(Closed(table, {i \in ids : table[i].to = None}, now),
                                         id, row), ids, id))
    PROVE  LET new == Replaced(Insert(Closed(table, {i \in ids : table[i].to = None}, now),
                                      id, row), ids, id)
           IN  Sound(new) /\ Extends(table, new)
  <1> DEFINE open == {i \in ids : table[i].to = None}
             closed == Closed(table, open, now)
             inserted == Insert(closed, id, row)
             new == Replaced(inserted, ids, id)
  <1>1. Sound(closed) /\ Extends(table, closed) /\ DOMAIN closed = DOMAIN table
    BY ClosedSound DEF Closed
  <1>2. \A i \in ids : closed[i].kind = "event"
    BY <1>1 DEF Extends, SameMemory, SameKey
  <1> HIDE DEF closed
  <1>3. /\ IsTable(inserted) /\ DOMAIN inserted = DOMAIN table \cup {id}
        /\ inserted[id] = row /\ \A i \in DOMAIN table : inserted[i] = closed[i]
    BY <1>1, InsertType DEF Sound, Insert
  <1>4. Wellfounded(inserted)
    BY <1>1, InsertWellfounded DEF Sound, SchemaAccepts
  <1> HIDE DEF inserted
  <1>5. IsTable(new) /\ DOMAIN new = DOMAIN inserted
    BY <1>3, ReplacedType DEF Replaced
  <1>6. Wellfounded(new)
    <2>1. id \notin ids /\ id \in DOMAIN inserted /\ inserted[id].by = None
      BY <1>3
    <2>2. QED
      BY <1>3, <1>4, <2>1, ReplacedWellfounded
  <1>7. \A i \in DOMAIN table \ ids : new[i] = closed[i]
    BY <1>3 DEF Replaced
  <1>8. \A i \in ids : SameMemory(closed[i], new[i])
    <2>1. SUFFICES ASSUME NEW i \in ids
                   PROVE  SameMemory(closed[i], new[i])
      OBVIOUS
    <2>2. new[i] = [closed[i] EXCEPT !.by = id] /\ closed[i] \in Row
      BY <1>1, <1>3 DEF Replaced, Sound, IsTable
    <2>3. QED
      BY <2>2 DEF SameMemory, SameKey, Row
  <1>9. new[id] = row
    BY <1>3 DEF Replaced
  <1> HIDE DEF new
  <1>10. \A i \in DOMAIN table : SameMemory(closed[i], new[i])
    BY <1>7, <1>8 DEF SameMemory, SameKey
  <1>11. Extends(table, new)
    BY <1>1, <1>3, <1>5, <1>10 DEF Extends, SameMemory, SameKey
  <1>12. Gapless(new)
    <2>1. SUFFICES ASSUME NEW i \in DOMAIN new, new[i].by # None, Supersedes(new[i].kind)
                   PROVE  /\ SameKey(new[new[i].by], new[i])
                          /\ new[new[i].by].from = new[i].to
      BY DEF Gapless
    <2>2. i \in DOMAIN table \ ids
      BY <1>2, <1>3, <1>5, <1>8, <1>9, <2>1 DEF Supersedes, SameMemory, SameKey
    <2> DEFINE j == closed[i].by
    <2>3. new[i] = closed[i] /\ j # None /\ j \in DOMAIN table
      BY <1>1, <1>7, <2>1, <2>2 DEF Sound, SchemaAccepts, superseded_by_fk
    <2>4. SameKey(closed[j], closed[i]) /\ closed[j].from = closed[i].to
      BY <1>1, <2>1, <2>2, <2>3 DEF Sound, Gapless
    <2>5. QED
      BY <1>10, <2>3, <2>4 DEF SameMemory, SameKey
  <1>13. QED
    BY <1>5, <1>6, <1>11, <1>12 DEF Sound, new, inserted, closed

\* A purge: the rows that stay are as before, but for the links they lose.
LEMMA WithoutSound ==
    ASSUME NEW table, Sound(table), NEW gone
    PROVE  Sound(Without(table, gone))
  <1> DEFINE new == Without(table, gone)
  <1>1. DOMAIN new = DOMAIN table \ gone /\ IsTable(new)
    BY WithoutType DEF Without, Sound
  <1>2. \A i \in DOMAIN new :
          /\ SameMemory(table[i], new[i])
          /\ new[i].to = table[i].to /\ new[i].archived = table[i].archived
          /\ new[i].by = IF table[i].by \in gone THEN None ELSE table[i].by
    BY DEF Without, Unlinked, SameMemory, SameKey, Sound, IsTable, Row
  <1> HIDE DEF new
  <1>3. memories_interval_ck(new)
    BY <1>1, <1>2 DEF Sound, SchemaAccepts, memories_interval_ck, SameMemory
  <1>4. memories_supersede_ck(new)
    BY <1>1, <1>2 DEF Sound, SchemaAccepts, memories_supersede_ck
  <1>5. memories_current_topic_uidx(new)
    BY <1>1, <1>2
    DEF Sound, SchemaAccepts, memories_current_topic_uidx, IsCurrent, SameMemory, SameKey
  <1>6. superseded_by_fk(new)
    BY <1>1, <1>2 DEF Sound, SchemaAccepts, superseded_by_fk
  <1>7. Gapless(new)
    <2>1. SUFFICES ASSUME NEW i \in DOMAIN new, new[i].by # None, Supersedes(new[i].kind)
                   PROVE  /\ SameKey(new[new[i].by], new[i])
                          /\ new[new[i].by].from = new[i].to
      BY DEF Gapless
    <2> DEFINE j == table[i].by
    <2>2. j # None /\ new[i].by = j /\ j \in DOMAIN new
      BY <1>1, <1>2, <2>1 DEF Sound, SchemaAccepts, superseded_by_fk
    <2>3. SameKey(table[j], table[i]) /\ table[j].from = table[i].to
      BY <1>1, <1>2, <2>1, <2>2 DEF Sound, Gapless, SameMemory, SameKey
    <2>4. QED
      BY <1>2, <2>2, <2>3 DEF SameMemory, SameKey
  <1>8. Wellfounded(new)
    <2>1. SUFFICES ASSUME NEW S \in SUBSET DOMAIN new, S # {}
                   PROVE  \E i \in S : new[i].by \notin S
      BY DEF Wellfounded
    <2>2. PICK i \in S : table[i].by \notin S
      BY <1>1, <2>1 DEF Sound, Wellfounded
    <2>3. None \notin S
      BY <1>1, NoneIsNoId DEF IsTable
    <2>4. QED
      BY <1>2, <2>2, <2>3
  <1>9. QED
    BY <1>1, <1>3, <1>4, <1>5, <1>6, <1>7, <1>8 DEF Sound, SchemaAccepts, new

LEMMA ExtendsTransitive ==
    ASSUME NEW a, NEW b, NEW c, Extends(a, b), Extends(b, c)
    PROVE  Extends(a, c)
  BY DEF Extends, SameMemory, SameKey
=============================================================================
